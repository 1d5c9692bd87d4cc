-------------------------- MODULE ScrapeRunsProofs --------------------------
(* Theorems about ScrapeRuns for every number of runs, of workers and of    *)
(* incidents.                                                               *)
EXTENDS ScrapeRuns, TLAPS

(* What a task remembers of the row of its job run.  There is no such row   *)
(* before the commit of the request.                                        *)
Remembers(t) ==
    /\ exec[t].pc = "activate" => exec[t].saw = "queued" /\ job[t] # None
    /\ exec[t].pc = "write" => job[t] # None /\ exec[t].saw \notin {None, "canceled"}
    /\ exec[t].pc \in {"complete", "write"} => exec[t].result \in Ended
    /\ exec[t].tracked => job[t] # None
    /\ request[t] # "done" => job[t] = None

(* Workers and cancellations write job runs that they have found.           *)
Found(t) ==
    /\ \A w \in Workers : t \in worker[w].jobs => job[t] # None
    /\ cancel.task = t /\ cancel.pc \in {"lock", "job"} => job[t] # None

RunInv == RunTypeOK /\ \A t \in Tasks : Remembers(t) /\ Found(t)
-----------------------------------------------------------------------------
LEMMA InitRunInv == Init => RunInv
<1> SUFFICES ASSUME Init PROVE RunInv
    OBVIOUS
<1>1. /\ run \in [Tasks -> RunStatus] /\ job \in [Tasks -> JobStatus]
      /\ request \in [Tasks -> {"none", "sent", "done"}]
      /\ message \in [Tasks -> {"none", "queued", "taken"}]
    BY DEF Init, RunStatus, JobStatus
<1>2. exec \in [Tasks -> Execution]
    BY DEF Init, NoExec, Execution, Steps, JobStatus
<1>3. worker \in [Workers -> Working]
    BY DEF Init, At, Working
<1>4. cancel \in [pc : {"idle", "run", "lock", "job"}, task : Tasks \cup {None}]
    BY DEF Init, NoCancel
<1>5. incidents \in 0 .. MaxIncidents
    BY RunAssumption DEF Init
<1>6. \A t \in Tasks : Remembers(t) /\ Found(t)
    BY DEF Init, Remembers, Found, NoExec, NoCancel, At
<1> QED
    BY <1>1, <1>2, <1>3, <1>4, <1>5, <1>6 DEF Init, RunInv, RunTypeOK, Execution, Working

LEMMA IncidentType ==
    ASSUME incidents \in 0 .. MaxIncidents, Incident
    PROVE  incidents' \in 0 .. MaxIncidents
BY RunAssumption DEF Incident

LEMMA RequestStep ==
    ASSUME RunInv, NEW t \in Tasks, Request(t)
    PROVE  RunInv'
<1>1. RunTypeOK'
    BY IncidentType
    DEF Request, CreateRun, CommitRun, RollBackRun, RunInv, RunTypeOK, RunStatus, JobStatus
<1>2. ASSUME NEW u \in Tasks PROVE Remembers(u)' /\ Found(u)'
    BY RunAssumption
    DEF Request, CreateRun, CommitRun, RollBackRun, RunInv, RunTypeOK, Remembers, Found
<1> QED
    BY <1>1, <1>2 DEF RunInv
-----------------------------------------------------------------------------
(* A step that gives task t execution e.  It keeps the invariant if e and   *)
(* the statuses it writes fit.                                              *)
LEMMA ExecStep ==
    ASSUME RunInv, NEW t \in Tasks, NEW e \in Execution, ToStep(t, e),
           run' \in [Tasks -> RunStatus], job' \in [Tasks -> JobStatus],
           message' \in [Tasks -> {"none", "queued", "taken"}],
           lock' \in Tasks \cup {None}, lost' \subseteq Tasks, excused' \subseteq Tasks \X Rows,
           incidents' \in 0 .. MaxIncidents,
           UNCHANGED <<request, worker, revokes, revoked, cancel, held>>,
           \A u \in Tasks \ {t} : job'[u] = job[u],
           e.pc = "activate" => e.saw = "queued" /\ job'[t] # None,
           e.pc = "write" => job'[t] # None /\ e.saw \notin {None, "canceled"},
           e.pc \in {"complete", "write"} => e.result \in Ended,
           job[t] # None \/ e.tracked => job'[t] # None,
           request[t] # "done" => job'[t] = None
    PROVE  RunInv'
<1>1. exec' = [exec EXCEPT ![t] = e]
    BY DEF ToStep
<1>2. RunTypeOK'
    BY <1>1 DEF RunInv, RunTypeOK
<1>3. ASSUME NEW u \in Tasks PROVE Remembers(u)' /\ Found(u)'
    BY <1>1 DEF RunInv, RunTypeOK, Remembers, Found
<1> QED
    BY <1>2, <1>3 DEF RunInv

LEMMA TaskStepInv ==
    ASSUME RunInv, NEW t \in Tasks, TaskStep(t)
    PROVE  RunInv'
<1> USE DEF RunInv
<1>1. /\ exec[t] \in Execution /\ Remembers(t)
      /\ run \in [Tasks -> RunStatus] /\ job \in [Tasks -> JobStatus]
      /\ message \in [Tasks -> {"none", "queued", "taken"}]
      /\ lock \in Tasks \cup {None} /\ lost \subseteq Tasks /\ excused \subseteq Tasks \X Rows
      /\ incidents \in 0 .. MaxIncidents
    BY DEF RunTypeOK
<1>2. CASE Take(t)
    <2>1. CASE exec' = exec
        <3>1. RunTypeOK'
            BY <1>1, <1>2, <2>1, IncidentType DEF Take, Acknowledge, Excuse, Rows, RunTypeOK
        <3> QED
            BY <1>2, <2>1, <3>1 DEF Take, Remembers, Found
    <2>2. CASE ToStep(t, [NoExec EXCEPT !.pc = "find"])
        <3> DEFINE e == [NoExec EXCEPT !.pc = "find"]
        <3>1. e \in Execution /\ e.pc = "find" /\ e.tracked = FALSE
            BY DEF NoExec, Execution, Steps, JobStatus
        <3>2. /\ message' \in [Tasks -> {"none", "queued", "taken"}]
              /\ excused' \subseteq Tasks \X Rows
              /\ incidents' \in 0 .. MaxIncidents
            BY <1>1, <1>2, IncidentType DEF Take, Acknowledge, Excuse, Rows
        <3>3. ToStep(t, e)
            BY <2>2
        <3> HIDE DEF e
        <3> QED
            BY <1>1, <1>2, <3>1, <3>2, <3>3, ExecStep DEF Take, Remembers
    <2> QED
        BY <1>2, <2>1, <2>2 DEF Take
<1>3. CASE FindJobRun(t)
    <2> DEFINE e == IF job[t] = "queued"
                 THEN [exec[t] EXCEPT !.pc = "activate", !.tracked = TRUE, !.saw = job[t]]
                 ELSE [exec[t] EXCEPT !.pc = "lock"]
    <2>1. e \in Execution /\ e.pc \in {"activate", "lock"}
          /\ (e.pc = "activate" => e.saw = "queued" /\ job[t] # None)
          /\ (e.tracked => job[t] # None)
        BY <1>1, <1>3, RunAssumption
        DEF FindJobRun, Remembers, NoExec, Execution, Steps, JobStatus, Ended
    <2>2. excused' \subseteq Tasks \X Rows
        BY <1>1, <1>3, <2>1 DEF FindJobRun, Excuse, Rows
    <2>3. ToStep(t, e)
        BY <1>3 DEF FindJobRun, Go
    <2> HIDE DEF e
    <2> QED
        BY <1>1, <1>3, <2>1, <2>2, <2>3, ExecStep DEF FindJobRun, Remembers
<1>4. CASE Activate(t)
    <2> DEFINE e == [exec[t] EXCEPT !.pc = "lock", !.saw = None]
    <2>1. e \in Execution /\ e.pc = "lock" /\ e.tracked = exec[t].tracked
        BY <1>1, <1>4, RunAssumption
        DEF Activate, Remembers, NoExec, Execution, Steps, JobStatus, Ended
    <2>2. job' \in [Tasks -> JobStatus] /\ job[t] # None /\ job'[t] # None
          /\ request[t] = "done" /\ \A u \in Tasks \ {t} : job'[u] = job[u]
        BY <1>1, <1>4, <2>1, RunAssumption DEF Activate, Remembers, JobStatus
    <2>3. ToStep(t, e)
        BY <1>4 DEF Activate, Go
    <2> HIDE DEF e
    <2> QED
        BY <1>1, <1>4, <2>1, <2>2, <2>3, ExecStep DEF Activate, Remembers
<1>5. CASE AcquireLock(t)
    <2> DEFINE e == [exec[t] EXCEPT !.pc = "start"]
    <2>1. e \in Execution /\ e.pc = "start" /\ e.tracked = exec[t].tracked
        BY <1>1, <1>5, RunAssumption
        DEF AcquireLock, Remembers, NoExec, Execution, Steps, JobStatus, Ended
    <2>2. lock' \in Tasks \cup {None} /\ lost' \subseteq Tasks
        BY <1>1, <1>5, <2>1 DEF AcquireLock
    <2>3. ToStep(t, e)
        BY <1>5 DEF AcquireLock, Go
    <2> HIDE DEF e
    <2> QED
        BY <1>1, <1>5, <2>1, <2>2, <2>3, ExecStep DEF AcquireLock, Remembers
<1>6. CASE FailLock(t)
    <2> DEFINE e == [exec[t] EXCEPT !.pc = IF exec[t].pc = "lock" THEN "wait" ELSE "skip"]
    <2>1. e \in Execution /\ e.pc \in {"wait", "skip"} /\ e.tracked = exec[t].tracked
        BY <1>1, <1>6, RunAssumption
        DEF FailLock, Remembers, NoExec, Execution, Steps, JobStatus, Ended
    <2>2. lock' \in Tasks \cup {None} /\ lost' \subseteq Tasks
          /\ incidents' \in 0 .. MaxIncidents
        BY <1>1, <1>6, <2>1, IncidentType DEF FailLock
    <2>3. ToStep(t, e)
        BY <1>6 DEF FailLock, Go
    <2> HIDE DEF e
    <2> QED
        BY <1>1, <1>6, <2>1, <2>2, <2>3, ExecStep DEF FailLock, Remembers
<1>7. CASE ForceRelease(t)
    <2> DEFINE e == [exec[t] EXCEPT !.pc = "again"]
    <2>1. e \in Execution /\ e.pc = "again" /\ e.tracked = exec[t].tracked
        BY <1>1, <1>7, RunAssumption
        DEF ForceRelease, Remembers, NoExec, Execution, Steps, JobStatus, Ended
    <2>2. lock' \in Tasks \cup {None} /\ lost' \subseteq Tasks
          /\ incidents' \in 0 .. MaxIncidents
        BY <1>1, <1>7, <2>1, IncidentType DEF ForceRelease, TakeAwayOrFail, TakeAway
    <2>3. ToStep(t, e)
        BY <1>7 DEF ForceRelease, Go
    <2> HIDE DEF e
    <2> QED
        BY <1>1, <1>7, <2>1, <2>2, <2>3, ExecStep DEF ForceRelease, Remembers
<1>8. CASE StartIngestion(t)
    <2> DEFINE e == [exec[t] EXCEPT !.pc = "ingest"]
    <2>1. e \in Execution /\ e.pc = "ingest" /\ e.tracked = exec[t].tracked
        BY <1>1, <1>8, RunAssumption
        DEF StartIngestion, Remembers, NoExec, Execution, Steps, JobStatus, Ended
    <2>2. run' \in [Tasks -> RunStatus] /\ excused' \subseteq Tasks \X Rows
        BY <1>1, <1>8, <2>1 DEF StartIngestion, UpdateRun, Excuse, Rows, RunStatus
    <2>3. ToStep(t, e)
        BY <1>8 DEF StartIngestion, Go
    <2> HIDE DEF e
    <2> QED
        BY <1>1, <1>8, <2>1, <2>2, <2>3, ExecStep DEF StartIngestion, Remembers
<1>9. CASE EndIngestion(t)
    <2>1. PICK result \in {"success", "error"} :
                ToStep(t, [exec[t] EXCEPT !.pc = "complete", !.result = result])
        BY <1>9 DEF EndIngestion
    <2> DEFINE e == [exec[t] EXCEPT !.pc = "complete", !.result = result]
    <2>2. e \in Execution /\ e.pc = "complete" /\ e.tracked = exec[t].tracked
          /\ e.result \in Ended
        BY <1>1 DEF Execution, Steps, Ended
    <2>3. run' \in [Tasks -> RunStatus] /\ excused' \subseteq Tasks \X Rows
          /\ incidents' \in 0 .. MaxIncidents
        BY <1>1, <1>9, IncidentType DEF EndIngestion, UpdateRun, Excuse, Rows, RunStatus, Ended
    <2> HIDE DEF e
    <2> QED
        BY <1>1, <1>9, <2>1, <2>2, <2>3, ExecStep DEF EndIngestion, Remembers, e
<1>10. CASE Skip(t)
    <2>1. PICK pc \in {"complete", "release"} :
                ToStep(t, [exec[t] EXCEPT !.pc = pc, !.result = "skipped"])
        BY <1>10 DEF Skip
    <2> DEFINE e == [exec[t] EXCEPT !.pc = pc, !.result = "skipped"]
    <2>2. e \in Execution /\ e.pc \in {"complete", "release"} /\ e.tracked = exec[t].tracked
          /\ e.result \in Ended
        BY <1>1 DEF Execution, Steps, Ended
    <2>3. run' \in [Tasks -> RunStatus] /\ excused' \subseteq Tasks \X Rows
          /\ incidents' \in 0 .. MaxIncidents
        BY <1>1, <1>10, IncidentType DEF Skip, UpdateRun, Excuse, Rows, RunStatus, Ended
    <2>4. ToStep(t, e)
        BY <2>1
    <2> HIDE DEF e
    <2> QED
        BY <1>1, <1>10, <2>2, <2>3, <2>4, ExecStep DEF Skip, Remembers
<1>11. CASE ReadJobRun(t)
    <2> DEFINE e == IF exec[t].tracked /\ job[t] # "canceled"
                 THEN [exec[t] EXCEPT !.pc = "write", !.saw = job[t]]
                 ELSE [exec[t] EXCEPT !.pc = "release"]
    <2>1. e \in Execution /\ e.pc \in {"write", "release"} /\ e.tracked = exec[t].tracked
          /\ (e.pc = "write" => job[t] # None /\ e.saw \notin {None, "canceled"}
                            /\ e.result \in Ended)
        BY <1>1, <1>11, RunAssumption
        DEF ReadJobRun, Remembers, NoExec, Execution, Steps, JobStatus, Ended
    <2>2. job[t] \in JobStatus
        BY <1>1, <1>11, <2>1 DEF ReadJobRun
    <2>3. ToStep(t, e)
        BY <1>11 DEF ReadJobRun, Go
    <2> HIDE DEF e
    <2> QED
        BY <1>1, <1>11, <2>1, <2>2, <2>3, ExecStep DEF ReadJobRun, Remembers
<1>12. CASE CompleteJobRun(t)
    <2> DEFINE e == [exec[t] EXCEPT !.pc = "release", !.saw = None]
    <2>1. e \in Execution /\ e.pc = "release" /\ e.tracked = exec[t].tracked
        BY <1>1, <1>12, RunAssumption
        DEF CompleteJobRun, Remembers, NoExec, Execution, Steps, JobStatus, Ended
    <2>2. job' \in [Tasks -> JobStatus] /\ job[t] # None /\ job'[t] # None
          /\ request[t] = "done" /\ \A u \in Tasks \ {t} : job'[u] = job[u]
        BY <1>1, <1>12, <2>1, RunAssumption DEF CompleteJobRun, Remembers, JobStatus, Ended
    <2>3. ToStep(t, e)
        BY <1>12 DEF CompleteJobRun, Go
    <2> HIDE DEF e
    <2> QED
        BY <1>1, <1>12, <2>1, <2>2, <2>3, ExecStep DEF CompleteJobRun, Remembers
<1>13. CASE ReleaseLock(t)
    <2> DEFINE e == NoExec
    <2>1. e \in Execution /\ e.pc = "idle" /\ e.tracked = FALSE
        BY <1>1, <1>13, RunAssumption
        DEF ReleaseLock, Remembers, NoExec, Execution, Steps, JobStatus, Ended
    <2>2. lock' \in Tasks \cup {None} /\ lost' \subseteq Tasks
          /\ incidents' \in 0 .. MaxIncidents
          /\ message' \in [Tasks -> {"none", "queued", "taken"}]
        BY <1>1, <1>13, <2>1, IncidentType DEF ReleaseLock, Acknowledge
    <2>3. ToStep(t, e)
        BY <1>13 DEF ReleaseLock, Go
    <2> HIDE DEF e
    <2> QED
        BY <1>1, <1>13, <2>1, <2>2, <2>3, ExecStep DEF ReleaseLock, Remembers
<1>14. CASE RefuseIngestion(t)
    <2> DEFINE e == [exec[t] EXCEPT !.pc = "complete", !.result = "error"]
    <2>1. e \in Execution /\ e.pc = "complete" /\ e.tracked = exec[t].tracked
          /\ e.result \in Ended
        BY <1>1 DEF Execution, Steps, Ended
    <2>2. excused' \subseteq Tasks \X Rows
        BY <1>1, <1>14 DEF RefuseIngestion, Excuse, Rows
    <2>3. ToStep(t, e)
        BY <1>14 DEF RefuseIngestion
    <2> HIDE DEF e
    <2> QED
        BY <1>1, <1>14, <2>1, <2>2, <2>3, ExecStep DEF RefuseIngestion, Remembers
<1>15. CASE FailToFind(t)
    <2> DEFINE e == [NoExec EXCEPT !.pc = "lock"]
    <2>1. e \in Execution /\ e.pc = "lock" /\ e.tracked = FALSE
        BY DEF NoExec, Execution, Steps, JobStatus
    <2>2. excused' \subseteq Tasks \X Rows /\ incidents' \in 0 .. MaxIncidents
        BY <1>1, <1>15, IncidentType DEF FailToFind, Excuse, Rows
    <2>3. ToStep(t, e)
        BY <1>15 DEF FailToFind
    <2> HIDE DEF e
    <2> QED
        BY <1>1, <1>15, <2>1, <2>2, <2>3, ExecStep DEF FailToFind, Remembers
<1>16. CASE FailCompletion(t)
    <2>1. PICK pc \in {"complete", "release"}, result \in {"error", exec[t].result} :
            ToStep(t, [exec[t] EXCEPT !.saw = None, !.pc = pc, !.result = result])
        <3>1. /\ [[exec[t] EXCEPT !.saw = None] EXCEPT !.pc = "complete", !.result = "error"]
                   = [exec[t] EXCEPT !.saw = None, !.pc = "complete", !.result = "error"]
              /\ [[exec[t] EXCEPT !.saw = None] EXCEPT !.pc = "release"]
                   = [exec[t] EXCEPT !.saw = None, !.pc = "release", !.result = exec[t].result]
            BY <1>1 DEF Execution
        <3> QED
            BY <1>16, <3>1 DEF FailCompletion
    <2> DEFINE e == [exec[t] EXCEPT !.saw = None, !.pc = pc, !.result = result]
    <2>2. e \in Execution /\ e.pc \in {"complete", "release"} /\ e.tracked = exec[t].tracked
          /\ e.result \in Ended
        BY <1>1, <1>16 DEF FailCompletion, Remembers, Execution, Steps, JobStatus, Ended
    <2>3. excused' \subseteq Tasks \X Rows /\ incidents' \in 0 .. MaxIncidents
        BY <1>1, <1>16, IncidentType DEF FailCompletion, Excuse, Rows
    <2>4. ToStep(t, e)
        BY <2>1
    <2> HIDE DEF e
    <2> QED
        BY <1>1, <1>16, <2>2, <2>3, <2>4, ExecStep DEF FailCompletion, Remembers
<1> QED
    BY <1>2, <1>3, <1>4, <1>5, <1>6, <1>7, <1>8, <1>9, <1>10, <1>11, <1>12, <1>13, <1>14,
       <1>15, <1>16
    DEF TaskStep

LEMMA CancelStep ==
    ASSUME RunInv, NEW t \in Tasks, CancelScrapeRun(t) \/ CancelJobRun(t)
    PROVE  RunInv'
<1>1. RunTypeOK'
    BY IncidentType
    DEF CancelScrapeRun, CancelJobRun, Cancel, RunInv, RunTypeOK
<1>2. ASSUME NEW u \in Tasks PROVE Remembers(u)' /\ Found(u)'
    BY RunAssumption
    DEF CancelScrapeRun, CancelJobRun, Cancel, OpenJobs, RunInv, RunTypeOK, Remembers, Found
<1> QED
    BY <1>1, <1>2 DEF RunInv

LEMMA CommitCancelStep ==
    ASSUME RunInv, DeleteLock \/ CommitCancel
    PROVE  RunInv'
<1>1. cancel' \in [pc : {"idle", "run", "lock", "job"}, task : Tasks \cup {None}]
      /\ cancel'.pc # "lock" /\ (cancel'.pc = "job" => cancel'.task = cancel.task
        /\ cancel.pc = "lock")
    BY DEF DeleteLock, CommitCancel, NoCancel, RunInv, RunTypeOK
<1>2. run' \in [Tasks -> RunStatus] /\ job' \in [Tasks -> JobStatus]
    BY DEF DeleteLock, CommitCancel, RunInv, RunTypeOK, RunStatus, JobStatus, Ended
<1>3. RunTypeOK'
    BY <1>1, <1>2 DEF DeleteLock, CommitCancel, TakeAway, RunInv, RunTypeOK
<1>4. ASSUME NEW u \in Tasks PROVE Remembers(u)' /\ Found(u)'
    <2>1. job'[u] = job[u] \/ (job[u] # None /\ job'[u] # None)
        BY RunAssumption DEF DeleteLock, CommitCancel, RunInv, RunTypeOK, Found, Ended
    <2> QED
        BY <1>1, <2>1 DEF DeleteLock, CommitCancel, RunInv, RunTypeOK, Remembers, Found
<1> QED
    BY <1>3, <1>4 DEF RunInv

LEMMA RevokeStep ==
    ASSUME RunInv, NEW t \in Tasks, Revoke(t) \/ KillTask(t)
    PROVE  RunInv'
<1>1. NoExec \in Execution /\ NoExec.pc = "idle" /\ NoExec.tracked = FALSE
    BY DEF NoExec, Execution, Steps, JobStatus
<1>2. RunTypeOK'
    BY <1>1, IncidentType
    DEF Revoke, KillTask, Acknowledge, ToStep, Excuse, Rows, RunInv, RunTypeOK
<1>3. ASSUME NEW u \in Tasks PROVE Remembers(u)' /\ Found(u)'
    BY <1>1 DEF Revoke, KillTask, ToStep, RunInv, RunTypeOK, Remembers, Found
<1> QED
    BY <1>2, <1>3 DEF RunInv

LEMMA OtherStep ==
    ASSUME RunInv, ExpireLock \/ ToggleHold \/ \E t \in Tasks : Redeliver(t)
    PROVE  RunInv'
<1>1. RunTypeOK'
    BY IncidentType DEF ExpireLock, ToggleHold, Redeliver, TakeAway, RunInv, RunTypeOK
<1>2. ASSUME NEW u \in Tasks PROVE Remembers(u)' /\ Found(u)'
    BY DEF ExpireLock, ToggleHold, Redeliver, RunInv, Remembers, Found
<1> QED
    BY <1>1, <1>2 DEF RunInv

(* A step of a worker, which finds the rows it remembers.                   *)
LEMMA WorkingStep ==
    ASSUME RunInv, NEW w \in Workers,
           ShutDown(w) \/ LoseWorker(w) \/ FailMarking(w) \/ WorkerStep(w)
    PROVE  RunInv'
<1>1. PICK s \in Working : Become(w, s) /\ s.jobs \subseteq OpenJobs
    <2>1. \A pc \in {"up", "draining", "down"} :
            At(pc) \in Working /\ At(pc).jobs = {}
        BY DEF At, Working
    <2>2. ASSUME ShutDown(w) \/ MarkStaleRuns(w) \/ ClearLocks(w)
          PROVE \E s \in Working : Become(w, s) /\ s.jobs \subseteq OpenJobs
        BY <2>2 DEF ShutDown, MarkStaleRuns, ClearLocks, At, Working, OpenRuns, OpenJobs
    <2>3. ASSUME \/ LoseWorker(w) \/ FailMarking(w)
                 \/ MarkAtShutdown(w) \/ Stop(w) \/ MarkStaleJobs(w)
          PROVE \E pc \in {"up", "draining", "down"} : Become(w, At(pc))
        BY <2>3 DEF LoseWorker, FailMarking, MarkAtShutdown, Stop, MarkStaleJobs
    <2> QED
        BY <2>1, <2>2, <2>3 DEF WorkerStep
<1>2. /\ run' \in [Tasks -> RunStatus] /\ job' \in [Tasks -> JobStatus]
      /\ \A u \in Tasks : job'[u] = job[u] \/ (job[u] # None /\ job'[u] # None)
    BY RunAssumption
    DEF ShutDown, LoseWorker, FailMarking, WorkerStep, MarkAtShutdown, Stop, MarkStaleJobs,
        MarkStaleRuns, ClearLocks, MarkRuns, MarkJobs, RunInv, RunTypeOK, Found, RunStatus,
        JobStatus, Ended
<1>3. exec' \in [Tasks -> Execution] /\ \A u \in Tasks : exec'[u] \in {exec[u], NoExec}
    <2>1. NoExec \in Execution
        BY DEF NoExec, Execution, Steps, JobStatus
    <2> QED
        BY <2>1
        DEF ShutDown, LoseWorker, FailMarking, WorkerStep, MarkAtShutdown, Stop, MarkStaleJobs,
            MarkStaleRuns, ClearLocks, RunInv, RunTypeOK
<1>4. /\ UNCHANGED <<request, message, revokes, cancel, held>>
      /\ lock' \in {lock, None} /\ lost' \subseteq Tasks /\ revoked' \subseteq Tasks
      /\ excused' \subseteq Tasks \X Rows /\ incidents' \in 0 .. MaxIncidents
    BY IncidentType
    DEF ShutDown, LoseWorker, FailMarking, WorkerStep, MarkAtShutdown, Stop, MarkStaleJobs,
        MarkStaleRuns, ClearLocks, TakeAwayOrFail, TakeAway, RunInv, RunTypeOK, OpenRuns,
        OpenJobs, Rows
<1>5. RunTypeOK'
    BY <1>1, <1>2, <1>3, <1>4 DEF Become, RunInv, RunTypeOK
<1>6. ASSUME NEW u \in Tasks PROVE Remembers(u)'
    BY <1>2, <1>3, <1>4 DEF RunInv, Remembers, NoExec
<1>7. ASSUME NEW u \in Tasks PROVE Found(u)'
    <2>1. u \in OpenJobs => job[u] # None
        BY RunAssumption DEF OpenJobs
    <2> QED
        BY <1>1, <1>2, <1>4, <2>1 DEF Become, RunInv, RunTypeOK, Found
<1> QED
    BY <1>5, <1>6, <1>7 DEF RunInv

LEMMA NextRunInv == RunInv /\ [Next]_vars => RunInv'
<1> SUFFICES ASSUME RunInv, [Next]_vars PROVE RunInv'
    OBVIOUS
<1>1. CASE UNCHANGED vars
    BY <1>1 DEF vars, RunInv, RunTypeOK, Remembers, Found
<1>2. CASE Next
    BY <1>2, RequestStep, TaskStepInv, CancelStep, CommitCancelStep, RevokeStep, OtherStep,
       WorkingStep
    DEF Next
<1> QED
    BY <1>1, <1>2

(* Every variable keeps its type.                                          *)
THEOREM TypeCorrect == Spec => []RunTypeOK
<1>1. RunInv => RunTypeOK
    BY DEF RunInv
<1> QED
    BY <1>1, InitRunInv, NextRunInv, PTL DEF Spec
-----------------------------------------------------------------------------
LEMMA After ==
    ASSUME RunInv, NEW t \in Tasks, NEW e, ToStep(t, e)
    PROVE  exec'[t] = e /\ \A u \in Tasks \ {t} : exec'[u] = exec[u]
BY DEF ToStep, RunInv, RunTypeOK

(* Whoever loses the lock to a deletion is recorded, and keeps that.        *)
LEMMA HeldByTask ==
    ASSUME RunInv, HeldWhileIngesting, NEW t \in Tasks, TaskStep(t)
    PROVE  HeldWhileIngesting'
<1> USE DEF RunInv, RunTypeOK, HeldWhileIngesting
<1>1. /\ exec \in [Tasks -> Execution] /\ lock \in Tasks \cup {None} /\ None \notin Tasks
    BY RunAssumption
<1>2. CASE Take(t)
    <2> DEFINE e == [NoExec EXCEPT !.pc = "find"]
    <2>1. e.pc \notin {"start", "ingest"}
        BY DEF NoExec
    <2>2. exec' = exec \/ ToStep(t, e)
        BY <1>2 DEF Take
    <2> HIDE DEF e
    <2> QED
        BY <1>2, <2>1, <2>2, After DEF Take
<1>9. CASE FindJobRun(t)
    <2> DEFINE e == IF job[t] = "queued"
                 THEN [exec[t] EXCEPT !.pc = "activate", !.tracked = TRUE, !.saw = job[t]]
                 ELSE [exec[t] EXCEPT !.pc = "lock"]
    <2>1. e.pc \notin {"start", "ingest"}
        BY <1>1 DEF NoExec, Execution
    <2>2. ToStep(t, e)
        BY <1>9 DEF FindJobRun
    <2> HIDE DEF e
    <2> QED
        BY <1>9, <2>1, <2>2, After DEF FindJobRun
<1>10. CASE Activate(t)
    <2> DEFINE e == [exec[t] EXCEPT !.pc = "lock", !.saw = None]
    <2>1. e.pc \notin {"start", "ingest"}
        BY <1>1 DEF NoExec, Execution
    <2>2. ToStep(t, e)
        BY <1>10 DEF Activate
    <2> HIDE DEF e
    <2> QED
        BY <1>10, <2>1, <2>2, After DEF Activate
<1>11. CASE ReadJobRun(t)
    <2> DEFINE e == IF exec[t].tracked /\ job[t] # "canceled"
                 THEN [exec[t] EXCEPT !.pc = "write", !.saw = job[t]]
                 ELSE [exec[t] EXCEPT !.pc = "release"]
    <2>1. e.pc \notin {"start", "ingest"}
        BY <1>1 DEF NoExec, Execution
    <2>2. ToStep(t, e)
        BY <1>11 DEF ReadJobRun
    <2> HIDE DEF e
    <2> QED
        BY <1>11, <2>1, <2>2, After DEF ReadJobRun
<1>12. CASE CompleteJobRun(t)
    <2> DEFINE e == [exec[t] EXCEPT !.pc = "release", !.saw = None]
    <2>1. e.pc \notin {"start", "ingest"}
        BY <1>1 DEF NoExec, Execution
    <2>2. ToStep(t, e)
        BY <1>12 DEF CompleteJobRun
    <2> HIDE DEF e
    <2> QED
        BY <1>12, <2>1, <2>2, After DEF CompleteJobRun
<1>13. CASE Skip(t)
    <2>1. PICK pc \in {"complete", "release"} :
                ToStep(t, [exec[t] EXCEPT !.pc = pc, !.result = "skipped"])
        BY <1>13 DEF Skip
    <2> DEFINE e == [exec[t] EXCEPT !.pc = pc, !.result = "skipped"]
    <2>2. e.pc \notin {"start", "ingest"}
        BY <1>1 DEF Execution
    <2>3. ToStep(t, e)
        BY <2>1
    <2> HIDE DEF e
    <2> QED
        BY <1>13, <2>2, <2>3, After DEF Skip
<1>14. CASE RefuseIngestion(t)
    <2> DEFINE e == [exec[t] EXCEPT !.pc = "complete", !.result = "error"]
    <2>1. e.pc \notin {"start", "ingest"}
        BY <1>1 DEF Execution
    <2>2. ToStep(t, e)
        BY <1>14 DEF RefuseIngestion
    <2> HIDE DEF e
    <2> QED
        BY <1>14, <2>1, <2>2, After DEF RefuseIngestion
<1>15. CASE FailToFind(t)
    <2> DEFINE e == [NoExec EXCEPT !.pc = "lock"]
    <2>1. e.pc \notin {"start", "ingest"}
        BY DEF NoExec
    <2>2. ToStep(t, e)
        BY <1>15 DEF FailToFind
    <2> HIDE DEF e
    <2> QED
        BY <1>15, <2>1, <2>2, After DEF FailToFind
<1>16. CASE FailCompletion(t)
    <2>1. PICK e : ToStep(t, e) /\ e.pc \in {"complete", "release"}
        <3>1. /\ [[exec[t] EXCEPT !.saw = None] EXCEPT !.pc = "complete",
                                                       !.result = "error"].pc = "complete"
              /\ [[exec[t] EXCEPT !.saw = None] EXCEPT !.pc = "release"].pc = "release"
            BY <1>1 DEF Execution
        <3> QED
            BY <1>16, <3>1 DEF FailCompletion
    <2> QED
        BY <1>16, <2>1, After DEF FailCompletion
<1>3. CASE AcquireLock(t)
    BY <1>1, <1>3 DEF AcquireLock, Go, ToStep, Execution
<1>4. CASE FailLock(t)
    BY <1>1, <1>4 DEF FailLock, Go, ToStep, Execution
<1>5. CASE ForceRelease(t)
    BY <1>1, <1>5 DEF ForceRelease, TakeAwayOrFail, TakeAway, Go, ToStep, Execution
<1>6. CASE StartIngestion(t)
    BY <1>1, <1>6 DEF StartIngestion, Go, ToStep, Execution
<1>7. CASE EndIngestion(t)
    <2>1. PICK result \in {"success", "error"} :
                ToStep(t, [exec[t] EXCEPT !.pc = "complete", !.result = result])
        BY <1>7 DEF EndIngestion
    <2> DEFINE e == [exec[t] EXCEPT !.pc = "complete", !.result = result]
    <2>2. e.pc = "complete"
        BY <1>1 DEF Execution
    <2>3. ToStep(t, e)
        BY <2>1
    <2> HIDE DEF e
    <2> QED
        BY <1>7, <2>2, <2>3, After DEF EndIngestion
<1>8. CASE ReleaseLock(t)
    BY <1>1, <1>8 DEF ReleaseLock, ToStep, NoExec, Execution
<1> QED
    BY <1>2, <1>3, <1>4, <1>5, <1>6, <1>7, <1>8, <1>9, <1>10, <1>11, <1>12, <1>13, <1>14,
       <1>15, <1>16
    DEF TaskStep

LEMMA HeldByOthers ==
    ASSUME RunInv, HeldWhileIngesting, [Next]_vars, \A t \in Tasks : ~TaskStep(t)
    PROVE  HeldWhileIngesting'
<1> USE DEF RunInv, RunTypeOK
<1>1. \A u \in Tasks : exec'[u] \in {exec[u], NoExec}
    BY DEF Next, vars, Request, CreateRun, CommitRun, RollBackRun, Redeliver, Revoke, KillTask,
           ToStep, CancelScrapeRun, CancelJobRun, Cancel, DeleteLock, CommitCancel, ExpireLock,
           ToggleHold, ShutDown, LoseWorker, FailMarking, WorkerStep, MarkAtShutdown, Stop,
           ClearLocks, MarkStaleRuns, MarkStaleJobs
<1>2. UNCHANGED <<lock, lost>> \/ TakeAway
    BY DEF Next, vars, Request, CreateRun, CommitRun, RollBackRun, Redeliver, Revoke, KillTask,
           CancelScrapeRun, CancelJobRun, Cancel, DeleteLock, CommitCancel, ExpireLock,
           ToggleHold, ShutDown, LoseWorker, FailMarking, WorkerStep, MarkAtShutdown, Stop,
           ClearLocks, MarkStaleRuns, MarkStaleJobs, TakeAwayOrFail
<1> QED
    BY <1>1, <1>2, RunAssumption DEF TakeAway, HeldWhileIngesting, NoExec

(* An ingestion holds the lock of its league, or it was taken from it.      *)
THEOREM LockHeld == Spec => []HeldWhileIngesting
<1>1. Init => HeldWhileIngesting
    BY DEF Init, HeldWhileIngesting, NoExec
<1>2. RunInv /\ HeldWhileIngesting /\ [Next]_vars => HeldWhileIngesting'
    BY HeldByTask, HeldByOthers
<1> QED
    BY <1>1, <1>2, InitRunInv, NextRunInv, PTL DEF Spec
-----------------------------------------------------------------------------
(* A cancellation of a job run is lost only to who had read it before.      *)
Uncanceled(t) ==
    job[t] = "canceled" /\ job'[t] # "canceled" =>
      \/ exec[t].saw \notin {None, "canceled"} /\ exec'[t].saw = None
      \/ \E w \in Workers : t \in worker[w].jobs /\ t \notin worker'[w].jobs

LEMMA UncanceledByTask ==
    ASSUME RunInv, NEW t \in Tasks, TaskStep(t), NEW u \in Tasks
    PROVE  Uncanceled(u)
<1> USE DEF RunInv, RunTypeOK
<1>1. CASE Activate(t) \/ CompleteJobRun(t)
    <2>1. CASE u = t
        <3>1. exec'[t].saw = None
            <4> DEFINE e == [exec[t] EXCEPT !.pc = IF Activate(t) THEN "lock" ELSE "release",
                                            !.saw = None]
            <4>1. e.saw = None
                BY DEF Execution
            <4>2. ToStep(t, e)
                BY <1>1 DEF Activate, CompleteJobRun
            <4> HIDE DEF e
            <4> QED
                BY <4>1, <4>2, After
        <3>2. exec[t].saw \notin {None, "canceled"}
            BY <1>1, RunAssumption DEF Activate, CompleteJobRun, Remembers
        <3> QED
            BY <2>1, <3>1, <3>2 DEF Uncanceled
    <2>2. CASE u # t
        BY <1>1, <2>2 DEF Activate, CompleteJobRun, Uncanceled
    <2> QED
        BY <2>1, <2>2
<1>2. CASE UNCHANGED job
    BY <1>2 DEF Uncanceled
<1> QED
    BY <1>1, <1>2
    DEF TaskStep, Take, FindJobRun, FailToFind, AcquireLock, FailLock, ForceRelease,
        StartIngestion, RefuseIngestion, EndIngestion, Skip, ReadJobRun, FailCompletion,
        ReleaseLock

LEMMA UncanceledByWorker ==
    ASSUME RunInv, NEW w \in Workers, MarkAtShutdown(w) \/ MarkStaleJobs(w), NEW u \in Tasks
    PROVE  Uncanceled(u)
<1>1. \E pc \in {"draining", "up"} : worker' = [worker EXCEPT ![w] = At(pc)]
    BY DEF MarkAtShutdown, MarkStaleJobs, Become
<1>2. worker'[w].jobs = {}
    BY <1>1 DEF At, RunInv, RunTypeOK
<1> QED
    BY <1>2 DEF MarkAtShutdown, MarkStaleJobs, MarkJobs, Uncanceled, RunInv, RunTypeOK

LEMMA UncanceledByOthers ==
    ASSUME RunInv, [Next]_vars, \A t \in Tasks : ~TaskStep(t), NEW u \in Tasks
    PROVE  Uncanceled(u)
<1>1. CASE \E w \in Workers : MarkAtShutdown(w) \/ MarkStaleJobs(w)
    BY <1>1, UncanceledByWorker
<1>2. CASE \E t \in Tasks : CommitRun(t)
    <2>1. PICK t \in Tasks : CommitRun(t)
        BY <1>2
    <2>2. job[t] # "canceled"
        BY <2>1, RunAssumption DEF CommitRun, RunInv, Remembers, Ended
    <2> QED
        BY <2>1, <2>2 DEF CommitRun, Uncanceled, RunInv, RunTypeOK
<1>3. CASE CommitCancel
    BY <1>3 DEF CommitCancel, Uncanceled, RunInv, RunTypeOK
<1>4. CASE UNCHANGED job
    BY <1>4 DEF Uncanceled
<1> QED
    BY <1>1, <1>2, <1>3, <1>4
    DEF Next, vars, Request, CreateRun, RollBackRun, Redeliver, Revoke, KillTask, CancelScrapeRun,
        CancelJobRun, Cancel, DeleteLock, ExpireLock, ToggleHold, ShutDown, LoseWorker,
        FailMarking, WorkerStep, Stop, ClearLocks, MarkStaleRuns

(* A job run that was canceled stays so, but for a write by its id of a     *)
(* task or a worker that read it before the cancellation.                   *)
THEOREM CancellationStays == Spec => CanceledStays
<1>1. RunInv /\ [Next]_vars => \A t \in Tasks : Uncanceled(t)
    BY UncanceledByTask, UncanceledByOthers
<1>2. RunInv /\ [Next]_vars =>
        [\A t \in Tasks :
           job[t] = "canceled" /\ job'[t] # "canceled" =>
             \/ exec[t].saw \notin {None, "canceled"} /\ exec'[t].saw = None
             \/ \E w \in Workers : t \in worker[w].jobs /\ t \notin worker'[w].jobs]_vars
    BY <1>1 DEF Uncanceled
<1> QED
    BY <1>2, InitRunInv, NextRunInv, PTL DEF Spec, CanceledStays
=============================================================================

------------------------------- MODULE Power -------------------------------
(***************************************************************************)
(* Starting, stopping and restarting the game server.  The API             *)
(* (src/src/src/routes/console.rs, console/control.rs, console/audit.rs)   *)
(* has no access to Docker: it records the action, saves the world, drops  *)
(* a command file into a spool directory and later looks for a verdict.    *)
(* The mc-control sidecar (the shell loop in src/docker-compose.yml) polls *)
(* the directory, runs the command and writes the verdict.                 *)
(*                                                                         *)
(* The two processes share only files, either may be restarted between any *)
(* two steps, and the API's table of jobs does not survive a restart.      *)
(*                                                                         *)
(* An operator called Name_Variant is a wrong version of Name that the     *)
(* specification does not use.                                             *)
(***************************************************************************)
EXTENDS Naturals, FiniteSets

CONSTANTS
  Job,     \* ids of power actions, each handed out once
  NoJob,   \* not a job
  Verb     \* the power actions operators ask for

ASSUME PowerAssumption ==
  /\ NoJob \notin Job
  /\ Verb \subseteq {"start", "stop", "restart"}

(* PowerAction::saves_first                                                *)
SavesFirst(verb) == verb \in {"stop", "restart"}

Phase == {"saving", "queued", "done", "failed"}
IsFinal(phase) == phase \in {"done", "failed"}

VARIABLES
  verb,      \* what each job asks for, "none" before it is asked for
  route,     \* the route it came by: the console's, or one that only queues
  audit,     \* console_audit: outcome of the job's row, "none" without one
  jobs,      \* PowerJobs: the tracked jobs, "untracked" for the others
  worker,    \* the request handler and then the spawned task of each job
  saves,     \* how the job's save-all ended, "none" if it has not
  queue,     \* the .cmd files in the spool
  result,    \* the verdict files in the spool
  sidecar,   \* what the sidecar's loop is doing, and for which job
  runs,      \* how often docker was called for the job
  verdict,   \* what docker answered
  old        \* jobs posted more than JOB_RETENTION ago

vars == <<verb, route, audit, jobs, worker, saves, queue, result, sidecar, runs,
          verdict, old>>
api == <<verb, route, audit, jobs, worker, saves>>
docker == <<sidecar, runs, verdict>>

----------------------------------------------------------------------------
Untracked == [phase |-> "untracked", saveError |-> FALSE]
Tracked(j) == jobs[j].phase # "untracked"

WorkerPC == {"none", "open", "refused", "save", "request", "mark_queued",
             "mark_failed", "finish_ok", "finish_failed"}

TypeOK ==
  /\ verb \in [Job -> Verb \cup {"none"}]
  /\ route \in [Job -> {"none", "console", "direct"}]
  /\ audit \in [Job -> {"none", "pending", "ok", "ok_unsaved", "failed"}]
  /\ jobs \in [Job -> [phase: Phase \cup {"untracked"}, saveError: BOOLEAN]]
  /\ worker \in [Job -> WorkerPC]
  /\ saves \in [Job -> {"none", "ok", "failed"}]
  /\ queue \subseteq Job
  /\ result \in [Job -> {"none", "ok", "failed"}]
  /\ sidecar \in [pc: {"down", "idle", "run", "report"}, job: Job \cup {NoJob}]
  /\ runs \in [Job -> Nat]
  /\ verdict \in [Job -> {"none", "ok", "failed"}]
  /\ old \subseteq Job

Init ==
  /\ verb = [j \in Job |-> "none"]
  /\ route = [j \in Job |-> "none"]
  /\ audit = [j \in Job |-> "none"]
  /\ jobs = [j \in Job |-> Untracked]
  /\ worker = [j \in Job |-> "none"]
  /\ saves = [j \in Job |-> "none"]
  /\ queue = {}
  /\ result = [j \in Job |-> "none"]
  /\ sidecar = [pc |-> "idle", job |-> NoJob]
  /\ runs = [j \in Job |-> 0]
  /\ verdict = [j \in Job |-> "none"]
  /\ old = {}

----------------------------------------------------------------------------
(* POST /api/admin/console/power/{action}: audit_or_refuse.  The action is *)
(* refused when its record cannot be written.                              *)
Post_Unrecorded(j) ==
  /\ verb[j] = "none"
  /\ \E v \in Verb, recorded \in BOOLEAN :
       /\ verb' = [verb EXCEPT ![j] = v]
       /\ route' = [route EXCEPT ![j] = "console"]
       /\ audit' = [audit EXCEPT ![j] = IF recorded THEN "pending" ELSE "none"]
       /\ worker' = [worker EXCEPT ![j] = "open"]
  /\ UNCHANGED <<jobs, saves, queue, result, docker, old>>

Post(j) ==
  /\ verb[j] = "none"
  /\ \E v \in Verb :
       /\ verb' = [verb EXCEPT ![j] = v]
       /\ route' = [route EXCEPT ![j] = "console"]
       /\ \/ /\ audit' = [audit EXCEPT ![j] = "pending"]
             /\ worker' = [worker EXCEPT ![j] = "open"]
          \/ /\ worker' = [worker EXCEPT ![j] = "refused"]
             /\ UNCHANGED audit
  /\ UNCHANGED <<jobs, saves, queue, result, docker, old>>

(* PowerJobs::open drops the jobs past their retention, inserts this one,  *)
(* and the handler spawns run_power_action and answers 202.                *)
Open(j) ==
  LET first == SavesFirst(verb[j]) IN
  /\ worker[j] = "open"
  /\ jobs' = [i \in Job |->
       IF i = j THEN [phase |-> IF first THEN "saving" ELSE "queued",
                      saveError |-> FALSE]
       ELSE IF i \in old THEN Untracked ELSE jobs[i]]
  /\ worker' = [worker EXCEPT ![j] = IF first THEN "save" ELSE "request"]
  /\ UNCHANGED <<verb, route, audit, saves, queue, result, docker, old>>

(* PowerJobs::update ignores a job that is no longer tracked.              *)
Update(j, entry) == jobs' = [jobs EXCEPT ![j] = IF Tracked(j) THEN entry ELSE @]

(* flush_saves: the reply to "save-all flush" only comes once everything   *)
(* is written.  A failure or timeout is noted, and does not stop the       *)
(* action.                                                                 *)
Save(j) ==
  /\ worker[j] = "save"
  /\ \/ /\ saves' = [saves EXCEPT ![j] = "ok"]
        /\ UNCHANGED jobs
     \/ /\ saves' = [saves EXCEPT ![j] = "failed"]
        /\ Update(j, [jobs[j] EXCEPT !.saveError = TRUE])
  /\ worker' = [worker EXCEPT ![j] = "request"]
  /\ UNCHANGED <<verb, route, audit, queue, result, docker, old>>

(* control::request: a rename publishes the complete command file.         *)
Request(j) ==
  /\ worker[j] = "request"
  /\ \/ /\ queue' = queue \cup {j}
        /\ worker' = [worker EXCEPT ![j] = "mark_queued"]
     \/ /\ worker' = [worker EXCEPT ![j] = "mark_failed"]
        /\ UNCHANGED queue
  /\ UNCHANGED <<verb, route, audit, jobs, saves, result, docker, old>>

Mark_OnlyFailures(j) ==
  /\ worker[j] \in {"mark_queued", "mark_failed"}
  /\ IF worker[j] = "mark_queued"
       THEN /\ worker' = [worker EXCEPT ![j] = "finish_ok"]
            /\ UNCHANGED jobs
       ELSE /\ worker' = [worker EXCEPT ![j] = "finish_failed"]
            /\ Update(j, [jobs[j] EXCEPT !.phase = "failed"])
  /\ UNCHANGED <<verb, route, audit, saves, queue, result, docker, old>>

(* The task resumes after the rename and updates the tracked job.          *)
Mark(j) ==
  \/ /\ worker[j] = "mark_queued"
     /\ Update(j, [jobs[j] EXCEPT !.phase = "queued"])
     /\ worker' = [worker EXCEPT ![j] = "finish_ok"]
     /\ UNCHANGED <<verb, route, audit, saves, queue, result, docker, old>>
  \/ /\ worker[j] = "mark_failed"
     /\ Update(j, [jobs[j] EXCEPT !.phase = "failed"])
     /\ worker' = [worker EXCEPT ![j] = "finish_failed"]
     /\ UNCHANGED <<verb, route, audit, saves, queue, result, docker, old>>

(* What the audit row says when the command file was queued.               *)
AuditOfQueued_NoNote(j) == "ok"

AuditOfQueued(j) == IF saves[j] = "failed" THEN "ok_unsaved" ELSE "ok"

(* audit::finish: a row that cannot be updated stays pending.              *)
Finish(j) ==
  /\ worker[j] \in {"finish_ok", "finish_failed"}
  /\ \/ audit' = [audit EXCEPT ![j] =
          IF worker[j] = "finish_ok" THEN AuditOfQueued(j) ELSE "failed"]
     \/ UNCHANGED audit
  /\ worker' = [worker EXCEPT ![j] = "none"]
  /\ UNCHANGED <<verb, route, jobs, saves, queue, result, docker, old>>

(* GET /api/admin/console/power/result/{job}: once the job is queued, the  *)
(* verdict decides.  Nothing a verdict depends on changes while the file   *)
(* is read, so the handler is one step; a handler that changes nothing is  *)
(* left out.                                                               *)
Settled_IgnoresCode(j) == "done"

Settled(j) == IF result[j] = "ok" THEN "done" ELSE "failed"

PowerResult(j) ==
  /\ jobs[j].phase = "queued"
  /\ result[j] # "none"
  /\ Update(j, [jobs[j] EXCEPT !.phase = Settled(j)])
  /\ UNCHANGED <<verb, route, audit, worker, saves, queue, result, docker, old>>

(* POST /api/v1/restart, /api/v1/startserver and /startserver queue their  *)
(* command and nothing else: no row in the audit, no tracked job, no save. *)
Direct(j) ==
  /\ verb[j] = "none"
  /\ \E v \in Verb \ {"stop"} : verb' = [verb EXCEPT ![j] = v]
  /\ route' = [route EXCEPT ![j] = "direct"]
  /\ queue' = queue \cup {j}
  /\ UNCHANGED <<audit, jobs, worker, saves, result, docker, old>>

(* The API process is restarted: its table and its tasks are gone.         *)
ApiRestart ==
  /\ \E j \in Job : Tracked(j) \/ worker[j] # "none"
  /\ jobs' = [j \in Job |-> Untracked]
  /\ worker' = [j \in Job |-> "none"]
  /\ UNCHANGED <<verb, route, audit, saves, queue, result, docker, old>>

----------------------------------------------------------------------------
(* The sidecar reads a command file and removes it, before it acts on it.  *)
(* File names are random, so the order of the files is arbitrary.          *)
SidecarTake_KeepsFile(j) ==
  /\ sidecar.pc = "idle"
  /\ j \in queue
  /\ sidecar' = [pc |-> "run", job |-> j]
  /\ UNCHANGED <<api, queue, result, runs, verdict, old>>

SidecarTake(j) ==
  /\ sidecar.pc = "idle"
  /\ j \in queue
  /\ queue' = queue \ {j}
  /\ sidecar' = [pc |-> "run", job |-> j]
  /\ UNCHANGED <<api, result, runs, verdict, old>>

(* docker start, stop -t 180 or restart -t 180, which may fail.            *)
SidecarRun ==
  /\ sidecar.pc = "run"
  /\ sidecar' = [sidecar EXCEPT !.pc = "report"]
  /\ runs' = [runs EXCEPT ![sidecar.job] = @ + 1]
  /\ \E answer \in {"ok", "failed"} :
       verdict' = [verdict EXCEPT ![sidecar.job] = answer]
  /\ UNCHANGED <<api, queue, result, old>>

(* The verdict is staged and renamed, so it is never seen half written.    *)
SidecarReport ==
  /\ sidecar.pc = "report"
  /\ result' = [result EXCEPT ![sidecar.job] = verdict[sidecar.job]]
  /\ sidecar' = [pc |-> "idle", job |-> NoJob]
  /\ UNCHANGED <<api, queue, runs, verdict, old>>

(* The sidecar's second loop deletes verdicts older than an hour; their    *)
(* jobs are then past the retention of half an hour.                       *)
SidecarExpire(j) ==
  /\ sidecar.pc # "down"
  /\ j \in old
  /\ result[j] # "none"
  /\ result' = [result EXCEPT ![j] = "none"]
  /\ UNCHANGED <<api, queue, docker, old>>

SidecarCrash ==
  /\ sidecar.pc # "down"
  /\ sidecar' = [pc |-> "down", job |-> NoJob]
  /\ UNCHANGED <<api, queue, result, runs, verdict, old>>

(* restart: unless-stopped                                                 *)
SidecarStart ==
  /\ sidecar.pc = "down"
  /\ sidecar' = [pc |-> "idle", job |-> NoJob]
  /\ UNCHANGED <<api, queue, result, runs, verdict, old>>

----------------------------------------------------------------------------
(* Half an hour passes since the job was opened; only a tracked job and a  *)
(* verdict can tell.                                                       *)
Age(j) ==
  /\ Tracked(j) \/ result[j] # "none"
  /\ old' = old \cup {j}
  /\ UNCHANGED <<api, queue, result, docker>>

ApiStep(j) == Open(j) \/ Save(j) \/ Request(j) \/ Mark(j) \/ Finish(j)

SidecarStep == (\E j \in Job : SidecarTake(j)) \/ SidecarRun \/ SidecarReport

Next ==
  \/ \E j \in Job : \/ Post(j) \/ Direct(j) \/ ApiStep(j) \/ PowerResult(j)
                    \/ SidecarExpire(j) \/ Age(j)
  \/ ApiRestart
  \/ SidecarStep \/ SidecarCrash \/ SidecarStart

Spec == Init /\ [][Next]_vars

(* A task that can run is run; the console page asks for the verdict until *)
(* it has one; the sidecar is restarted whenever it stops, and is not      *)
(* stopped each time it looks at the queue.                                *)
Fairness ==
  /\ \A j \in Job : WF_vars(ApiStep(j)) /\ WF_vars(PowerResult(j))
  /\ WF_vars(SidecarStart)
  /\ SF_vars(SidecarStep)

FairSpec == Spec /\ Fairness

----------------------------------------------------------------------------
(* No command of the console reaches the sidecar or docker without a row   *)
(* saying who asked for it, whatever failed or was restarted               *)
(* (audit_or_refuse, audit::begin).                                        *)
Attributed ==
  \A j \in Job : route[j] = "console" =>
    (j \in queue \/ sidecar.job = j \/ runs[j] > 0 => audit[j] # "none")

(* The console queues a stop or restart only once its save has ended, and  *)
(* when the save was not confirmed both the tracked job and the finished   *)
(* audit row say so (flush_saves, run_power_action).                       *)
SavedOrAdmitted ==
  \A j \in Job : route[j] = "console" /\ SavesFirst(verb[j]) =>
    /\ j \in queue \/ runs[j] > 0 => saves[j] # "none"
    /\ audit[j] = "ok" => saves[j] = "ok"
    /\ Tracked(j) /\ saves[j] = "failed" => jobs[j].saveError

(* Docker is called at most once for a job, although the sidecar may be    *)
(* restarted between any two steps and finds its queue as it left it.      *)
RunsAtMostOnce == \A j \in Job : runs[j] <= 1

(* A job shown as done is one docker carried out, and a job shown as       *)
(* failed is one docker refused or never saw (power_result).               *)
HonestPhase ==
  \A j \in Job :
    /\ jobs[j].phase = "done" => verdict[j] = "ok"
    /\ jobs[j].phase = "failed" => verdict[j] # "ok" /\ j \notin queue

(* The verdict on a job cannot come any more: its task is over, its        *)
(* command has been taken, and no file says how it went.                   *)
VerdictLost(j) ==
  /\ worker[j] = "none"
  /\ j \notin queue
  /\ sidecar.job # j
  /\ result[j] = "none"

(* The page that asks about a job is eventually told how it ended, unless  *)
(* the API or the sidecar was restarted over it or the verdict expired.    *)
JobsSettle ==
  \A j \in Job :
    Tracked(j) /\ ~IsFinal(jobs[j].phase)
      ~> ~Tracked(j) \/ IsFinal(jobs[j].phase) \/ VerdictLost(j)

=============================================================================

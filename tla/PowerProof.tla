----------------------------- MODULE PowerProof -----------------------------
(***************************************************************************)
(* Theorems about Power for every set of jobs.  One inductive invariant    *)
(* follows a job along its path, from the request to the verdict.          *)
(***************************************************************************)
EXTENDS Power, TLAPS

(* The job has not reached the spool.                                      *)
Unsent(j) ==
  /\ j \notin queue
  /\ sidecar.job # j
  /\ runs[j] = 0
  /\ verdict[j] = "none"
  /\ result[j] = "none"

(* Where a job may be while the API still works on it.                     *)
UnsentFirst ==
  \A j \in Job :
    verb[j] = "none" \/ worker[j] \in {"refused", "open", "save", "request",
                                       "mark_failed", "finish_failed"}
      => Unsent(j)

Recorded ==
  \A j \in Job :
    /\ worker[j] \notin {"none", "refused"} => audit[j] = "pending"
    /\ worker[j] # "none" \/ audit[j] # "none" => verb[j] # "none"
    /\ Tracked(j) => verb[j] # "none"

(* A command is in one place at a time, and gone once it has run.          *)
Places ==
  /\ \A j \in Job :
       /\ j \in queue => sidecar.job # j /\ runs[j] = 0
       /\ verdict[j] # "none" => runs[j] = 1
       /\ result[j] # "none" => result[j] = verdict[j]
  /\ sidecar.pc \in {"down", "idle"} => sidecar.job = NoJob
  /\ sidecar.pc \in {"run", "report"} => sidecar.job \in Job
  /\ sidecar.pc = "run" => runs[sidecar.job] = 0
  /\ sidecar.pc = "report" => verdict[sidecar.job] # "none"

PhaseKnown ==
  \A j \in Job :
    /\ jobs[j].phase = "done" => verdict[j] = "ok"
    /\ jobs[j].phase = "failed" =>
         \/ verdict[j] = "failed"
         \/ Unsent(j) /\ worker[j] \in {"finish_failed", "none"}

SaveKnown ==
  \A j \in Job :
    /\ verb[j] = "none" \/ worker[j] \in {"open", "save"} => saves[j] = "none"
    /\ route[j] = "console" /\ SavesFirst(verb[j]) =>
         /\ worker[j] \in {"request", "mark_queued", "mark_failed",
                           "finish_ok", "finish_failed"} => saves[j] # "none"
         /\ sidecar.job = j => saves[j] # "none"

IInv ==
  /\ TypeOK
  /\ UnsentFirst
  /\ Recorded
  /\ Places
  /\ PhaseKnown
  /\ SaveKnown
  /\ Attributed
  /\ SavedOrAdmitted
  /\ RunsAtMostOnce

----------------------------------------------------------------------------
(* What a tracked job is, and that updating one leaves all of them tracked *)
(* jobs.                                                                   *)
Entry == [phase: Phase \cup {"untracked"}, saveError: BOOLEAN]

LEMMA EntryType ==
  ASSUME TypeOK, NEW j \in Job, NEW p \in Phase
  PROVE  /\ [jobs[j] EXCEPT !.phase = p] \in Entry
         /\ [jobs[j] EXCEPT !.saveError = TRUE] \in Entry
<1>1. jobs[j] \in Entry
  BY DEF TypeOK, Entry
<1> QED BY <1>1 DEF Entry

LEMMA UpdateType ==
  ASSUME TypeOK, NEW j \in Job,
         \/ jobs' = jobs
         \/ \E entry \in Entry : Update(j, entry)
  PROVE  jobs' \in [Job -> Entry]
  BY DEF TypeOK, Update, Entry

----------------------------------------------------------------------------
LEMMA InitInvariant == Init => IInv
  BY PowerAssumption DEF Init, IInv, TypeOK, UnsentFirst, Unsent,
     Recorded, Places, PhaseKnown, SaveKnown, Attributed, SavedOrAdmitted,
     RunsAtMostOnce, Tracked, Untracked, Phase, WorkerPC

(* Post keeps the invariant. *)
LEMMA PostInvariant ==
  ASSUME IInv, NEW j \in Job, Post(j)
  PROVE  IInv'
<1>1. TypeOK'
  <2>1. verb' \in [Job -> Verb \cup {"none"}]
    BY DEF IInv, TypeOK, Post
  <2>2. audit' \in [Job -> {"none", "pending", "ok", "ok_unsaved", "failed"}]
    BY DEF IInv, TypeOK, Post
  <2>3. worker' \in [Job -> WorkerPC]
    BY DEF IInv, TypeOK, Post, WorkerPC
  <2>4. route' \in [Job -> {"none", "console", "direct"}]
    BY DEF IInv, TypeOK, Post
  <2> QED BY <2>1, <2>2, <2>3, <2>4 DEF IInv, TypeOK, Post, docker
<1>2. UnsentFirst'
  BY PowerAssumption DEF IInv, TypeOK, Post, docker, UnsentFirst, Unsent,
     Recorded, Places
<1>3. Recorded'
  BY PowerAssumption DEF IInv, TypeOK, Post, docker, Recorded, Tracked,
     UnsentFirst
<1>4. Places'
  BY PowerAssumption DEF IInv, TypeOK, Post, docker, Places, UnsentFirst,
     Unsent, Recorded
<1>5. PhaseKnown'
  BY PowerAssumption DEF IInv, TypeOK, Post, docker, PhaseKnown, Tracked,
     UnsentFirst, Unsent, Recorded, Places, Phase
<1>6. SaveKnown'
  BY PowerAssumption DEF IInv, TypeOK, Post, docker, SaveKnown,
     SavesFirst, SavedOrAdmitted, Recorded, UnsentFirst, Unsent
<1>7. Attributed'
  BY PowerAssumption DEF IInv, TypeOK, Post, docker, Attributed, Recorded,
     Places, UnsentFirst, Unsent
<1>8. SavedOrAdmitted'
  BY PowerAssumption DEF IInv, TypeOK, Post, docker, SavedOrAdmitted,
     SaveKnown, Tracked, SavesFirst, UnsentFirst, Unsent, Recorded
<1>9. RunsAtMostOnce'
  BY PowerAssumption DEF IInv, TypeOK, Post, docker, RunsAtMostOnce,
     Places
<1> QED BY <1>1, <1>2, <1>3, <1>4, <1>5, <1>6, <1>7, <1>8, <1>9 DEF IInv

(* Direct keeps the invariant. *)
LEMMA DirectInvariant ==
  ASSUME IInv, NEW j \in Job, Direct(j)
  PROVE  IInv'
<1>1. TypeOK'
  BY PowerAssumption DEF IInv, TypeOK, Direct, docker,
     Phase, WorkerPC
<1>2. UnsentFirst'
  BY PowerAssumption DEF IInv, TypeOK, Direct, docker,
     UnsentFirst, Unsent, Recorded, Places
<1>3. Recorded'
  BY PowerAssumption DEF IInv, TypeOK, Direct, docker,
     Recorded, Tracked, UnsentFirst
<1>4. Places'
  BY PowerAssumption DEF IInv, TypeOK, Direct, docker,
     Places, UnsentFirst, Unsent, Recorded
<1>5. PhaseKnown'
  BY PowerAssumption DEF IInv, TypeOK, Direct, docker,
     PhaseKnown, Tracked, UnsentFirst, Unsent, Recorded, Places, Phase
<1>6. SaveKnown'
  BY PowerAssumption DEF IInv, TypeOK, Direct, docker,
     SaveKnown, SavesFirst, SavedOrAdmitted, Recorded, UnsentFirst, Unsent
<1>7. Attributed'
  BY PowerAssumption DEF IInv, TypeOK, Direct, docker,
     Attributed, Recorded, Places
<1>8. SavedOrAdmitted'
  BY PowerAssumption DEF IInv, TypeOK, Direct, docker,
     SavedOrAdmitted, SaveKnown, Tracked, SavesFirst, UnsentFirst, Unsent,
     Recorded
<1>9. RunsAtMostOnce'
  BY PowerAssumption DEF IInv, TypeOK, Direct, docker,
     RunsAtMostOnce, Places
<1> QED BY <1>1, <1>2, <1>3, <1>4, <1>5, <1>6, <1>7, <1>8, <1>9 DEF IInv

(* Open keeps the invariant. *)
LEMMA OpenInvariant ==
  ASSUME IInv, NEW j \in Job, Open(j)
  PROVE  IInv'
<1>1. TypeOK'
  BY PowerAssumption DEF IInv, TypeOK, Open, docker, Untracked, Tracked,
     Phase, WorkerPC
<1>2. UnsentFirst'
  BY PowerAssumption DEF IInv, TypeOK, Open, docker, Untracked, Tracked,
     UnsentFirst, Unsent, Recorded, Places
<1>3. Recorded'
  BY PowerAssumption DEF IInv, TypeOK, Open, docker, Untracked, Tracked,
     Recorded, UnsentFirst
<1>4. Places'
  BY PowerAssumption DEF IInv, TypeOK, Open, docker, Untracked, Tracked,
     Places, UnsentFirst, Unsent, Recorded
<1>5. PhaseKnown'
  BY PowerAssumption DEF IInv, TypeOK, Open, docker, Untracked, Tracked,
     PhaseKnown, UnsentFirst, Unsent, Recorded, Places, Phase
<1>6. SaveKnown'
  BY PowerAssumption DEF IInv, TypeOK, Open, docker, Untracked, Tracked,
     SaveKnown, SavesFirst, SavedOrAdmitted, Recorded, UnsentFirst, Unsent
<1>7. Attributed'
  BY PowerAssumption DEF IInv, TypeOK, Open, docker, Untracked, Tracked,
     Attributed, Recorded, Places
<1>8. SavedOrAdmitted'
  BY PowerAssumption DEF IInv, TypeOK, Open, docker, Untracked, Tracked,
     SavedOrAdmitted, SaveKnown, SavesFirst, UnsentFirst, Unsent, Recorded
<1>9. RunsAtMostOnce'
  BY PowerAssumption DEF IInv, TypeOK, Open, docker, Untracked, Tracked,
     RunsAtMostOnce, Places
<1> QED BY <1>1, <1>2, <1>3, <1>4, <1>5, <1>6, <1>7, <1>8, <1>9 DEF IInv

(* Save keeps the invariant. *)
LEMMA SaveInvariant ==
  ASSUME IInv, NEW j \in Job, Save(j)
  PROVE  IInv'
<1>1. TypeOK'
  <2>1. saves' \in [Job -> {"none", "ok", "failed"}]
    BY DEF IInv, TypeOK, Save
  <2>2. worker' \in [Job -> WorkerPC]
    BY DEF IInv, TypeOK, Save, WorkerPC
  <2>3. jobs' \in [Job -> Entry]
    BY UpdateType, EntryType DEF IInv, TypeOK, Save, Phase
  <2> QED BY <2>1, <2>2, <2>3 DEF IInv, TypeOK, Save, docker, Entry
<1>2. UnsentFirst'
  BY PowerAssumption DEF IInv, TypeOK, Save, docker, Update, Tracked,
     UnsentFirst, Unsent, Recorded, Places
<1>3. Recorded'
  BY PowerAssumption DEF IInv, TypeOK, Save, docker, Update, Tracked,
     Recorded, UnsentFirst
<1>4. Places'
  BY PowerAssumption DEF IInv, TypeOK, Save, docker, Update, Tracked,
     Places, UnsentFirst, Unsent, Recorded
<1>5. PhaseKnown'
  BY PowerAssumption DEF IInv, TypeOK, Save, docker, Update, Tracked,
     PhaseKnown, UnsentFirst, Unsent, Recorded, Places, Phase
<1>6. SaveKnown'
  BY PowerAssumption DEF IInv, TypeOK, Save, docker, Update, Tracked,
     SaveKnown, SavesFirst, SavedOrAdmitted, Recorded, UnsentFirst, Unsent
<1>7. Attributed'
  BY PowerAssumption DEF IInv, TypeOK, Save, docker, Update, Tracked,
     Attributed, Recorded, Places
<1>8. SavedOrAdmitted'
  BY PowerAssumption DEF IInv, TypeOK, Save, docker, Update, Tracked,
     SavedOrAdmitted, SaveKnown, SavesFirst, UnsentFirst, Unsent, Recorded
<1>9. RunsAtMostOnce'
  BY PowerAssumption DEF IInv, TypeOK, Save, docker, Update, Tracked,
     RunsAtMostOnce, Places
<1> QED BY <1>1, <1>2, <1>3, <1>4, <1>5, <1>6, <1>7, <1>8, <1>9 DEF IInv

(* Request keeps the invariant. *)
LEMMA RequestInvariant ==
  ASSUME IInv, NEW j \in Job, Request(j)
  PROVE  IInv'
<1>1. TypeOK'
  <2>1. worker' \in [Job -> WorkerPC]
    BY DEF IInv, TypeOK, Request, WorkerPC
  <2>2. queue' \subseteq Job
    BY DEF IInv, TypeOK, Request
  <2> QED BY <2>1, <2>2 DEF IInv, TypeOK, Request, docker
<1>2. UnsentFirst'
  BY PowerAssumption DEF IInv, TypeOK, Request, docker, UnsentFirst,
     Unsent, Recorded, Places
<1>3. Recorded'
  BY PowerAssumption DEF IInv, TypeOK, Request, docker, Recorded, Tracked,
     UnsentFirst
<1>4. Places'
  BY PowerAssumption DEF IInv, TypeOK, Request, docker, Places,
     UnsentFirst, Unsent, Recorded
<1>5. PhaseKnown'
  BY PowerAssumption DEF IInv, TypeOK, Request, docker, PhaseKnown,
     Tracked, UnsentFirst, Unsent, Recorded, Places, Phase
<1>6. SaveKnown'
  BY PowerAssumption DEF IInv, TypeOK, Request, docker, SaveKnown,
     SavesFirst, SavedOrAdmitted, Recorded, UnsentFirst, Unsent
<1>7. Attributed'
  BY PowerAssumption DEF IInv, TypeOK, Request, docker, Attributed,
     Recorded, Places
<1>8. SavedOrAdmitted'
  BY PowerAssumption DEF IInv, TypeOK, Request, docker, SavedOrAdmitted,
     SaveKnown, Tracked, SavesFirst, UnsentFirst, Unsent, Recorded
<1>9. RunsAtMostOnce'
  BY PowerAssumption DEF IInv, TypeOK, Request, docker, RunsAtMostOnce,
     Places
<1> QED BY <1>1, <1>2, <1>3, <1>4, <1>5, <1>6, <1>7, <1>8, <1>9 DEF IInv

(* Mark keeps the invariant. *)
LEMMA MarkInvariant ==
  ASSUME IInv, NEW j \in Job, Mark(j)
  PROVE  IInv'
<1>1. TypeOK'
  <2>1. worker' \in [Job -> WorkerPC]
    BY DEF IInv, TypeOK, Mark, WorkerPC
  <2>2. jobs' \in [Job -> Entry]
    BY UpdateType, EntryType DEF IInv, TypeOK, Mark, Phase
  <2> QED BY <2>1, <2>2 DEF IInv, TypeOK, Mark, docker, Entry
<1>2. UnsentFirst'
  BY PowerAssumption DEF IInv, TypeOK, Mark, docker, Update, Tracked,
     UnsentFirst, Unsent, Recorded, Places
<1>3. Recorded'
  BY PowerAssumption DEF IInv, TypeOK, Mark, docker, Update, Tracked,
     Recorded, UnsentFirst
<1>4. Places'
  BY PowerAssumption DEF IInv, TypeOK, Mark, docker, Update, Tracked,
     Places, UnsentFirst, Unsent, Recorded
<1>5. PhaseKnown'
  <2>1. CASE worker[j] = "mark_queued"
    <3>1. \A i \in Job \ {j} : jobs'[i] = jobs[i] /\ worker'[i] = worker[i]
      BY DEF IInv, TypeOK, Mark, Update
    <3>2. jobs'[j].phase \notin {"done", "failed"}
      BY <2>1 DEF IInv, TypeOK, Mark, Update, Tracked
    <3> QED BY <3>1, <3>2 DEF IInv, PhaseKnown, Unsent, Mark, docker
  <2>2. CASE worker[j] = "mark_failed"
    <3>1. \A i \in Job \ {j} : jobs'[i] = jobs[i] /\ worker'[i] = worker[i]
      BY DEF IInv, TypeOK, Mark, Update
    <3>2. jobs'[j].phase # "done" /\ worker'[j] = "finish_failed"
      BY <2>2 DEF IInv, TypeOK, Mark, Update, Tracked
    <3>3. Unsent(j)
      BY <2>2 DEF IInv, UnsentFirst
    <3> QED BY <3>1, <3>2, <3>3 DEF IInv, PhaseKnown, Unsent, Mark, docker
  <2> QED BY <2>1, <2>2 DEF Mark
<1>6. SaveKnown'
  BY PowerAssumption DEF IInv, TypeOK, Mark, docker, Update, Tracked,
     SaveKnown, SavesFirst, SavedOrAdmitted, Recorded, UnsentFirst, Unsent
<1>7. Attributed'
  BY PowerAssumption DEF IInv, TypeOK, Mark, docker, Update, Tracked,
     Attributed, Recorded, Places
<1>8. SavedOrAdmitted'
  BY PowerAssumption DEF IInv, TypeOK, Mark, docker, Update, Tracked,
     SavedOrAdmitted, SaveKnown, SavesFirst, UnsentFirst, Unsent, Recorded
<1>9. RunsAtMostOnce'
  BY PowerAssumption DEF IInv, TypeOK, Mark, docker, Update, Tracked,
     RunsAtMostOnce, Places
<1> QED BY <1>1, <1>2, <1>3, <1>4, <1>5, <1>6, <1>7, <1>8, <1>9 DEF IInv

(* Finish keeps the invariant. *)
LEMMA FinishInvariant ==
  ASSUME IInv, NEW j \in Job, Finish(j)
  PROVE  IInv'
<1>1. TypeOK'
  BY PowerAssumption DEF IInv, TypeOK, Finish, docker, AuditOfQueued,
     Phase, WorkerPC
<1>2. UnsentFirst'
  BY PowerAssumption DEF IInv, TypeOK, Finish, docker, AuditOfQueued,
     UnsentFirst, Unsent, Recorded, Places
<1>3. Recorded'
  BY PowerAssumption DEF IInv, TypeOK, Finish, docker, AuditOfQueued,
     Recorded, Tracked, UnsentFirst
<1>4. Places'
  BY PowerAssumption DEF IInv, TypeOK, Finish, docker, AuditOfQueued,
     Places, UnsentFirst, Unsent, Recorded
<1>5. PhaseKnown'
  BY PowerAssumption DEF IInv, TypeOK, Finish, docker, AuditOfQueued,
     PhaseKnown, Tracked, UnsentFirst, Unsent, Recorded, Places, Phase
<1>6. SaveKnown'
  BY PowerAssumption DEF IInv, TypeOK, Finish, docker, AuditOfQueued,
     SaveKnown, SavesFirst, SavedOrAdmitted, Recorded, UnsentFirst, Unsent
<1>7. Attributed'
  BY PowerAssumption DEF IInv, TypeOK, Finish, docker, AuditOfQueued,
     Attributed, Recorded, Places
<1>8. SavedOrAdmitted'
  BY PowerAssumption DEF IInv, TypeOK, Finish, docker, AuditOfQueued,
     SavedOrAdmitted, SaveKnown, Tracked, SavesFirst, UnsentFirst, Unsent,
     Recorded
<1>9. RunsAtMostOnce'
  BY PowerAssumption DEF IInv, TypeOK, Finish, docker, AuditOfQueued,
     RunsAtMostOnce, Places
<1> QED BY <1>1, <1>2, <1>3, <1>4, <1>5, <1>6, <1>7, <1>8, <1>9 DEF IInv

(* PowerResult keeps the invariant. *)
LEMMA PowerResultInvariant ==
  ASSUME IInv, NEW j \in Job, PowerResult(j)
  PROVE  IInv'
<1>1. TypeOK'
  <2>1. jobs' \in [Job -> Entry]
    BY UpdateType, EntryType DEF IInv, TypeOK, PowerResult, Settled, Phase
  <2> QED BY <2>1 DEF IInv, TypeOK, PowerResult, docker, Entry
<1>2. UnsentFirst'
  BY PowerAssumption DEF IInv, TypeOK, PowerResult, docker, Update,
     Tracked, Settled, UnsentFirst, Unsent, Recorded, Places
<1>3. Recorded'
  BY PowerAssumption DEF IInv, TypeOK, PowerResult, docker, Update,
     Tracked, Settled, Recorded, UnsentFirst
<1>4. Places'
  BY PowerAssumption DEF IInv, TypeOK, PowerResult, docker, Update,
     Tracked, Settled, Places, UnsentFirst, Unsent, Recorded
<1>5. PhaseKnown'
  BY PowerAssumption DEF IInv, TypeOK, PowerResult, docker, Update,
     Tracked, Settled, PhaseKnown, UnsentFirst, Unsent, Recorded, Places,
     Phase
<1>6. SaveKnown'
  BY PowerAssumption DEF IInv, TypeOK, PowerResult, docker, Update,
     Tracked, Settled, SaveKnown, SavesFirst, SavedOrAdmitted, Recorded,
     UnsentFirst, Unsent
<1>7. Attributed'
  BY PowerAssumption DEF IInv, TypeOK, PowerResult, docker, Update,
     Tracked, Settled, Attributed, Recorded, Places
<1>8. SavedOrAdmitted'
  BY PowerAssumption DEF IInv, TypeOK, PowerResult, docker, Update,
     Tracked, Settled, SavedOrAdmitted, SaveKnown, SavesFirst,
     UnsentFirst, Unsent, Recorded
<1>9. RunsAtMostOnce'
  BY PowerAssumption DEF IInv, TypeOK, PowerResult, docker, Update,
     Tracked, Settled, RunsAtMostOnce, Places
<1> QED BY <1>1, <1>2, <1>3, <1>4, <1>5, <1>6, <1>7, <1>8, <1>9 DEF IInv

(* SidecarTake keeps the invariant. *)
LEMMA SidecarTakeInvariant ==
  ASSUME IInv, NEW j \in Job, SidecarTake(j)
  PROVE  IInv'
<1>1. TypeOK'
  BY PowerAssumption DEF IInv, TypeOK, SidecarTake, api, Phase, WorkerPC
<1>2. UnsentFirst'
  BY PowerAssumption DEF IInv, TypeOK, SidecarTake, api, UnsentFirst,
     Unsent, Recorded, Places
<1>3. Recorded'
  BY PowerAssumption DEF IInv, TypeOK, SidecarTake, api, Recorded,
     Tracked, UnsentFirst
<1>4. Places'
  BY PowerAssumption DEF IInv, TypeOK, SidecarTake, api, Places,
     UnsentFirst, Unsent, Recorded
<1>5. PhaseKnown'
  BY PowerAssumption DEF IInv, TypeOK, SidecarTake, api, PhaseKnown,
     Tracked, UnsentFirst, Unsent, Recorded, Places, Phase
<1>6. SaveKnown'
  BY PowerAssumption DEF IInv, TypeOK, SidecarTake, api, SaveKnown,
     SavesFirst, SavedOrAdmitted, Recorded, UnsentFirst, Unsent
<1>7. Attributed'
  BY PowerAssumption DEF IInv, TypeOK, SidecarTake, api, Attributed,
     Recorded, Places
<1>8. SavedOrAdmitted'
  BY PowerAssumption DEF IInv, TypeOK, SidecarTake, api, SavedOrAdmitted,
     SaveKnown, Tracked, SavesFirst, UnsentFirst, Unsent, Recorded
<1>9. RunsAtMostOnce'
  BY PowerAssumption DEF IInv, TypeOK, SidecarTake, api, RunsAtMostOnce,
     Places
<1> QED BY <1>1, <1>2, <1>3, <1>4, <1>5, <1>6, <1>7, <1>8, <1>9 DEF IInv

(* SidecarExpire keeps the invariant. *)
LEMMA SidecarExpireInvariant ==
  ASSUME IInv, NEW j \in Job, SidecarExpire(j)
  PROVE  IInv'
<1>1. TypeOK'
  BY PowerAssumption DEF IInv, TypeOK, SidecarExpire, api, docker, Phase,
     WorkerPC
<1>2. UnsentFirst'
  BY PowerAssumption DEF IInv, TypeOK, SidecarExpire, api, docker,
     UnsentFirst, Unsent, Recorded, Places
<1>3. Recorded'
  BY PowerAssumption DEF IInv, TypeOK, SidecarExpire, api, docker,
     Recorded, Tracked, UnsentFirst
<1>4. Places'
  BY PowerAssumption DEF IInv, TypeOK, SidecarExpire, api, docker, Places,
     UnsentFirst, Unsent, Recorded
<1>5. PhaseKnown'
  BY PowerAssumption DEF IInv, TypeOK, SidecarExpire, api, docker,
     PhaseKnown, Tracked, UnsentFirst, Unsent, Recorded, Places, Phase
<1>6. SaveKnown'
  BY PowerAssumption DEF IInv, TypeOK, SidecarExpire, api, docker,
     SaveKnown, SavesFirst, SavedOrAdmitted, Recorded, UnsentFirst, Unsent
<1>7. Attributed'
  BY PowerAssumption DEF IInv, TypeOK, SidecarExpire, api, docker,
     Attributed, Recorded, Places
<1>8. SavedOrAdmitted'
  BY PowerAssumption DEF IInv, TypeOK, SidecarExpire, api, docker,
     SavedOrAdmitted, SaveKnown, Tracked, SavesFirst, UnsentFirst, Unsent,
     Recorded
<1>9. RunsAtMostOnce'
  BY PowerAssumption DEF IInv, TypeOK, SidecarExpire, api, docker,
     RunsAtMostOnce, Places
<1> QED BY <1>1, <1>2, <1>3, <1>4, <1>5, <1>6, <1>7, <1>8, <1>9 DEF IInv

(* Age keeps the invariant. *)
LEMMA AgeInvariant ==
  ASSUME IInv, NEW j \in Job, Age(j)
  PROVE  IInv'
<1>1. TypeOK'
  BY PowerAssumption DEF IInv, TypeOK, Age, api, docker, Phase, WorkerPC
<1>2. UnsentFirst'
  BY PowerAssumption DEF IInv, TypeOK, Age, api, docker, UnsentFirst,
     Unsent, Recorded, Places
<1>3. Recorded'
  BY PowerAssumption DEF IInv, TypeOK, Age, api, docker, Recorded,
     Tracked, UnsentFirst
<1>4. Places'
  BY PowerAssumption DEF IInv, TypeOK, Age, api, docker, Places,
     UnsentFirst, Unsent, Recorded
<1>5. PhaseKnown'
  BY PowerAssumption DEF IInv, TypeOK, Age, api, docker, PhaseKnown,
     Tracked, UnsentFirst, Unsent, Recorded, Places, Phase
<1>6. SaveKnown'
  BY PowerAssumption DEF IInv, TypeOK, Age, api, docker, SaveKnown,
     SavesFirst, SavedOrAdmitted, Recorded, UnsentFirst, Unsent
<1>7. Attributed'
  BY PowerAssumption DEF IInv, TypeOK, Age, api, docker, Attributed,
     Recorded, Places
<1>8. SavedOrAdmitted'
  BY PowerAssumption DEF IInv, TypeOK, Age, api, docker, SavedOrAdmitted,
     SaveKnown, Tracked, SavesFirst, UnsentFirst, Unsent, Recorded
<1>9. RunsAtMostOnce'
  BY PowerAssumption DEF IInv, TypeOK, Age, api, docker, RunsAtMostOnce,
     Places
<1> QED BY <1>1, <1>2, <1>3, <1>4, <1>5, <1>6, <1>7, <1>8, <1>9 DEF IInv

(* ApiRestart keeps the invariant. *)
LEMMA ApiRestartInvariant ==
  ASSUME IInv, ApiRestart
  PROVE  IInv'
<1>1. TypeOK'
  BY PowerAssumption DEF IInv, TypeOK, ApiRestart, docker, Untracked,
     Tracked, Phase, WorkerPC
<1>2. UnsentFirst'
  BY PowerAssumption DEF IInv, TypeOK, ApiRestart, docker, Untracked,
     Tracked, UnsentFirst, Unsent, Recorded, Places
<1>3. Recorded'
  BY PowerAssumption DEF IInv, TypeOK, ApiRestart, docker, Untracked,
     Tracked, Recorded, UnsentFirst
<1>4. Places'
  BY PowerAssumption DEF IInv, TypeOK, ApiRestart, docker, Untracked,
     Tracked, Places, UnsentFirst, Unsent, Recorded
<1>5. PhaseKnown'
  BY PowerAssumption DEF IInv, TypeOK, ApiRestart, docker, Untracked,
     Tracked, PhaseKnown, UnsentFirst, Unsent, Recorded, Places, Phase
<1>6. SaveKnown'
  BY PowerAssumption DEF IInv, TypeOK, ApiRestart, docker, Untracked,
     Tracked, SaveKnown, SavesFirst, SavedOrAdmitted, Recorded,
     UnsentFirst, Unsent
<1>7. Attributed'
  BY PowerAssumption DEF IInv, TypeOK, ApiRestart, docker, Untracked,
     Tracked, Attributed, Recorded, Places
<1>8. SavedOrAdmitted'
  BY PowerAssumption DEF IInv, TypeOK, ApiRestart, docker, Untracked,
     Tracked, SavedOrAdmitted, SaveKnown, SavesFirst, UnsentFirst, Unsent,
     Recorded
<1>9. RunsAtMostOnce'
  BY PowerAssumption DEF IInv, TypeOK, ApiRestart, docker, Untracked,
     Tracked, RunsAtMostOnce, Places
<1> QED BY <1>1, <1>2, <1>3, <1>4, <1>5, <1>6, <1>7, <1>8, <1>9 DEF IInv

(* SidecarRun keeps the invariant. *)
LEMMA SidecarRunInvariant ==
  ASSUME IInv, SidecarRun
  PROVE  IInv'
<1>1. TypeOK'
  <2>1. sidecar.job \in Job
    BY DEF IInv, Places, SidecarRun
  <2>2. runs' \in [Job -> Nat] /\ verdict' \in [Job -> {"none", "ok", "failed"}]
    BY <2>1 DEF IInv, TypeOK, SidecarRun
  <2>3. sidecar' \in [pc: {"down", "idle", "run", "report"},
                     job: Job \cup {NoJob}]
    BY DEF IInv, TypeOK, SidecarRun
  <2> QED BY <2>2, <2>3 DEF IInv, TypeOK, SidecarRun, api
<1>2. UnsentFirst'
  BY PowerAssumption DEF IInv, TypeOK, SidecarRun, api, UnsentFirst,
     Unsent, Recorded, Places
<1>3. Recorded'
  BY PowerAssumption DEF IInv, TypeOK, SidecarRun, api, Recorded, Tracked,
     UnsentFirst
<1>4. Places'
  BY PowerAssumption DEF IInv, TypeOK, SidecarRun, api, Places,
     UnsentFirst, Unsent, Recorded
<1>5. PhaseKnown'
  BY PowerAssumption DEF IInv, TypeOK, SidecarRun, api, PhaseKnown,
     Tracked, UnsentFirst, Unsent, Recorded, Places, Phase
<1>6. SaveKnown'
  BY PowerAssumption DEF IInv, TypeOK, SidecarRun, api, SaveKnown,
     SavesFirst, SavedOrAdmitted, Recorded, UnsentFirst, Unsent
<1>7. Attributed'
  BY PowerAssumption DEF IInv, TypeOK, SidecarRun, api, Attributed,
     Recorded, Places
<1>8. SavedOrAdmitted'
  BY PowerAssumption DEF IInv, TypeOK, SidecarRun, api, SavedOrAdmitted,
     SaveKnown, Tracked, SavesFirst, UnsentFirst, Unsent, Recorded
<1>9. RunsAtMostOnce'
  BY PowerAssumption DEF IInv, TypeOK, SidecarRun, api, RunsAtMostOnce,
     Places
<1> QED BY <1>1, <1>2, <1>3, <1>4, <1>5, <1>6, <1>7, <1>8, <1>9 DEF IInv

(* SidecarReport keeps the invariant. *)
LEMMA SidecarReportInvariant ==
  ASSUME IInv, SidecarReport
  PROVE  IInv'
<1>1. TypeOK'
  BY PowerAssumption DEF IInv, TypeOK, SidecarReport, api, Phase, WorkerPC
<1>2. UnsentFirst'
  BY PowerAssumption DEF IInv, TypeOK, SidecarReport, api, UnsentFirst,
     Unsent, Recorded, Places
<1>3. Recorded'
  BY PowerAssumption DEF IInv, TypeOK, SidecarReport, api, Recorded,
     Tracked, UnsentFirst
<1>4. Places'
  BY PowerAssumption DEF IInv, TypeOK, SidecarReport, api, Places,
     UnsentFirst, Unsent, Recorded
<1>5. PhaseKnown'
  BY PowerAssumption DEF IInv, TypeOK, SidecarReport, api, PhaseKnown,
     Tracked, UnsentFirst, Unsent, Recorded, Places, Phase
<1>6. SaveKnown'
  BY PowerAssumption DEF IInv, TypeOK, SidecarReport, api, SaveKnown,
     SavesFirst, SavedOrAdmitted, Recorded, UnsentFirst, Unsent
<1>7. Attributed'
  BY PowerAssumption DEF IInv, TypeOK, SidecarReport, api, Attributed,
     Recorded, Places
<1>8. SavedOrAdmitted'
  BY PowerAssumption DEF IInv, TypeOK, SidecarReport, api,
     SavedOrAdmitted, SaveKnown, Tracked, SavesFirst, UnsentFirst, Unsent,
     Recorded
<1>9. RunsAtMostOnce'
  BY PowerAssumption DEF IInv, TypeOK, SidecarReport, api, RunsAtMostOnce,
     Places
<1> QED BY <1>1, <1>2, <1>3, <1>4, <1>5, <1>6, <1>7, <1>8, <1>9 DEF IInv

(* SidecarCrash keeps the invariant. *)
LEMMA SidecarCrashInvariant ==
  ASSUME IInv, SidecarCrash
  PROVE  IInv'
<1>1. TypeOK'
  BY PowerAssumption DEF IInv, TypeOK, SidecarCrash, api, Phase, WorkerPC
<1>2. UnsentFirst'
  BY PowerAssumption DEF IInv, TypeOK, SidecarCrash, api, UnsentFirst,
     Unsent, Recorded, Places
<1>3. Recorded'
  BY PowerAssumption DEF IInv, TypeOK, SidecarCrash, api, Recorded,
     Tracked, UnsentFirst
<1>4. Places'
  BY PowerAssumption DEF IInv, TypeOK, SidecarCrash, api, Places,
     UnsentFirst, Unsent, Recorded
<1>5. PhaseKnown'
  BY PowerAssumption DEF IInv, TypeOK, SidecarCrash, api, PhaseKnown,
     Tracked, UnsentFirst, Unsent, Recorded, Places, Phase
<1>6. SaveKnown'
  BY PowerAssumption DEF IInv, TypeOK, SidecarCrash, api, SaveKnown,
     SavesFirst, SavedOrAdmitted, Recorded, UnsentFirst, Unsent
<1>7. Attributed'
  BY PowerAssumption DEF IInv, TypeOK, SidecarCrash, api, Attributed,
     Recorded, Places
<1>8. SavedOrAdmitted'
  BY PowerAssumption DEF IInv, TypeOK, SidecarCrash, api, SavedOrAdmitted,
     SaveKnown, Tracked, SavesFirst, UnsentFirst, Unsent, Recorded
<1>9. RunsAtMostOnce'
  BY PowerAssumption DEF IInv, TypeOK, SidecarCrash, api, RunsAtMostOnce,
     Places
<1> QED BY <1>1, <1>2, <1>3, <1>4, <1>5, <1>6, <1>7, <1>8, <1>9 DEF IInv

(* SidecarStart keeps the invariant. *)
LEMMA SidecarStartInvariant ==
  ASSUME IInv, SidecarStart
  PROVE  IInv'
<1>1. TypeOK'
  BY PowerAssumption DEF IInv, TypeOK, SidecarStart, api, Phase, WorkerPC
<1>2. UnsentFirst'
  BY PowerAssumption DEF IInv, TypeOK, SidecarStart, api, UnsentFirst,
     Unsent, Recorded, Places
<1>3. Recorded'
  BY PowerAssumption DEF IInv, TypeOK, SidecarStart, api, Recorded,
     Tracked, UnsentFirst
<1>4. Places'
  BY PowerAssumption DEF IInv, TypeOK, SidecarStart, api, Places,
     UnsentFirst, Unsent, Recorded
<1>5. PhaseKnown'
  BY PowerAssumption DEF IInv, TypeOK, SidecarStart, api, PhaseKnown,
     Tracked, UnsentFirst, Unsent, Recorded, Places, Phase
<1>6. SaveKnown'
  BY PowerAssumption DEF IInv, TypeOK, SidecarStart, api, SaveKnown,
     SavesFirst, SavedOrAdmitted, Recorded, UnsentFirst, Unsent
<1>7. Attributed'
  BY PowerAssumption DEF IInv, TypeOK, SidecarStart, api, Attributed,
     Recorded, Places
<1>8. SavedOrAdmitted'
  BY PowerAssumption DEF IInv, TypeOK, SidecarStart, api, SavedOrAdmitted,
     SaveKnown, Tracked, SavesFirst, UnsentFirst, Unsent, Recorded
<1>9. RunsAtMostOnce'
  BY PowerAssumption DEF IInv, TypeOK, SidecarStart, api, RunsAtMostOnce,
     Places
<1> QED BY <1>1, <1>2, <1>3, <1>4, <1>5, <1>6, <1>7, <1>8, <1>9 DEF IInv

----------------------------------------------------------------------------
LEMMA NextInvariant == IInv /\ [Next]_vars => IInv'
<1> SUFFICES ASSUME IInv, [Next]_vars PROVE IInv'
  OBVIOUS
<1>1. ASSUME NEW j \in Job,
             \/ Post(j) \/ Direct(j) \/ ApiStep(j) \/ PowerResult(j)
             \/ SidecarExpire(j) \/ Age(j)
      PROVE  IInv'
  BY <1>1, PostInvariant, DirectInvariant, OpenInvariant, SaveInvariant, RequestInvariant,
     MarkInvariant, FinishInvariant, PowerResultInvariant,
     SidecarExpireInvariant, AgeInvariant DEF ApiStep
<1>2. CASE ApiRestart
  BY <1>2, ApiRestartInvariant
<1>3. CASE SidecarStep
  BY <1>3, SidecarTakeInvariant, SidecarRunInvariant, SidecarReportInvariant
     DEF SidecarStep
<1>4. CASE SidecarCrash \/ SidecarStart
  BY <1>4, SidecarCrashInvariant, SidecarStartInvariant
<1>5. CASE UNCHANGED vars
  BY <1>5 DEF vars, IInv, TypeOK, UnsentFirst, Unsent, Recorded, Tracked,
     Places, PhaseKnown, SaveKnown, Attributed, SavedOrAdmitted,
     RunsAtMostOnce
<1> QED BY <1>1, <1>2, <1>3, <1>4, <1>5 DEF Next

THEOREM PowerInvariant == Spec => []IInv
  BY InitInvariant, NextInvariant, PTL DEF Spec

(* Every part of the state keeps its type: the table of jobs, the audit,   *)
(* the spool and both processes.                                           *)
THEOREM PowerTypeCorrect == Spec => []TypeOK
<1>1. IInv => TypeOK
  BY DEF IInv
<1> QED BY <1>1, PowerInvariant, PTL

(* No command reaches the sidecar or docker without its row in the audit.  *)
THEOREM AttributedHolds == Spec => []Attributed
<1>1. IInv => Attributed
  BY DEF IInv
<1> QED BY <1>1, PowerInvariant, PTL

(* A stop or restart is queued only after its save has ended, and a save   *)
(* that was not confirmed is admitted in the job and in the audit.         *)
THEOREM SavedOrAdmittedHolds == Spec => []SavedOrAdmitted
<1>1. IInv => SavedOrAdmitted
  BY DEF IInv
<1> QED BY <1>1, PowerInvariant, PTL

(* Docker is called at most once for a job, restarts included.             *)
THEOREM RunsAtMostOnceHolds == Spec => []RunsAtMostOnce
<1>1. IInv => RunsAtMostOnce
  BY DEF IInv
<1> QED BY <1>1, PowerInvariant, PTL

(* A job is shown as done or failed only when that is how it ended.        *)
THEOREM HonestPhaseHolds == Spec => []HonestPhase
<1>1. IInv => HonestPhase
  BY DEF IInv, TypeOK, PhaseKnown, Places, Unsent, HonestPhase
<1> QED BY <1>1, PowerInvariant, PTL
=============================================================================

------------------------- MODULE InstallJobsProofs -------------------------
(* One installation per node at a time, and every install request answered *)
(* with a job that is still to report, for any nodes, any number of jobs,  *)
(* and whatever threads, admins and restarts do in between.                *)
EXTENDS InstallJobs, TLAPS

USE DEF JobId, NoJob, NodeStatus, JobStatus, Job

(* Replacing one record of the registry by another keeps its shape. *)
LEMMA JobUpdate ==
  ASSUME TypeOK, NEW j \in DOMAIN jobs, NEW r \in Job,
         jobs' = [jobs EXCEPT ![j] = r]
  PROVE  DOMAIN jobs' = DOMAIN jobs /\ jobs' \in [DOMAIN jobs' -> Job]
  BY DEF TypeOK

(* Every reachable state has the shape TypeOK gives it. *)
THEOREM TypeCorrect == Spec => []TypeOK
<1>1. Init => TypeOK
  BY JobsAssumption DEF Init, TypeOK
<1>2. TypeOK /\ [Next]_vars => TypeOK'
  <2> SUFFICES ASSUME TypeOK, [Next]_vars PROVE TypeOK'
    OBVIOUS
  <2> USE JobsAssumption DEF TypeOK
  <2>1. ASSUME NEW n \in Node, InstallNode(n) PROVE TypeOK'
    BY <2>1 DEF InstallNode
  <2>2. ASSUME NEW n \in Node, StartInstallJob(n) PROVE TypeOK'
    <3>1. CASE Existing(n)
      BY <2>2, <3>1 DEF StartInstallJob
    <3>2. CASE ~Existing(n)
      <4>1. started' \in JobId
        BY <2>2, <3>2 DEF StartInstallJob
      <4>2. DOMAIN jobs' = DOMAIN jobs \cup {started'}
        BY <2>2, <3>2 DEF StartInstallJob
      <4>3. jobs' \in [DOMAIN jobs' -> Job]
        <5> DEFINE new == [node |-> n, status |-> "pending", ok |-> FALSE, pc |-> "start"]
        <5>1. jobs' = [j \in DOMAIN jobs \cup {started'} |->
                         IF j = started' THEN new ELSE jobs[j]]
          BY <2>2, <3>2 DEF StartInstallJob
        <5>2. new \in Job
          OBVIOUS
        <5> HIDE DEF new
        <5>3. \A j \in DOMAIN jobs : jobs[j] \in Job
          OBVIOUS
        <5> QED BY <5>1, <5>2, <5>3
      <4> QED BY <2>2, <3>2, <4>1, <4>2, <4>3 DEF StartInstallJob
    <3> QED BY <3>1, <3>2
  <2>3. ASSUME NEW n \in Node, Admin(n) PROVE TypeOK'
    BY <2>3 DEF Admin, AdminDisables, AdminEnables, AdminDeletes, AdminChecks,
                AdminVerifies, SetStatus
  <2>4. ASSUME NEW j \in DOMAIN jobs, RunJob(j) PROVE TypeOK'
    BY <2>4, JobUpdate DEF RunJob, Step
  <2>5. ASSUME NEW j \in DOMAIN jobs, MarkInstalling(j) PROVE TypeOK'
    BY <2>5, JobUpdate DEF MarkInstalling, Step
  <2>6. ASSUME NEW j \in DOMAIN jobs, NEW ok \in BOOLEAN, FinishInstall(j, ok)
        PROVE  TypeOK'
    BY <2>6, JobUpdate DEF FinishInstall, Step
  <2>7. ASSUME NEW j \in DOMAIN jobs, RaiseJob(j) PROVE TypeOK'
    BY <2>7, JobUpdate DEF RaiseJob
  <2>8. ASSUME NEW j \in DOMAIN jobs, ReportJob(j) PROVE TypeOK'
    BY <2>8, JobUpdate DEF ReportJob, Step
  <2>9. ASSUME NEW j \in DOMAIN jobs, Cleanup(j) PROVE TypeOK'
    BY <2>9, JobUpdate DEF Cleanup, Step
  <2>10. CASE Restart
    BY <2>10 DEF Restart
  <2>11. CASE UNCHANGED vars
    BY <2>11 DEF vars
  <2> QED
    BY <2>1, <2>2, <2>3, <2>4, <2>5, <2>6, <2>7, <2>8, <2>9, <2>10, <2>11
       DEF Next, Thread
<1> QED BY <1>1, <1>2, PTL DEF Spec

-----------------------------------------------------------------------------
(* Who is registered stays registered: a thread only enters the registry   *)
(* in place of a job that has reported, and only leaves it after reporting.*)
LEMMA RegistryStep == TypeOK /\ TypeOK' /\ Registered /\ [Next]_vars => Registered'
<1> SUFFICES ASSUME TypeOK, TypeOK', Registered, [Next]_vars PROVE Registered'
  OBVIOUS
<1> USE JobsAssumption DEF TypeOK, Registered
<1>1. ASSUME NEW n \in Node, InstallNode(n) \/ Admin(n) PROVE Registered'
  BY <1>1 DEF InstallNode, Admin, AdminDisables, AdminEnables, AdminDeletes,
              AdminChecks, AdminVerifies, SetStatus
<1>2. ASSUME NEW n \in Node, StartInstallJob(n) PROVE Registered'
  <2>1. CASE Existing(n)
    BY <1>2, <2>1 DEF StartInstallJob
  <2>2. CASE ~Existing(n)
    <3>1. started' = started + 1 /\ started' \notin DOMAIN jobs
      BY <1>2, <2>2 DEF StartInstallJob
    <3>2. \A j \in DOMAIN jobs : jobs'[j] = jobs[j]
      BY <1>2, <2>2, <3>1 DEF StartInstallJob
    <3>3. \A j \in DOMAIN jobs :
            jobs[j].pc \in {"start", "mark", "install", "report"} => jobs[j].node # n
      BY <2>2 DEF Existing, Pending, Known
    <3>4. running' = [running EXCEPT ![n] = started'] /\ DOMAIN jobs' = DOMAIN jobs \cup {started'}
          /\ jobs'[started'].node = n /\ jobs'[started'].status = "pending"
      BY <1>2, <2>2 DEF StartInstallJob
    <3> QED BY <3>1, <3>2, <3>3, <3>4
  <2> QED BY <2>1, <2>2
<1>3. ASSUME NEW j \in DOMAIN jobs, RunJob(j) PROVE Registered'
  BY <1>3 DEF RunJob, Step
<1>4. ASSUME NEW j \in DOMAIN jobs, MarkInstalling(j) PROVE Registered'
  BY <1>4 DEF MarkInstalling, Step
<1>5. ASSUME NEW j \in DOMAIN jobs, NEW ok \in BOOLEAN, FinishInstall(j, ok)
      PROVE  Registered'
  BY <1>5 DEF FinishInstall, Step
<1>6. ASSUME NEW j \in DOMAIN jobs, RaiseJob(j) PROVE Registered'
  BY <1>6 DEF RaiseJob
<1>7. ASSUME NEW j \in DOMAIN jobs, ReportJob(j) PROVE Registered'
  BY <1>7 DEF ReportJob, Step
<1>8. ASSUME NEW j \in DOMAIN jobs, Cleanup(j) PROVE Registered'
  <2>1. \A i \in DOMAIN jobs : i # j => jobs'[i] = jobs[i] /\ jobs[i].node \in Node
    BY <1>8 DEF Cleanup, Step
  <2>2. jobs'[j].pc = "done" /\ DOMAIN jobs' = DOMAIN jobs /\ started' = started
    BY <1>8 DEF Cleanup, Step
  <2>3. \A n \in Node : running[n] # j => running'[n] = running[n]
    BY <1>8 DEF Cleanup
  <2> QED BY <2>1, <2>2, <2>3
<1>9. CASE Restart
  BY <1>9 DEF Restart
<1>10. CASE UNCHANGED vars
  BY <1>10 DEF vars
<1> QED
  BY <1>1, <1>2, <1>3, <1>4, <1>5, <1>6, <1>7, <1>8, <1>9, <1>10
     DEF Next, Thread

(* A thread that may still install is the registered one, in every state.  *)
THEOREM RegisteredAlways == Spec => []Registered
<1>1. Init => Registered
  BY DEF Init, Registered
<1> QED BY <1>1, RegistryStep, TypeCorrect, PTL DEF Spec

(* Two installations never run on one node at the same time. *)
THEOREM OneInstallAlways == Spec => []OneInstall
<1>1. TypeOK /\ Registered => OneInstall
  BY DEF TypeOK, Registered, OneInstall, Busy, Known
<1> QED BY <1>1, RegisteredAlways, TypeCorrect, PTL

(* An install request is never answered with a job that already reported.  *)
THEOREM AnswersUnfinished == Spec => AnswerIsUnfinished
<1> DEFINE Answer == \A n \in asked : asked' = {} /\ jobs' # << >> =>
                       running'[n] # NoJob
                         /\ jobs'[running'[n]].status \in {"pending", "running"}
<1>1. TypeOK /\ [Next]_vars => [Answer]_vars
  <2> SUFFICES ASSUME TypeOK, Next, NEW n \in asked, asked' = {}, jobs' # << >>
               PROVE  /\ running'[n] # NoJob
                      /\ jobs'[running'[n]].status \in {"pending", "running"}
    OBVIOUS
  <2> USE JobsAssumption DEF TypeOK
  <2>1. PICK m \in Node : StartInstallJob(m)
    BY DEF Next, InstallNode, Admin, AdminDisables, AdminEnables, AdminDeletes,
           AdminChecks, AdminVerifies, SetStatus, Thread, RunJob, MarkInstalling,
           FinishInstall, RaiseJob, ReportJob, Cleanup, Step, Restart
  <2>2. n \in Node /\ m \in asked
    BY <2>1 DEF StartInstallJob
  <2> QED BY <2>1, <2>2 DEF StartInstallJob, Existing, Pending, Known
<1> QED BY <1>1, TypeCorrect, PTL DEF Spec, AnswerIsUnfinished
=============================================================================

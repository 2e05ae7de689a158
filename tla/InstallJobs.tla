---------------------------- MODULE InstallJobs ----------------------------
(***************************************************************************)
(* Installing Xray on a node takes minutes, so POST /nodes/{id}/install    *)
(* only commits the status "installing", hands the node to                 *)
(* start_install_job and answers with a job id to poll.  The job is a      *)
(* daemon thread with a session of its own; the registry of jobs lives in  *)
(* the memory of the process, behind one lock.                             *)
(*                                                                         *)
(* The handler has no await between its commit and the registry, so at     *)
(* most one of them is in between (`asked'); job threads and the other     *)
(* admin handlers interleave with it freely.  A handler that changes a     *)
(* node holds its row lock until it commits: it is one step, at the        *)
(* commit.  Abstracted: logs and current_step, the install commands on the *)
(* node (one step with an outcome), deletion of rows (never physical).     *)
(***************************************************************************)
EXTENDS Integers, FiniteSets

CONSTANTS
  Node,     (* VPS nodes                                                  *)
  MaxJobs,  (* bound: jobs ever started                                   *)
  Faults    (* subset of {"raise", "restart"}                             *)

ASSUME JobsAssumption == MaxJobs \in Nat

VARIABLES
  nodeStatus,  (* committed vps_nodes.status                              *)
  asked,       (* node whose install handler is about to call the registry *)
  jobs,        (* _jobs, each with the place of its thread                *)
  running,     (* _running_install_by_node, NoJob where there is no entry *)
  started      (* number of jobs ever started                             *)

vars == <<nodeStatus, asked, jobs, running, started>>

-----------------------------------------------------------------------------
JobId == 1..MaxJobs
NoJob == 0

NodeStatus == {"draft", "installing", "online", "failed", "disabled", "deleted"}
JobStatus  == {"pending", "running", "success", "failed"}

(* pc: the thread has not run yet ("start"), will mark the node ("mark"),  *)
(* installs ("install"), has committed the outcome ("report"), has told    *)
(* the registry ("cleanup"), is over ("done").                             *)
Job == [node: Node, status: JobStatus, ok: BOOLEAN,
        pc: {"start", "mark", "install", "report", "cleanup", "done"}]

Known(j)    == j \in DOMAIN jobs
Pending(j)  == Known(j) /\ jobs[j].status \in {"pending", "running"}
Busy(j)     == Known(j) /\ jobs[j].pc \in {"mark", "install"}
Alive(j)    == Known(j) /\ jobs[j].pc # "done"

Step(j, from, to) == jobs[j].pc = from /\ jobs' = [jobs EXCEPT ![j] = to]

-----------------------------------------------------------------------------
(* (Variant: an await between the commit and the registry.) *)
InstallNodeAwaits(n) ==
  /\ started < MaxJobs
  /\ nodeStatus' = [nodeStatus EXCEPT ![n] = "installing"]
  /\ asked' = asked \cup {n}
  /\ UNCHANGED <<jobs, running, started>>

(* install_node up to its commit. *)
InstallNode(n) ==
  /\ asked = {} /\ started < MaxJobs
  /\ nodeStatus' = [nodeStatus EXCEPT ![n] = "installing"]
  /\ asked' = {n}
  /\ UNCHANGED <<jobs, running, started>>

(* (Variants of the next action: the job found is not looked at; nobody    *)
(* looks for a job.)                                                       *)
ExistingAny(n)   == running[n] # NoJob
ExistingNever(n) == FALSE

(* The job registered for the node, if it is pending or running. *)
Existing(n) == running[n] # NoJob /\ Pending(running[n])

(* start_install_job, under _lock: an unfinished job is answered again,    *)
(* otherwise a new one is registered and its thread started.               *)
StartInstallJob(n) ==
  /\ n \in asked
  /\ asked' = {}
  /\ IF Existing(n)
       THEN UNCHANGED <<jobs, running, started>>
       ELSE /\ started' = started + 1
            /\ jobs' = [j \in DOMAIN jobs \cup {started'} |->
                          IF j = started'
                            THEN [node |-> n, status |-> "pending", ok |-> FALSE,
                                  pc |-> "start"]
                            ELSE jobs[j]]
            /\ running' = [running EXCEPT ![n] = started']
  /\ UNCHANGED nodeStatus

-----------------------------------------------------------------------------
(* The thread of job j, _run_install_job. *)
RunJob(j) ==
  /\ Step(j, "start", [jobs[j] EXCEPT !.status = "running", !.pc = "mark"])
  /\ UNCHANGED <<nodeStatus, asked, running, started>>

MarkInstalling(j) ==
  /\ Step(j, "mark", [jobs[j] EXCEPT !.pc = "install"])
  /\ nodeStatus' = [nodeStatus EXCEPT ![jobs[j].node] = "installing"]
  /\ UNCHANGED <<asked, running, started>>

(* installer.install() is over and its outcome is committed, whatever the  *)
(* status of the node has become since.                                    *)
FinishInstall(j, ok) ==
  /\ Step(j, "install", [jobs[j] EXCEPT !.ok = ok, !.pc = "report"])
  /\ nodeStatus' = [nodeStatus EXCEPT ![jobs[j].node] =
                      IF ok THEN "online" ELSE "failed"]
  /\ UNCHANGED <<asked, running, started>>

(* (Variant: without the handler the thread is simply gone.) *)
RaiseKillsThread(j) ==
  /\ "raise" \in Faults
  /\ jobs[j].pc \in {"mark", "install"} \/ (jobs[j].pc = "report" /\ jobs[j].ok)
  /\ jobs' = [jobs EXCEPT ![j].pc = "done"]
  /\ UNCHANGED <<nodeStatus, asked, running, started>>

(* The except clause: something in the thread raised. *)
RaiseJob(j) ==
  /\ "raise" \in Faults
  /\ jobs[j].pc \in {"mark", "install"} \/ (jobs[j].pc = "report" /\ jobs[j].ok)
  /\ jobs' = [jobs EXCEPT ![j] = [jobs[j] EXCEPT !.ok = FALSE, !.pc = "report"]]
  /\ nodeStatus' = [nodeStatus EXCEPT ![jobs[j].node] = "failed"]
  /\ UNCHANGED <<asked, running, started>>

ReportJob(j) ==
  /\ Step(j, "report", [jobs[j] EXCEPT !.pc = "cleanup",
                          !.status = IF jobs[j].ok THEN "success" ELSE "failed"])
  /\ UNCHANGED <<nodeStatus, asked, running, started>>

(* (Variant: the entry is removed whoever it belongs to.) *)
CleanupAny(j) ==
  /\ Step(j, "cleanup", [jobs[j] EXCEPT !.pc = "done"])
  /\ running' = [running EXCEPT ![jobs[j].node] = NoJob]
  /\ UNCHANGED <<nodeStatus, asked, started>>

(* The finally clause: the entry is removed if it is still this job's. *)
Cleanup(j) ==
  /\ Step(j, "cleanup", [jobs[j] EXCEPT !.pc = "done"])
  /\ running' = [n \in Node |-> IF running[n] = j THEN NoJob ELSE running[n]]
  /\ UNCHANGED <<nodeStatus, asked, started>>

-----------------------------------------------------------------------------
(* The other handlers that commit a node's status: enable, disable and     *)
(* delete leave a deleted node alone, check and verify do not.             *)
SetStatus(n, s) ==
  /\ nodeStatus' = [nodeStatus EXCEPT ![n] = s]
  /\ UNCHANGED <<asked, jobs, running, started>>

AdminDisables(n) == asked = {} /\ nodeStatus[n] # "deleted" /\ SetStatus(n, "disabled")
AdminEnables(n)  == asked = {} /\ nodeStatus[n] # "deleted" /\ SetStatus(n, "online")
AdminDeletes(n)  == asked = {} /\ nodeStatus[n] # "deleted" /\ SetStatus(n, "deleted")
AdminChecks(n)   == asked = {} /\ \E s \in {"draft", "failed"} : SetStatus(n, s)
AdminVerifies(n) == asked = {} /\ \E s \in {"online", "failed"} : SetStatus(n, s)

(* The registry and the threads are gone, the database stays. *)
Restart ==
  /\ "restart" \in Faults
  /\ asked' = {} /\ jobs' = << >>
  /\ running' = [n \in Node |-> NoJob]
  /\ UNCHANGED <<nodeStatus, started>>

-----------------------------------------------------------------------------
Init ==
  /\ nodeStatus = [n \in Node |-> "draft"]
  /\ asked = {}
  /\ jobs = << >>
  /\ running = [n \in Node |-> NoJob]
  /\ started = 0

Thread(j) ==
  \/ RunJob(j) \/ MarkInstalling(j) \/ RaiseJob(j) \/ ReportJob(j) \/ Cleanup(j)
  \/ \E ok \in BOOLEAN : FinishInstall(j, ok)

Admin(n) ==
  \/ AdminDisables(n) \/ AdminEnables(n) \/ AdminDeletes(n)
  \/ AdminChecks(n) \/ AdminVerifies(n)

Next ==
  \/ \E n \in Node : InstallNode(n) \/ StartInstallJob(n) \/ Admin(n)
  \/ \E j \in DOMAIN jobs : Thread(j)
  \/ Restart

Spec == Init /\ [][Next]_vars

(* A thread runs, and every SSH command of the installer has a timeout. *)
FairSpec == Spec /\ \A j \in JobId : WF_vars(Known(j) /\ Thread(j))

-----------------------------------------------------------------------------
(* Properties.                                                             *)

(* The shape of the state. *)
TypeOK ==
  /\ nodeStatus \in [Node -> NodeStatus]
  /\ asked \in {{}} \cup {{n} : n \in Node}
  /\ DOMAIN jobs \subseteq JobId
  /\ jobs \in [DOMAIN jobs -> Job]
  /\ running \in [Node -> {NoJob} \cup JobId]
  /\ started \in 0..MaxJobs
  /\ asked # {} => started < MaxJobs

(* Two installations never run on one node at the same time.               *)
OneInstall ==
  \A i, j \in DOMAIN jobs : Busy(i) /\ Busy(j) /\ jobs[i].node = jobs[j].node => i = j

(* OneInstall made inductive: a thread that may still install is the one   *)
(* registered for its node, and the registry calls its job unfinished.     *)
Registered ==
  /\ \A j \in DOMAIN jobs :
       jobs[j].pc \in {"start", "mark", "install", "report"} =>
         /\ running[jobs[j].node] = j
         /\ jobs[j].status \in {"pending", "running"}
  /\ \A j \in DOMAIN jobs : j <= started

(* The job an install request is answered with is one that still has to    *)
(* report: polling it cannot show the outcome of an earlier installation.  *)
AnswerIsUnfinished ==
  [][\A n \in asked : asked' = {} /\ jobs' # << >> =>
       running'[n] # NoJob /\ jobs'[running'[n]].status \in {"pending", "running"}]_vars

(* Every job reaches success or failure, or is forgotten by a restart.     *)
JobsEnd == \A j \in JobId : Pending(j) ~> ~Pending(j)

(* A node is "installing" only while an install job is under way for it.   *)
InstallingHasJob ==
  \A n \in Node : nodeStatus[n] = "installing" =>
    n \in asked \/ \E j \in DOMAIN jobs : jobs[j].node = n /\ Alive(j)
=============================================================================

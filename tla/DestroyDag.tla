----------------------------- MODULE DestroyDag -----------------------------
(***************************************************************************)
(* AWS_Destroy and AZURE_Destroy: one message of the queue `destroy` per   *)
(* run, terraform destroy per kind of instance, then the directory with    *)
(* the terraform state, then the rows of the request.  The two DAGs share  *)
(* the queue and differ in their tasks and trigger rules; the constant Dag *)
(* says which one this is.  max_active_runs=1: its runs do not overlap.    *)
(***************************************************************************)
EXTENDS Naturals, Sequences

CONSTANTS
    Requests,           \* requests, with complete rows at the start
    CloudOf,            \* Resources.cloudProvider
    Wanted,             \* the kinds of instance rows
    GroupNamed,         \* Azure requests with Resources.name = "rg-" + Repository.name
    Dag,                \* "AWS" or "AZURE"
    MaxSends,           \* destroy calls (a bound)
    MaxFaults,          \* attempts that die (a bound)
    NoRequest           \* no message

Clouds == {"AWS", "AZURE"}
Kinds == {"vm", "db", "st"}

ASSUME DestroyAssumption ==
    /\ CloudOf \in [Requests -> Clouds]
    /\ Wanted \in [Requests -> SUBSET Kinds]
    /\ GroupNamed \subseteq {r \in Requests : CloudOf[r] = "AZURE"}
    /\ Dag \in Clouds
    /\ MaxSends \in Nat
    /\ MaxFaults \in Nat
    /\ NoRequest \notin Requests

\* Task ids: a terraform_destroy_* task goes by the kind it destroys.
Destroys == Kinds \cup (IF Dag = "AZURE" THEN {"rg"} ELSE {})
Tasks == {"get_request_id", "get_repository_name", "branch", "cleanup", "delete"} \cup Destroys

Upstream ==
    [t \in Tasks |->
        CASE t = "get_request_id" -> {}
          [] t = "get_repository_name" -> {"get_request_id"}
          [] t = "branch" -> {"get_repository_name"}
          [] t \in Kinds -> {"branch"}
          [] t = "rg" -> Kinds
          [] t = "cleanup" -> IF Dag = "AZURE" THEN {"rg"} ELSE Kinds
          [] t = "delete" -> {"cleanup"}]

\* Mutant: the directory is cleaned up however the destroys went.
RuleCleanupAlways ==
    [t \in Tasks |-> IF t \in {"cleanup", "delete"} THEN "all_done" ELSE "all_success"]

\* Mutant: so is the resource group.
RuleGroupAlways ==
    [t \in Tasks |->
        IF t \in {"rg", "cleanup", "delete"} THEN "all_done" ELSE "all_success"]

Rule ==
    [t \in Tasks |->
        CASE t = "delete" -> "all_done"
          [] t = "cleanup" -> IF Dag = "AZURE" THEN "all_done"
                              ELSE "none_failed_min_one_success"
          [] t = "rg" -> "none_failed_min_one_success"
          [] OTHER -> "all_success"]

Retries ==
    [t \in Tasks |->
        IF t \in Destroys \cup {"delete"} \/ (t = "branch" /\ Dag = "AWS") THEN 3 ELSE 1]

VARIABLES
    config, vms, resources, repository, request,    \* the tables (Schema)
    state, tries,       \* the run's task instances (AirflowDag)
    active,             \* whether a run is going on
    got,                \* what get_request_id returned
    queue,              \* the RabbitMQ queue `destroy`
    triggers,           \* runs of this DAG that wait for their turn
    sends,              \* destroy calls so far
    purge,              \* the statement supabase_delete_request is about to run
    infra,              \* what exists in the cloud for a request
    tfdir,              \* what its terraform directories keep the state of
    faults              \* attempts that have died

S == INSTANCE Schema WITH Calls <- Requests
A == INSTANCE AirflowDag

tables == <<config, vms, resources, repository, request>>
dagVars == <<state, tries>>
messages == <<queue, triggers, sends>>
vars == <<tables, dagVars, active, got, messages, purge, infra, tfdir, faults>>

TypeOK ==
    /\ S!SchemaTypeOK
    /\ A!DagTypeOK
    /\ active \in BOOLEAN
    /\ got \in Requests \cup {NoRequest}
    /\ queue \in Seq(Requests)
    /\ triggers \in 0..MaxSends
    /\ sends \in 0..MaxSends
    /\ purge \in {"request", "repository", "resources", "instances", "config"}
    /\ infra \in [Requests -> SUBSET (Kinds \cup {"rg"})]
    /\ tfdir \in [Requests -> SUBSET (Kinds \cup {"rg"})]
    /\ faults \in 0..MaxFaults

Built(r) == Wanted[r] \cup (IF CloudOf[r] = "AZURE" THEN {"rg"} ELSE {})

\* Some requests have been provisioned, the others were never approved.
Init ==
    /\ config = Requests /\ resources = Requests
    /\ repository = Requests /\ request = Requests
    /\ vms = {r \in Requests : CloudOf[r] = "AWS" /\ "vm" \in Wanted[r]}
    /\ A!Fresh
    /\ active = FALSE
    /\ got = NoRequest
    /\ queue = <<>> /\ triggers = 0 /\ sends = 0
    /\ purge = "request"
    /\ \E approved \in SUBSET Requests :
          infra = [r \in Requests |-> IF r \in approved THEN Built(r) ELSE {}]
    /\ tfdir = infra
    /\ faults = 0

Fault == faults < MaxFaults /\ faults' = faults + 1

-----------------------------------------------------------------------------
(* Around the run.                                                         *)

\* infrastrutureDestroy, once the broker and Airflow have both answered: the
\* message goes to the shared queue, the trigger to the DAG of its cloud.
SendDestroy(r) ==
    /\ sends < MaxSends
    /\ r \in request
    /\ sends' = sends + 1
    /\ queue' = Append(queue, r)
    /\ triggers' = IF CloudOf[r] = Dag THEN triggers + 1 ELSE triggers
    /\ UNCHANGED <<tables, dagVars, active, got, purge, infra, tfdir, faults>>

\* A run of the other cloud's DAG takes whatever message is first.
OtherDagPops ==
    /\ queue # <<>>
    /\ queue' = Tail(queue)
    /\ UNCHANGED <<tables, dagVars, active, got, triggers, sends, purge,
                   infra, tfdir, faults>>

\* DELETE /request/:id while its destruction is under way.
RemoveRequest(r) ==
    /\ r \in request
    /\ S!DropRequest(r)
    /\ UNCHANGED <<dagVars, active, got, messages, purge, infra, tfdir, faults>>

\* Mutant: a run without a trigger.
StartRunUntriggered ==
    /\ ~active
    /\ triggers' = triggers - 1
    /\ active' = TRUE
    /\ A!Renew
    /\ got' = NoRequest
    /\ purge' = "request"
    /\ UNCHANGED <<tables, queue, sends, infra, tfdir, faults>>

StartRun ==
    /\ ~active
    /\ triggers > 0
    /\ triggers' = triggers - 1
    /\ active' = TRUE
    /\ A!Renew
    /\ got' = NoRequest
    /\ purge' = "request"
    /\ UNCHANGED <<tables, queue, sends, infra, tfdir, faults>>

EndRun ==
    /\ active
    /\ A!RunOver
    /\ active' = FALSE
    /\ UNCHANGED <<tables, dagVars, got, messages, purge, infra, tfdir, faults>>

Schedule ==
    /\ active
    /\ A!Scheduler
    /\ UNCHANGED <<tables, active, got, messages, purge, infra, tfdir, faults>>

-----------------------------------------------------------------------------
(* The tasks' attempts.  `elsewhere` is what most of them leave alone.     *)
elsewhere == <<tables, active, triggers, sends, purge, faults>>

Running(t) == active /\ state[t] = "running"

\* Mutant: a blocking consume in place of basic_get.
GetRequestIdBlocking ==
    /\ Running("get_request_id")
    /\ queue # <<>>
    /\ got' = Head(queue) /\ queue' = Tail(queue)
    /\ A!Succeed("get_request_id")
    /\ UNCHANGED <<elsewhere, infra, tfdir>>

GetRequestId ==
    /\ Running("get_request_id")
    /\ IF queue = <<>> THEN got' = NoRequest /\ UNCHANGED queue
       ELSE got' = Head(queue) /\ queue' = Tail(queue)
    /\ A!Succeed("get_request_id")
    /\ UNCHANGED <<elsewhere, infra, tfdir>>

\* Without a message, or without the row, it raises on every attempt.
GetRepositoryName ==
    /\ Running("get_repository_name")
    /\ IF got \in request THEN A!Succeed("get_repository_name")
       ELSE A!AttemptFails("get_repository_name")
    /\ UNCHANGED <<elsewhere, got, queue, infra, tfdir>>

\* The DAG counts the instance tables of its own cloud.  With none it returns
\* 'end', which is not a task of the DAG: Airflow fails the attempt.
Chosen == IF CloudOf[got] = Dag THEN Wanted[got] ELSE {}

\* Mutant: nothing to destroy is taken for success.
BranchResourcesLenient ==
    /\ Running("branch")
    /\ IF got \in request
       THEN A!SucceedSkipping("branch", Kinds \ Chosen)
       ELSE A!AttemptFails("branch")
    /\ UNCHANGED <<elsewhere, got, queue, infra, tfdir>>

BranchResources ==
    /\ Running("branch")
    /\ IF got \in request /\ Chosen # {}
       THEN A!SucceedSkipping("branch", Kinds \ Chosen)
       ELSE A!AttemptFails("branch")
    /\ UNCHANGED <<elsewhere, got, queue, infra, tfdir>>

\* The terraform state at the path this DAG computes.  AWS_Destroy looks under
\* the repository's name as AWS_provide_* do; AZURE_Destroy under "rg-" and that
\* name, where AZURE_provide_* used Resources.name.  Without the name, nowhere.
Directory ==
    IF /\ state["get_repository_name"] = "success"
       /\ CloudOf[got] = Dag
       /\ Dag = "AWS" \/ got \in GroupNamed
    THEN tfdir[got] ELSE {}

\* Mutant: the exit status of terraform destroy is lost.
TerraformDestroyUnchecked(k) ==
    /\ Running(k)
    /\ A!Succeed(k)
    /\ UNCHANGED <<elsewhere, got, queue, infra, tfdir>>

\* cd, terraform init, terraform destroy; the `cd` fails without a directory.
TerraformDestroy(k) ==
    /\ Running(k)
    /\ IF k \in Directory
       THEN A!Succeed(k) /\ infra' = [infra EXCEPT ![got] = @ \ {k}]
       ELSE A!AttemptFails(k) /\ UNCHANGED infra
    /\ UNCHANGED <<elsewhere, got, queue, tfdir>>

\* rmtree, if there is a directory of that name at all.
CleanupDirectory ==
    /\ Running("cleanup")
    /\ A!Succeed("cleanup")
    /\ tfdir' = IF Directory = {} THEN tfdir ELSE [tfdir EXCEPT ![got] = {}]
    /\ UNCHANGED <<elsewhere, got, queue, infra>>

-----------------------------------------------------------------------------
(* supabase_delete_request: every statement commits by itself, and every   *)
(* attempt starts from the SELECT of the Request row.                      *)
beside == <<active, got, messages, infra, tfdir, faults>>

Deleting(label) == Running("delete") /\ purge = label
Then(label) == purge' = label /\ UNCHANGED dagVars
GiveUp == A!AttemptFails("delete") /\ purge' = "request" /\ UNCHANGED tables

\* Mutant: without the Request row there is nothing to purge.
DeleteRequestOnce ==
    /\ Deleting("request")
    /\ IF got \in request THEN S!DropRequest(got) /\ Then("repository")
       ELSE A!Succeed("delete") /\ UNCHANGED <<tables, purge>>
    /\ UNCHANGED beside

DeleteRequest ==
    /\ Deleting("request")
    /\ IF got \in request THEN S!DropRequest(got) /\ Then("repository") ELSE GiveUp
    /\ UNCHANGED beside

DeleteRepository ==
    /\ Deleting("repository")
    /\ S!DropRepository(got)
    /\ Then("resources")
    /\ UNCHANGED beside

DeleteResources ==
    /\ Deleting("resources")
    /\ IF got \in resources THEN S!DropResources(got) /\ Then("instances") ELSE GiveUp
    /\ UNCHANGED beside

\* The instance tables of its own cloud; all but AwsVMInstance would cascade.
DeleteInstances ==
    /\ Deleting("instances")
    /\ IF Dag = "AWS" THEN S!DropVms(got) ELSE UNCHANGED tables
    /\ Then("config")
    /\ UNCHANGED beside

\* A foreign key violation while AwsVMInstance rows are left.
DeleteConfig ==
    /\ Deleting("config")
    /\ IF got \in vms THEN GiveUp
       ELSE S!DropConfig(got) /\ A!Succeed("delete") /\ purge' = "request"
    /\ UNCHANGED beside

-----------------------------------------------------------------------------
\* An attempt dies: the message may be taken, the resources destroyed, the
\* directory removed, the statements before it are committed.
AttemptDies(t) ==
    /\ Running(t)
    /\ Fault
    /\ A!AttemptFails(t)
    /\ purge' = "request"
    /\ \/ UNCHANGED <<queue, infra, tfdir>>
       \/ /\ t = "get_request_id" /\ queue # <<>>
          /\ queue' = Tail(queue)
          /\ UNCHANGED <<infra, tfdir>>
       \/ /\ t \in Destroys /\ t \in Directory
          /\ infra' = [infra EXCEPT ![got] = @ \ {t}]
          /\ UNCHANGED <<queue, tfdir>>
       \/ /\ t = "cleanup" /\ Directory # {}
          /\ tfdir' = [tfdir EXCEPT ![got] = {}]
          /\ UNCHANGED <<queue, infra>>
    /\ UNCHANGED <<tables, active, got, triggers, sends>>

Attempt ==
    \/ GetRequestId \/ GetRepositoryName \/ BranchResources
    \/ \E k \in Destroys : TerraformDestroy(k)
    \/ CleanupDirectory
    \/ DeleteRequest \/ DeleteRepository \/ DeleteResources
    \/ DeleteInstances \/ DeleteConfig

\* GET /airflow/:dagId/:dagRunId/logs: a failed task's log, else a running one's;
\* of several, that of the first that Airflow lists.  (A queued task is running here.)
LogTargets ==
    LET in(s) == {t \in Tasks : state[t] = s} IN
    CASE in("failed") # {} -> in("failed")
      [] in("failed") = {} /\ in("running") # {} -> in("running")
      [] OTHER -> Tasks

Next ==
    \/ \E r \in Requests : SendDestroy(r) \/ RemoveRequest(r)
    \/ OtherDagPops
    \/ StartRun \/ EndRun \/ Schedule
    \/ Attempt
    \/ \E t \in Tasks : AttemptDies(t)

Spec == Init /\ [][Next]_vars

\* Airflow starts waiting runs, schedules tasks and carries attempts through.
FairSpec ==
    /\ Spec
    /\ WF_vars(StartRun) /\ WF_vars(EndRun) /\ WF_vars(Schedule)
    /\ WF_vars(GetRequestId) /\ WF_vars(GetRepositoryName)
    /\ WF_vars(BranchResources) /\ WF_vars(CleanupDirectory)
    /\ \A k \in Destroys : WF_vars(TerraformDestroy(k))
    /\ WF_vars(DeleteRequest \/ DeleteRepository \/ DeleteResources
                  \/ DeleteInstances \/ DeleteConfig)

-----------------------------------------------------------------------------
(* Properties.                                                             *)

\* AWS_Destroy: whatever still exists in the cloud keeps its terraform state, so
\* that it can still be destroyed: the directory goes only after every
\* terraform_destroy_* that had work has succeeded (AWS_Destroy.py 335-341, 353).
StateOutlivesInfra == \A r \in Requests : infra[r] \subseteq tfdir[r]

\* AZURE_Destroy: the resource group is taken down last, when none of the
\* instances in it is left (AZURE_Destroy.py 331-346, 375).
GroupLast ==
    active /\ got \in Requests /\ "rg" \in Tasks
        /\ state["rg"] \in {"running", "retry", "success"}
        => infra[got] \cap Kinds = {}

\* If supabase_delete_request succeeds, no row of the request is left in any of
\* the tables, whichever cloud it was and however many attempts it took.
PurgeComplete ==
    active /\ state["delete"] = "success" =>
        got \notin config \cup vms \cup resources \cup repository \cup request

\* The rows of a request never go silently: if they are purged while something of
\* it is still up in the cloud, the log that the API shows of that run is of a
\* task that has itself failed.
LossShows ==
    active /\ state["delete"] = "success" /\ infra[got] # {} =>
        LogTargets # {} /\ \A t \in LogTargets : state[t] = "failed"

\* A run that has started ends, whatever fails in it: with max_active_runs=1 a
\* run that hung would block every later destruction.
RunEnds == active ~> ~active

\* AZURE_Destroy.py 282: "Step 3: Terraform destroy subfolders safely".
SubfoldersDestroyedSafely ==
    \A r \in Requests, k \in Kinds :
        active /\ state[k] = "running" /\ got = r /\ k \in infra[r] => k \in tfdir[r]

\* infrastructure.service.ts 174: "This action destroys ... resources for request".
DestroysResources ==
    \A r \in Requests :
        active /\ got = r /\ state["delete"] = "success" => infra[r] = {}
=============================================================================

---------------------------- MODULE Provisioning ----------------------------
(***************************************************************************)
(* From an approval to running infrastructure.  PATCH /request/:id/status  *)
(* (RequestService.updateRequestInfo) commits the status, creates the      *)
(* GitLab project, and then, without awaiting either, emits the request id *)
(* to the queue `request` and posts a DAG run to Airflow.  The DAG run     *)
(* carries no id: it takes whatever message is at the head of the queue.   *)
(* AWS_Resources and AZURE_Resource_Group share that queue.  A main run    *)
(* starts one child run per kind of instance (the *_provide_* DAGs).       *)
(***************************************************************************)
EXTENDS Naturals, Sequences, FiniteSets

CONSTANTS
    Requests,           \* Request rows, complete and Pending at the start
    CloudOf,            \* Resources.cloudProvider of each request
    ResourcesName,      \* Resources.name of a request, which need not be unique
    Wanted,             \* the kinds of instances in its ResourceConfig
    Patches,            \* PATCH calls
    HandRuns,           \* POST /airflow/:dagId/dagRuns calls (a bound)
    ByHand,             \* requests posted to /rabbitmq/queue, once each (a bound)
    MaxFaults,          \* how many things may go wrong (a bound)
    NoRequest           \* no message

Clouds == {"AWS", "AZURE"}
Kinds == {"vm", "db", "st"}
Statuses == {"Pending", "Approved", "Rejected", "Deleted"}

ASSUME ProvisioningAssumption ==
    /\ CloudOf \in [Requests -> Clouds]
    /\ Wanted \in [Requests -> SUBSET Kinds]
    /\ ByHand \subseteq Requests
    /\ Patches \cap HandRuns = {}
    /\ MaxFaults \in Nat
    /\ NoRequest \notin Requests

\* A main run is named after the call whose trigger started it.
Runs == Patches \cup HandRuns

VARIABLES
    rows,               \* Request rows that still exist
    status,             \* Request.status
    created,            \* requests whose Repository.status is Created
    gitlab,             \* requests whose GitLab project exists
    patch,              \* the PATCH calls
    sending,            \* emitted ids the broker has not received yet
    posting,            \* PATCH calls whose POST to Airflow is under way
    queue,              \* the RabbitMQ queue `request`
    manual,             \* ids posted to /rabbitmq/queue
    run,                \* main runs
    child,              \* provisioning runs, by main run and kind
    infra,              \* what exists in the cloud for a request
    recorded,           \* kinds whose terraformState column is set
    faults              \* faults so far

database == <<rows, status, created>>
backend == <<patch, sending, posting>>
airflow == <<run, child>>
cloud == <<infra, recorded>>
vars == <<database, gitlab, backend, queue, manual, airflow, cloud, faults>>

PatchPcs == {"idle", "read", "project", "mark", "dispatch", "answered", "failed"}
RunPcs == {"unused", "pop", "fetch", "group", "branch", "done", "failed"}
ChildPcs == {"none", "due", "fetch", "apply", "write", "done", "failed"}

TypeOK ==
    /\ rows \in SUBSET Requests
    /\ status \in [Requests -> Statuses]
    /\ created \in SUBSET Requests
    /\ gitlab \in SUBSET Requests
    /\ patch \in [Patches -> [pc : PatchPcs, req : Requests \cup {NoRequest},
                              role : BOOLEAN, sent : BOOLEAN]]
    /\ sending \in Seq(Requests)
    /\ posting \in SUBSET Patches
    /\ queue \in Seq(Requests)
    /\ manual \in SUBSET ByHand
    /\ run \in [Runs -> [pc : RunPcs, dag : Clouds,
                         req : Requests \cup {NoRequest}, tries : 0..1]]
    /\ child \in [Runs -> [Kinds -> [pc : ChildPcs, tries : 0..1]]]
    /\ infra \in [Requests -> SUBSET (Kinds \cup {"rg"})]
    /\ recorded \in [Requests -> SUBSET Kinds]
    /\ faults \in 0..MaxFaults

Init ==
    /\ rows = Requests
    /\ status = [r \in Requests |-> "Pending"]
    /\ created = {}
    /\ gitlab = {}
    /\ patch = [p \in Patches |-> [pc |-> "idle", req |-> NoRequest,
                                   role |-> FALSE, sent |-> FALSE]]
    /\ sending = <<>>
    /\ posting = {}
    /\ queue = <<>>
    /\ manual = {}
    /\ run = [x \in Runs |-> [pc |-> "unused", dag |-> "AWS",
                              req |-> NoRequest, tries |-> 0]]
    /\ child = [x \in Runs |-> [k \in Kinds |-> [pc |-> "none", tries |-> 0]]]
    /\ infra = [r \in Requests |-> {}]
    /\ recorded = [r \in Requests |-> {}]
    /\ faults = 0

Fault == faults < MaxFaults /\ faults' = faults + 1

-----------------------------------------------------------------------------
(* RequestService.updateRequestInfo                                        *)

PatchGoto(p, label) == patch' = [patch EXCEPT ![p].pc = label]

\* request.update commits before anything else is looked at: no status is
\* refused, and no role.  `role`: the token names a role triggerDag accepts.
PatchStatus(p) ==
    /\ patch[p].pc = "idle"
    /\ \E r \in rows, s \in Statuses, role \in BOOLEAN :
        /\ status' = [status EXCEPT ![r] = s]
        /\ patch' = [patch EXCEPT ![p] =
              [pc |-> IF s = "Approved" THEN "read" ELSE "answered",
               req |-> r, role |-> role, sent |-> FALSE]]
    /\ UNCHANGED <<rows, created, gitlab, sending, posting, queue, manual,
                   airflow, cloud, faults>>

\* The row is read again; the Resources and Repository rows always exist here.
PatchRead(p) ==
    /\ patch[p].pc = "read"
    /\ PatchGoto(p, IF patch[p].req \in rows THEN "project" ELSE "failed")
    /\ UNCHANGED <<database, gitlab, sending, posting, queue, manual, airflow,
                   cloud, faults>>

\* Mutant: "has already been taken" is tolerated.
PatchProjectTolerant(p) ==
    /\ patch[p].pc = "project"
    /\ gitlab' = gitlab \cup {patch[p].req}
    /\ PatchGoto(p, "mark")
    /\ UNCHANGED <<database, sending, posting, queue, manual, airflow, cloud, faults>>

\* GitLab refuses a name that is taken, and createProject then throws.
PatchProject(p) ==
    /\ patch[p].pc = "project"
    /\ gitlab' = gitlab \cup {patch[p].req}
    /\ PatchGoto(p, IF patch[p].req \in gitlab THEN "failed" ELSE "mark")
    /\ UNCHANGED <<database, sending, posting, queue, manual, airflow, cloud, faults>>

PatchMark(p) ==
    /\ patch[p].pc = "mark"
    /\ created' = created \cup {patch[p].req}
    /\ PatchGoto(p, "dispatch")
    /\ UNCHANGED <<rows, status, gitlab, sending, posting, queue, manual,
                   airflow, cloud, faults>>

\* Mutant: only one of the two provider branches triggers its DAG.
PatchDispatchAwsOnly(p) ==
    /\ patch[p].pc = "dispatch"
    /\ sending' = Append(sending, patch[p].req)
    /\ posting' = IF patch[p].role /\ CloudOf[patch[p].req] = "AWS"
                  THEN posting \cup {p} ELSE posting
    /\ patch' = [patch EXCEPT ![p] = [pc |-> "answered", req |-> @.req,
                                      role |-> @.role, sent |-> TRUE]]
    /\ UNCHANGED <<database, gitlab, queue, manual, airflow, cloud, faults>>

\* queueRequest and triggerDag, neither awaited.  triggerDag rejects a token
\* without a role: the message is sent all the same.
PatchDispatch(p) ==
    /\ patch[p].pc = "dispatch"
    /\ sending' = Append(sending, patch[p].req)
    /\ posting' = IF patch[p].role THEN posting \cup {p} ELSE posting
    /\ patch' = [patch EXCEPT ![p] = [pc |-> "answered", req |-> @.req,
                                      role |-> @.role, sent |-> TRUE]]
    /\ UNCHANGED <<database, gitlab, queue, manual, airflow, cloud, faults>>

\* An await rejects; GitLab may have created the project all the same.
PatchFails(p) ==
    /\ patch[p].pc \in {"read", "project", "mark"}
    /\ Fault
    /\ PatchGoto(p, "failed")
    /\ \/ gitlab' = gitlab
       \/ patch[p].pc = "project" /\ gitlab' = gitlab \cup {patch[p].req}
    /\ UNCHANGED <<database, sending, posting, queue, manual, airflow, cloud>>

\* The backend process dies, as it does on an unhandled rejection of triggerDag.
BackendCrash ==
    /\ Fault
    /\ patch' = [p \in Patches |->
          IF patch[p].pc \in {"idle", "answered"} THEN patch[p]
          ELSE [patch[p] EXCEPT !.pc = "failed"]]
    /\ sending' = <<>>
    /\ posting' = {}
    /\ UNCHANGED <<database, gitlab, queue, manual, airflow, cloud>>

RemoveRequest(r) ==
    /\ r \in rows
    /\ rows' = rows \ {r}
    /\ UNCHANGED <<status, created, gitlab, backend, queue, manual, airflow,
                   cloud, faults>>

-----------------------------------------------------------------------------
(* RabbitMQ, and the trigger's way to Airflow.                             *)

QueueByHand(r) ==
    /\ r \in ByHand \ manual
    /\ manual' = manual \cup {r}
    /\ sending' = Append(sending, r)
    /\ UNCHANGED <<database, gitlab, patch, posting, queue, airflow, cloud, faults>>

Publish ==
    /\ sending # <<>>
    /\ queue' = Append(queue, Head(sending))
    /\ sending' = Tail(sending)
    /\ UNCHANGED <<database, gitlab, patch, posting, manual, airflow, cloud, faults>>

\* emit() has no error handler: a failed publish is dropped.
PublishFails ==
    /\ sending # <<>>
    /\ Fault
    /\ sending' = Tail(sending)
    /\ UNCHANGED <<database, gitlab, patch, posting, queue, manual, airflow, cloud>>

\* Messages are not persistent.
BrokerRestart ==
    /\ queue # <<>>
    /\ Fault
    /\ queue' = <<>>
    /\ UNCHANGED <<database, gitlab, backend, manual, airflow, cloud>>

StartRun(x, dag) ==
    /\ run[x].pc = "unused"
    /\ run' = [run EXCEPT ![x].pc = "pop", ![x].dag = dag]

TriggerArrives(p) ==
    /\ p \in posting
    /\ posting' = posting \ {p}
    /\ StartRun(p, CloudOf[patch[p].req])
    /\ UNCHANGED <<database, gitlab, patch, sending, queue, manual, child, cloud, faults>>

TriggerFails(p) ==
    /\ p \in posting
    /\ Fault
    /\ posting' = posting \ {p}
    /\ UNCHANGED <<database, gitlab, patch, sending, queue, manual, airflow, cloud>>

TriggerByHand(x) ==
    /\ \E dag \in Clouds : StartRun(x, dag)
    /\ UNCHANGED <<database, gitlab, backend, queue, manual, child, cloud, faults>>

-----------------------------------------------------------------------------
(* The main DAGs.  Each task has one retry.                                *)

RunBecomes(x, pc, req, tries) ==
    run' = [run EXCEPT ![x] = [pc |-> pc, dag |-> @.dag, req |-> req, tries |-> tries]]

RunGoto(x, label) == RunBecomes(x, label, run[x].req, 0)

\* Mutant: auto_ack=False, and no acknowledgement later: the message comes again.
PopUnacked(x) ==
    /\ run[x].pc = "pop"
    /\ IF queue = <<>> THEN RunGoto(x, "fetch") ELSE RunBecomes(x, "fetch", Head(queue), 0)
    /\ UNCHANGED <<database, gitlab, backend, queue, manual, child, cloud, faults>>

\* basic_get with auto_ack: the message is gone whatever happens next.
Pop(x) ==
    /\ run[x].pc = "pop"
    /\ IF queue = <<>>
       THEN RunGoto(x, "fetch") /\ UNCHANGED queue
       ELSE RunBecomes(x, "fetch", Head(queue), 0) /\ queue' = Tail(queue)
    /\ UNCHANGED <<database, gitlab, backend, manual, child, cloud, faults>>

\* "No message received" and "No request found" raise on the retry as well.
Fetch(x) ==
    /\ run[x].pc = "fetch"
    /\ RunGoto(x, IF run[x].req \notin rows THEN "failed"
                  ELSE IF run[x].dag = "AZURE" THEN "group" ELSE "branch")
    /\ UNCHANGED <<database, gitlab, backend, queue, manual, child, cloud, faults>>

\* The Azure DAGs keep one directory, and with it one Terraform state, per
\* Resources.name: the requests that share the one for r's kind k, or for its group.
Beside(r, k) ==
    {q \in Requests \ {r} :
        /\ ResourcesName[q] = ResourcesName[r]
        /\ k = "rg" \/ (CloudOf[q] = "AZURE" /\ CloudOf[r] = "AZURE")}

\* Whether a run has got past reading its request, where it writes its files.
Writes(x, k) ==
    IF k = "rg" THEN run[x].dag = "AZURE" /\ run[x].pc \in {"group", "branch", "done", "failed"}
    ELSE child[x][k].pc \in {"apply", "write", "done", "failed"}

\* The others whose files a run for r may find in place of its own.
Rivals(r, k) == {q \in Beside(r, k) : \E x \in Runs : run[x].req = q /\ Writes(x, k)}

\* An apply of files that describe o: what the state has of the others goes ...
Cleared(r, k, o) ==
    [q \in Requests |-> IF q \in (Beside(r, k) \cup {r}) \ {o} THEN infra[q] \ {k} ELSE infra[q]]

\* ... and what o asks for is made.
Applied(r, k, o) == [Cleared(r, k, o) EXCEPT ![o] = @ \cup {k}]

\* A group goes only while nothing is in it.
GroupsMayGo(r, o) ==
    \A q \in (Beside(r, "rg") \cup {r}) \ {o} :
        "rg" \in infra[q] /\ CloudOf[q] = "AZURE" => infra[q] = {"rg"}

\* terraform apply of the resource group, before anyone asks whose request it is.
\* Azure may or may not accept the region of an AWS request as a location.
ApplyGroup(x) ==
    LET r == run[x].req IN
    /\ run[x].pc = "group"
    /\ \E o \in {r} \cup Rivals(r, "rg") :
        \/ /\ GroupsMayGo(r, o)
           /\ infra' = Applied(r, "rg", o)
           /\ RunGoto(x, "branch")
        \/ /\ CloudOf[o] = "AWS" \/ ~GroupsMayGo(r, o)
           /\ RunGoto(x, "failed")
           /\ UNCHANGED infra
    /\ UNCHANGED <<database, gitlab, backend, queue, manual, child, recorded, faults>>

\* Mutant: a count of instances without regard to the cloud.
CountedAnyCloud(x) == Wanted[run[x].req]

\* A DAG counts only the instance tables of its own cloud.
Counted(x) == IF CloudOf[run[x].req] = run[x].dag THEN Wanted[run[x].req] ELSE {}

\* Mutant: the storage branch is missing.
BranchWithoutStorage(x) ==
    /\ run[x].pc = "branch"
    /\ RunGoto(x, "done")
    /\ child' = [child EXCEPT ![x] =
          [k \in Kinds |-> [pc |-> IF k \in Counted(x) \ {"st"} THEN "due" ELSE "none",
                            tries |-> 0]]]
    /\ UNCHANGED <<database, gitlab, backend, queue, manual, cloud, faults>>

Branch(x) ==
    /\ run[x].pc = "branch"
    /\ RunGoto(x, "done")
    /\ child' = [child EXCEPT ![x] =
          [k \in Kinds |-> [pc |-> IF k \in Counted(x) THEN "due" ELSE "none",
                            tries |-> 0]]]
    /\ UNCHANGED <<database, gitlab, backend, queue, manual, cloud, faults>>

\* A task attempt dies.  get_request_id may have taken its message already,
\* terraform apply may have made the group.
RunFails(x) ==
    /\ run[x].pc \in {"pop", "fetch", "group", "branch"}
    /\ Fault
    /\ RunBecomes(x, IF run[x].tries = 1 THEN "failed" ELSE run[x].pc, run[x].req, 1)
    /\ \/ UNCHANGED <<queue, infra>>
       \/ /\ run[x].pc = "pop" /\ queue # <<>>
          /\ queue' = Tail(queue)
          /\ UNCHANGED infra
       \/ /\ run[x].pc = "group"
          /\ \E o \in {run[x].req} \cup Rivals(run[x].req, "rg") :
                /\ GroupsMayGo(run[x].req, o)
                /\ infra' \in {Cleared(run[x].req, "rg", o), Applied(run[x].req, "rg", o)}
          /\ UNCHANGED queue
    /\ UNCHANGED <<database, gitlab, backend, manual, child, recorded>>

-----------------------------------------------------------------------------
(* The provisioning DAGs, one run per main run and kind.                   *)

ChildGoto(x, k, label) ==
    child' = [child EXCEPT ![x][k] = [pc |-> label, tries |-> 0]]

TriggerChild(x, k) ==
    /\ child[x][k].pc = "due"
    /\ ChildGoto(x, k, "fetch")
    /\ UNCHANGED <<database, gitlab, backend, queue, manual, run, cloud, faults>>

ChildFetch(x, k) ==
    /\ child[x][k].pc = "fetch"
    /\ ChildGoto(x, k, IF run[x].req \in rows THEN "apply" ELSE "failed")
    /\ UNCHANGED <<database, gitlab, backend, queue, manual, run, cloud, faults>>

\* Azure instances are made in the group of the request that the files describe.
ChildApply(x, k) ==
    LET r == run[x].req IN
    /\ child[x][k].pc = "apply"
    /\ \E o \in {r} \cup Rivals(r, k) :
        \/ /\ CloudOf[o] = "AZURE" => "rg" \in infra[o]
           /\ infra' = Applied(r, k, o)
           /\ ChildGoto(x, k, "write")
        \/ /\ CloudOf[o] = "AZURE" /\ "rg" \notin infra[o]
           /\ ChildGoto(x, k, "failed")
           /\ UNCHANGED infra
    /\ UNCHANGED <<database, gitlab, backend, queue, manual, run, recorded, faults>>

ChildWrite(x, k) ==
    /\ child[x][k].pc = "write"
    /\ recorded' = [recorded EXCEPT ![run[x].req] = @ \cup {k}]
    /\ ChildGoto(x, k, "done")
    /\ UNCHANGED <<database, gitlab, backend, queue, manual, run, infra, faults>>

\* Mutant: what terraform apply says is not looked at (`terraform apply || true`).
ChildFailsUnseen(x, k) ==
    /\ child[x][k].pc \in {"due", "fetch", "apply", "write"}
    /\ Fault
    /\ child' = [child EXCEPT ![x][k] =
          [pc |-> IF child[x][k].pc = "apply" THEN "write" ELSE child[x][k].pc, tries |-> 1]]
    /\ UNCHANGED <<database, gitlab, backend, queue, manual, run, cloud>>

\* A task attempt dies, with or without what terraform apply had done so far.
ChildFails(x, k) ==
    /\ child[x][k].pc \in {"due", "fetch", "apply", "write"}
    /\ Fault
    /\ child' = [child EXCEPT ![x][k] =
          [pc |-> IF child[x][k].tries = 1 THEN "failed" ELSE child[x][k].pc,
           tries |-> 1]]
    /\ \/ UNCHANGED infra
       \/ /\ child[x][k].pc = "apply"
          /\ \E o \in {run[x].req} \cup Rivals(run[x].req, k) :
                infra' \in {Cleared(run[x].req, k, o), Applied(run[x].req, k, o)}
    /\ UNCHANGED <<database, gitlab, backend, queue, manual, run, recorded>>

-----------------------------------------------------------------------------
PatchStep(p) == PatchRead(p) \/ PatchProject(p) \/ PatchMark(p) \/ PatchDispatch(p)
RunStep(x) == Pop(x) \/ Fetch(x) \/ ApplyGroup(x) \/ Branch(x)
ChildStep(x, k) == TriggerChild(x, k) \/ ChildFetch(x, k) \/ ChildApply(x, k) \/ ChildWrite(x, k)

System ==
    \/ \E p \in Patches : PatchStep(p) \/ TriggerArrives(p)
    \/ \E x \in Runs : RunStep(x) \/ \E k \in Kinds : ChildStep(x, k)
    \/ Publish

Environment ==
    \/ \E p \in Patches : PatchStatus(p)
    \/ \E r \in Requests : RemoveRequest(r) \/ QueueByHand(r)
    \/ \E x \in HandRuns : TriggerByHand(x)

Faults ==
    \/ \E p \in Patches : PatchFails(p) \/ TriggerFails(p)
    \/ \E x \in Runs : RunFails(x) \/ \E k \in Kinds : ChildFails(x, k)
    \/ BackendCrash \/ PublishFails \/ BrokerRestart

Next == System \/ Environment \/ Faults

Spec == Init /\ [][Next]_vars

\* What the event loop, the broker and the Airflow scheduler keep doing; nobody
\* owes the system a call, and a fault is never owed.
FairSpec ==
    /\ Spec
    /\ \A p \in Patches : WF_vars(PatchStep(p)) /\ WF_vars(TriggerArrives(p))
    /\ \A x \in Runs : WF_vars(RunStep(x)) /\ \A k \in Kinds : WF_vars(ChildStep(x, k))
    /\ WF_vars(Publish)
-----------------------------------------------------------------------------
(* Properties.                                                             *)

Occurrences(seq, r) == Cardinality({i \in DOMAIN seq : seq[i] = r})

\* How often r is on its way to a main run or in the hands of one.
Copies(r) ==
    Occurrences(sending, r) + Occurrences(queue, r)
        + Cardinality({x \in Runs : run[x].req = r})

\* However many PATCH calls approve a request, at the same time or after a crash,
\* it is dispatched once, GitLab's refusal of a taken name being the only guard,
\* and neither dispatched nor built before its project exists and its repository
\* is marked Created: save for ids an operator queued by hand.
DispatchedOnce ==
    \A r \in Requests \ manual :
        /\ Copies(r) <= 1
        /\ Copies(r) > 0 \/ infra[r] # {} => r \in created /\ r \in gitlab

\* A main run that took the message of the other cloud's request starts no
\* provisioning run for it, as it finds no instance in its own tables; so the
\* terraformState column is only ever set for a kind that the request has, and
\* the instances it tells of are there, unless a run for another Azure request of
\* the same Resources.name came to their directory.
BuiltByOwnCloud ==
    /\ \A x \in Runs, k \in Kinds :
        child[x][k].pc # "none" => CloudOf[run[x].req] = run[x].dag
    /\ \A r \in Requests : \A k \in recorded[r] :
        k \in Wanted[r] /\ (k \in infra[r] \/ Rivals(r, k) # {})

\* Once everything sent has arrived and every run has asked the queue, a message
\* that is still there is owed to a run that came too early, to a token without
\* a role, or to an operator: nothing else strands a request while nothing fails.
StrandedHasACause ==
    /\ faults = 0
    /\ sending = <<>>
    /\ posting = {}
    /\ \A x \in Runs : run[x].pc # "pop"
    => Len(queue) <=
           Cardinality({x \in Runs : run[x].pc # "unused" /\ run[x].req = NoRequest})
         + Cardinality({p \in Patches : patch[p].sent /\ ~patch[p].role})
         + Cardinality(manual)

\* A request whose message a run of its own cloud has taken is built and recorded
\* in full, unless its row is removed or a task fails its retry.
TakenIsBuilt ==
    \A x \in Runs, r \in Requests :
        run[x].req = r /\ run[x].dag = CloudOf[r] ~>
            \/ Wanted[r] \subseteq recorded[r]
            \/ r \notin rows
            \/ run[x].pc = "failed"
            \/ \E k \in Kinds : child[x][k].pc = "failed"

\* Provisioning keeps the promises of the dispatch ledger for every request that
\* no operator queues by hand, whatever is done with the others: its message is
\* on its way from the call that sent it to the one run that holds it, or lost for
\* good.  What it says of building and recording is kept where no other request has
\* the Resources.name.  No project is deleted here; Lifecycle has what follows when
\* one is.
Own == Requests \ ByHand
Placed == {r \in Own : Beside(r, "rg") = {}}

Dispatch == INSTANCE DispatchLedger WITH
    Requests <- Own,
    asked <- {r \in Own : \E p \in Patches : patch[p].sent /\ patch[p].req = r},
    waiting <- {r \in Own : Occurrences(sending, r) + Occurrences(queue, r) > 0},
    held <- [x \in Runs |-> IF run[x].req \in Own THEN run[x].req ELSE NoRequest],
    built <- [r \in Placed |-> infra[r]],
    recorded <- [r \in Placed |-> recorded[r]]

RefinesDispatch == Dispatch!LedgerSpec

\* request-status.dto.ts 12: "status must be Approved or Rejected".
StatusIsApprovedOrRejected ==
    [][\A r \in Requests :
          status'[r] # status[r] => status'[r] \in {"Approved", "Rejected"}]_vars

\* rabbitmq.service.ts 15: "Queue Request queued successfully".
QueuedSuccessfully ==
    \A r \in Requests :
        r \in manual ~>
            Occurrences(queue, r) > 0 \/ \E x \in Runs : run[x].req = r
=============================================================================

---------------------------- MODULE TerraformDir ----------------------------
(***************************************************************************)
(* The six *_terraform_*_provision DAGs, task by task, through what their  *)
(* runs share: a directory per project name with the Terraform files, the  *)
(* ssh key and the Terraform state.  `dag` says which of the six DAGs the  *)
(* runs belong to; the DAGs keep to different subdirectories, so only runs *)
(* of one DAG meet.  Each task has one retry; a task that touches what     *)
(* others use more than once takes a step each time.  The text of the      *)
(* files is reduced to whose instances they describe.                      *)
(***************************************************************************)
EXTENDS Naturals, FiniteSets

CONSTANTS
    Runs,               \* DAG runs
    Requests,           \* requests, each with instance rows of the DAG's kind
    ResourcesName,      \* Resources.name of a request, which need not be unique
    MaxFaults,          \* attempts that die (a bound)
    None

Aws == {"AWS_vm", "AWS_db", "AWS_st"}
Vm == {"AWS_vm", "AZURE_vm"}
Dags == Aws \cup {"AZURE_vm", "AZURE_db", "AZURE_st"}

VARIABLES
    dag,                \* the DAG
    request,            \* dag_run.conf["request_id"] of each run
    pc,                 \* the step each run is at
    tries,              \* failed attempts at that task
    tfvars,             \* whose instances *.auto.tfvars names, with which suffix
    pemFile, pubFile,   \* the attempts that made the key halves *.pem and *.pub
    mains,              \* the *.tf files that hold a terraform block
    applied,            \* terraform.tfstate, which is what exists in the cloud
    recorded,           \* column terraformState of a request's instance rows
    pem,                \* column pem of its virtual machine rows
    plan,               \* what a terraform apply that has begun will leave
    state, pemText,     \* what a write_to_db under way has read
    faults,             \* attempts that have died
    rekeyed,            \* history: a key was made over the key of existing instances
    crossed,            \* history: directories where two runs made keys at once
    overtaken           \* history: requests with a state read before another run's apply

files == <<tfvars, mains>>
keys == <<pemFile, pubFile>>
rows == <<recorded, pem>>
local == <<plan, state, pemText>>
history == <<rekeyed, crossed, overtaken>>
shared == <<keys, files, applied, rows, history>>
vars == <<dag, request, pc, tries, shared, local, faults>>

\* Attempts are told apart by their run and by the failures before them.
Attempts == Runs \X {0, 1}
TfVars == [req : Requests, suffix : Attempts \cup {None}]
Instances == [req : Requests, stamp : Attempts]

ASSUME TerraformAssumption ==
    /\ MaxFaults \in Nat
    /\ None \notin Attempts \cup TfVars \cup Instances

Attempt(x) == <<x, tries[x]>>

\* main.tf, the file whose name carries no time stamp.
Unstamped == <<None, 0>>

-----------------------------------------------------------------------------
(* Directories.                                                            *)

\* Mutant: the AWS DAGs name the directory like the Azure ones.
RepositoryDirUnowned(r) == ResourcesName[r]

\* The AWS DAGs use Repository.name, which is unique.
RepositoryDir(r) == r

\* The Azure DAGs use Resources.name.
ResourcesDir(r) == ResourcesName[r]

DirOf(r) == IF dag \in Aws THEN RepositoryDir(r) ELSE ResourcesDir(r)
Dir(x) == DirOf(request[x])

Dirs == Requests \cup {ResourcesName[r] : r \in Requests}

Users(d) == {x \in Runs : Dir(x) = d}

\* Two terraform blocks with the same providers, outputs and resources.
Clash(d) == Cardinality(mains[d]) > 1

\* The state lock, which a terraform apply holds from its plan to its end.
Locked(d) == \E x \in Users(d) : pc[x] = "applying"

Steps == {"fetch", "dir", "key", "pub", "files", "init", "apply", "applying",
          "write", "update", "commit", "done", "failed"}

TypeOK ==
    /\ dag \in Dags
    /\ request \in [Runs -> Requests]
    /\ pc \in [Runs -> Steps]
    /\ tries \in [Runs -> {0, 1}]
    /\ tfvars \in [Dirs -> TfVars \cup {None}]
    /\ pemFile \in [Dirs -> Attempts \cup {None}]
    /\ pubFile \in [Dirs -> Attempts \cup {None}]
    /\ mains \in [Dirs -> SUBSET (Attempts \cup {Unstamped})]
    /\ applied \in [Dirs -> Instances \cup {None}]
    /\ recorded \in [Requests -> Instances \cup {None}]
    /\ pem \in [Requests -> Attempts \cup {None}]
    /\ plan \in [Runs -> Instances \cup {None}]
    /\ state \in [Runs -> Instances \cup {None}]
    /\ pemText \in [Runs -> Attempts \cup {None}]
    /\ faults \in 0..MaxFaults
    /\ rekeyed \in [Dirs -> BOOLEAN]
    /\ crossed \in [Dirs -> BOOLEAN]
    /\ overtaken \in SUBSET Requests

Init ==
    /\ dag \in Dags
    /\ request \in [Runs -> Requests]
    /\ pc = [x \in Runs |-> "fetch"]
    /\ tries = [x \in Runs |-> 0]
    /\ tfvars = [d \in Dirs |-> None]
    /\ pemFile = [d \in Dirs |-> None] /\ pubFile = [d \in Dirs |-> None]
    /\ mains = [d \in Dirs |-> {}]
    /\ applied = [d \in Dirs |-> None]
    /\ recorded = [r \in Requests |-> None]
    /\ pem = [r \in Requests |-> None]
    /\ plan = [x \in Runs |-> None]
    /\ state = [x \in Runs |-> None]
    /\ pemText = [x \in Runs |-> None]
    /\ faults = 0
    /\ rekeyed = [d \in Dirs |-> FALSE]
    /\ crossed = [d \in Dirs |-> FALSE]
    /\ overtaken = {}

-----------------------------------------------------------------------------
(* The tasks: what one attempt at each of them does, step by step.         *)

Fetch(x) == pc[x] = "fetch" /\ UNCHANGED <<shared, local>>

\* os.makedirs(exist_ok=True): whatever is there stays there.
CreateDirectory(x) == pc[x] = "dir" /\ UNCHANGED <<shared, local>>

\* Half a key is written while instances exist or are being made.
Rekeys(d) == rekeyed' = [rekeyed EXCEPT ![d] = @ \/ applied[d] # None \/ Locked(d)]

\* generate_ssh_key writes the private half, then the public half.
WritePem(x) ==
    /\ pc[x] = "key"
    /\ pemFile' = [pemFile EXCEPT ![Dir(x)] = Attempt(x)]
    /\ crossed' = [crossed EXCEPT ![Dir(x)] = @ \/ \E y \in Users(Dir(x)) : pc[y] = "pub"]
    /\ Rekeys(Dir(x))
    /\ UNCHANGED <<pubFile, files, applied, rows, overtaken, local>>

WritePub(x) ==
    /\ pc[x] = "pub"
    /\ pubFile' = [pubFile EXCEPT ![Dir(x)] = Attempt(x)]
    /\ Rekeys(Dir(x))
    /\ UNCHANGED <<pemFile, files, applied, rows, crossed, overtaken, local>>

Describe(x, suffix) ==
    tfvars' = [tfvars EXCEPT ![Dir(x)] = [req |-> request[x], suffix |-> suffix]]

MainTf(x) == mains' = [mains EXCEPT ![Dir(x)] = {Unstamped}]

\* A file named after the current second.  A retry starts minutes later; another
\* run may have written its file in the same second, which is then overwritten.
StampedMain(x) ==
    \E name \in {Attempt(x)} \cup {m \in mains[Dir(x)] : m[1] # x} :
        mains' = [mains EXCEPT ![Dir(x)] = @ \cup {name}]

WriteAwsVm(x) == dag = "AWS_vm" /\ Describe(x, None) /\ MainTf(x)

\* Mutant: AWS databases get a main file per attempt as well.
WriteAwsDbStamped(x) == dag = "AWS_db" /\ Describe(x, None) /\ StampedMain(x)

WriteAwsDb(x) == dag = "AWS_db" /\ Describe(x, None) /\ MainTf(x)

\* Every attempt draws a new suffix for the bucket names.
WriteAwsSt(x) == dag = "AWS_st" /\ Describe(x, Attempt(x)) /\ MainTf(x)

WriteAzureVm(x) == dag = "AZURE_vm" /\ Describe(x, None) /\ MainTf(x)

\* Existing tfvars and variables files are kept.
WriteAzureDb(x) ==
    /\ dag = "AZURE_db"
    /\ IF tfvars[Dir(x)] = None THEN Describe(x, None) ELSE UNCHANGED tfvars
    /\ StampedMain(x)

WriteAzureSt(x) == dag = "AZURE_st" /\ Describe(x, None) /\ StampedMain(x)

WriteFiles(x) ==
    /\ pc[x] = "files"
    /\ \/ WriteAwsVm(x) \/ WriteAwsDb(x) \/ WriteAwsSt(x)
       \/ WriteAzureVm(x) \/ WriteAzureDb(x) \/ WriteAzureSt(x)
    /\ UNCHANGED <<keys, applied, rows, history, local>>

TerraformInit(x) == pc[x] = "init" /\ ~Clash(Dir(x)) /\ UNCHANGED <<shared, local>>

\* What Terraform does of the planned changes: for_each is keyed by row ids (by
\* the bucket name for AWS_st), so instances of another request are replaced,
\* and with a new suffix so is the bucket.  A new public key replaces an Azure
\* virtual machine, and only the key pair next to an AWS one.
Built(x) ==
    LET d == Dir(x)
        kept == applied[d] # None /\ applied[d].req = tfvars[d].req
    IN [req |-> tfvars[d].req,
        stamp |-> IF dag = "AWS_st" THEN tfvars[d].suffix
                  ELSE IF dag = "AZURE_vm" \/ (dag = "AWS_vm" /\ ~kept) THEN pubFile[d]
                  ELSE IF kept THEN applied[d].stamp ELSE Attempt(x)]

ApplyBegins(x) ==
    /\ pc[x] = "apply"
    /\ ~Clash(Dir(x)) /\ ~Locked(Dir(x))
    /\ plan' = [plan EXCEPT ![x] = Built(x)]
    /\ UNCHANGED <<shared, state, pemText>>

ApplyEnds(x) ==
    /\ pc[x] = "applying"
    /\ applied' = [applied EXCEPT ![Dir(x)] = plan[x]]
    /\ plan' = [plan EXCEPT ![x] = None]
    /\ overtaken' = overtaken \cup
          {request[y] : y \in {z \in Runs \ {x} :
                                 request[z] = request[x] /\ pc[z] \in {"update", "commit"}}}
    /\ UNCHANGED <<keys, files, rows, rekeyed, crossed, state, pemText>>

\* write_to_db reads terraform.tfstate ...
ReadState(x) ==
    /\ pc[x] = "write"
    /\ state' = [state EXCEPT ![x] = applied[Dir(x)]]
    /\ UNCHANGED <<shared, plan, pemText>>

\* ... updates the rows of the run's own request, which another transaction may
\* hold, and reads the .pem files ...
UpdateRows(x) ==
    /\ pc[x] = "update"
    /\ \A y \in Runs : pc[y] = "commit" => request[y] # request[x]
    /\ pemText' = [pemText EXCEPT ![x] = pemFile[Dir(x)]]
    /\ UNCHANGED <<shared, plan, state>>

\* Mutant: a pem that is already there is left alone.
CommitRowsPemOnce(x) ==
    /\ pc[x] = "commit"
    /\ recorded' = [recorded EXCEPT ![request[x]] = state[x]]
    /\ pem' = [pem EXCEPT ![request[x]] = IF @ = None THEN pemText[x] ELSE @]
    /\ state' = [state EXCEPT ![x] = None] /\ pemText' = [pemText EXCEPT ![x] = None]
    /\ UNCHANGED <<keys, files, applied, history, plan>>

\* Mutant: a state that is already recorded is left alone.
CommitRowsFirst(x) ==
    /\ pc[x] = "commit"
    /\ recorded' = [recorded EXCEPT ![request[x]] = IF @ = None THEN state[x] ELSE @]
    /\ pem' = [pem EXCEPT ![request[x]] = pemText[x]]
    /\ state' = [state EXCEPT ![x] = None] /\ pemText' = [pemText EXCEPT ![x] = None]
    /\ UNCHANGED <<keys, files, applied, history, plan>>

\* ... and commits both.
CommitRows(x) ==
    /\ pc[x] = "commit"
    /\ recorded' = [recorded EXCEPT ![request[x]] = state[x]]
    /\ pem' = [pem EXCEPT ![request[x]] = pemText[x]]
    /\ state' = [state EXCEPT ![x] = None] /\ pemText' = [pemText EXCEPT ![x] = None]
    /\ UNCHANGED <<keys, files, applied, history, plan>>

Act(x) ==
    \/ Fetch(x) \/ CreateDirectory(x) \/ WritePem(x) \/ WritePub(x) \/ WriteFiles(x)
    \/ TerraformInit(x) \/ ApplyBegins(x) \/ ApplyEnds(x)
    \/ ReadState(x) \/ UpdateRows(x) \/ CommitRows(x)

-----------------------------------------------------------------------------
(* The chain fetch_task >> ... >> write_to_db.                             *)

After ==
    [t \in Steps \ {"done", "failed"} |->
        CASE t = "fetch" -> "dir" [] t = "dir" -> IF dag \in Vm THEN "key" ELSE "files"
          [] t = "key" -> "pub" [] t = "pub" -> "files" [] t = "files" -> "init"
          [] t = "init" -> "apply" [] t = "apply" -> "applying" [] t = "applying" -> "write"
          [] t = "write" -> "update" [] t = "update" -> "commit" [] t = "commit" -> "done"]

\* The first step of the task that a step belongs to.
Restart(t) ==
    IF t = "pub" THEN "key" ELSE IF t = "applying" THEN "apply"
    ELSE IF t \in {"update", "commit"} THEN "write" ELSE t

Running(x) == pc[x] \notin {"done", "failed"}

\* An attempt gets on; at a new task the retries are counted anew.
Succeeds(x) ==
    /\ Act(x)
    /\ pc' = [pc EXCEPT ![x] = After[@]]
    /\ tries' = [tries EXCEPT ![x] = IF Restart(After[pc[x]]) = After[pc[x]] THEN 0 ELSE @]
    /\ UNCHANGED <<dag, request, faults>>

\* Mutant: no retries.
AttemptFailsForGood(x) == pc' = [pc EXCEPT ![x] = "failed"] /\ UNCHANGED tries

\* Mutant: retries without end.
AttemptFailsUnbounded(x) ==
    pc' = [pc EXCEPT ![x] = Restart(@)] /\ tries' = [tries EXCEPT ![x] = @ + 1]

\* retries: 1.
AttemptFails(x) ==
    IF tries[x] = 0
    THEN pc' = [pc EXCEPT ![x] = Restart(@)] /\ tries' = [tries EXCEPT ![x] = 1]
    ELSE pc' = [pc EXCEPT ![x] = "failed"] /\ UNCHANGED tries

\* What an attempt held in memory is gone, a lock and a transaction with it.
Forgets(x) ==
    /\ plan' = [plan EXCEPT ![x] = None]
    /\ state' = [state EXCEPT ![x] = None]
    /\ pemText' = [pemText EXCEPT ![x] = None]
    /\ UNCHANGED shared

\* An attempt dies in the middle, or when it has done everything.
Dies(x) ==
    /\ faults < MaxFaults
    /\ Running(x)
    /\ Forgets(x) \/ WritePub(x) \/ WriteFiles(x) \/ ApplyEnds(x) \/ CommitRows(x)
    /\ AttemptFails(x)
    /\ faults' = faults + 1
    /\ UNCHANGED <<dag, request>>

\* terraform refuses a directory with duplicate blocks; and an apply, which has no
\* -lock-timeout, does not wait for the lock.
Refused(x) ==
    /\ \/ pc[x] \in {"init", "apply"} /\ Clash(Dir(x))
       \/ pc[x] = "apply" /\ Locked(Dir(x))
    /\ AttemptFails(x)
    /\ UNCHANGED <<dag, request, shared, local, faults>>

Next == \E x \in Runs : Succeeds(x) \/ Dies(x) \/ Refused(x)

Spec == Init /\ [][Next]_vars

\* Airflow goes on scheduling the tasks of a run; no attempt has to die.
FairSpec == Spec /\ \A x \in Runs : WF_vars(Succeeds(x) \/ Refused(x))

-----------------------------------------------------------------------------
(* Properties.                                                             *)

Settled(d) == Users(d) # {} /\ \A x \in Users(d) : pc[x] = "done"

\* When all runs in a directory are through, the key that the rows of the
\* existing machines offer for download is the key that opens them.  The
\* exceptions are a directory where two runs made their keys at once, and a key
\* made over an AWS machine, which keeps its own.
PemOpens ==
    \A d \in Dirs :
        (/\ dag \in Vm
         /\ Settled(d)
         /\ ~crossed[d]
         /\ ~(dag = "AWS_vm" /\ rekeyed[d]))
            => pem[applied[d].req] = applied[d].stamp

\* When all runs in a directory are through, the request whose instances exist
\* has their current Terraform state in its rows, however the runs interleaved:
\* unless it has two runs, one of which had read the state before the other's
\* apply ended.  (AZURE_db keeps the first run's tfvars and is no exception.)
RecordIsCurrent ==
    \A d \in Dirs :
        Settled(d) /\ applied[d].req \notin overtaken => recorded[applied[d].req] = applied[d]

\* A run that failed has used up its retry on two attempts that died, or found
\* a directory with two main files, which only the two Azure DAGs that stamp
\* them leave, through a retry or a second run; or the state lock refused it, and
\* then another run of the directory has got at least to its apply.
FailureHasACause ==
    \A x \in Runs :
        pc[x] = "failed" =>
            \/ faults >= 2
            \/ /\ dag \in {"AZURE_db", "AZURE_st"}
               /\ Clash(Dir(x))
               /\ faults >= 1 \/ Users(Dir(x)) # {x}
            \/ \E y \in Users(Dir(x)) :
                   pc[y] \in {"apply", "applying", "write", "update", "commit", "done"}

\* A request's rows hold the state of another request's instances only for Azure
\* requests of the same Resources.name.
OwnState ==
    \A r \in Requests :
        recorded[r] # None =>
            \/ recorded[r].req = r
            \/ dag \notin Aws /\ ResourcesName[r] = ResourcesName[recorded[r].req]

\* A single attempt that dies costs nothing, and the state lock does not refuse
\* everyone: of the runs in a directory one gets to the end of its DAG, unless
\* there are two main files.
RetryHeals ==
    \A d \in Dirs :
        <>(\/ Users(d) = {} \/ \E x \in Users(d) : pc[x] = "done"
           \/ Clash(d) \/ faults > 1)
=============================================================================

# Orchestronic backend: TLA+ models, model checking and proofs

Orchestronic lets developers ask for cloud infrastructure. A NestJS backend
stores a *request* (repository, resources, virtual machines, databases, storage)
in PostgreSQL through Prisma; when an IT user approves it, the backend creates a
GitLab project, puts the request's id on a RabbitMQ queue and triggers an Airflow
DAG, which takes the id from the queue and runs Terraform. Destroying a request
goes the same way through a second queue and two more DAGs, which at the end
delete the rows. Paths below are relative to the repository.

## 1. Inventory

| Component | State | Operations | Talks to |
|---|---|---|---|
| **Schema** `prisma/schema.prisma` | tables Request → Repository → Resources → ResourceConfig → instance tables; unique `Repository.name`, `Request.displayCode`; `onDelete: Cascade` everywhere but on `AwsVMInstance` (RESTRICT) | insert, delete, cascade | everything |
| **Request creation** `src/request/request.service.ts` 77-311, `src/repositories/repositories.service.ts` 83-167 | the rows, and what a handler holds between two awaits | `createRequestAzure`, `createRequestAws`, `createRepositoryAzure` | database |
| **Request decision** `request.service.ts` 313-387, 454-459 | `Request.status`, `Repository.status` | `updateRequestInfo`, `removeRequest` | database, GitLab, RabbitMQ, Airflow |
| **RabbitMQ gateway** `src/rabbitmq/` | queues `request` and `destroy` | `queueRequest`, `destroyRequest`, both fire and forget | broker |
| **Airflow gateway** `src/airflow/` | none | `triggerDag` (no configuration is passed: the DAG run does not know its request), `getPipelineLogs` (the log of one task of a run) | Airflow |
| **Main DAGs** `dags/AWS_Resources.py`, `dags/AZURE_Resource_Group.py` | message taken, terraform directory, resource group | take message, read request, apply group, branch, trigger child DAGs | queue `request`, database, Azure |
| **Provisioning DAGs** `dags/A*_provide_*.py` | terraform directory and state, cloud resources, `terraformState` and `pem` columns | fetch, directory, ssh key, files, init, apply, write back | database, clouds |
| **Destroy request** `src/infrastructure/infrastructure.service.ts` 117-175 | none | find and delete the GitLab project, queue, trigger | GitLab, RabbitMQ, Airflow |
| **Destroy DAGs** `dags/AWS_Destroy.py`, `dags/AZURE_Destroy.py` | as above, in reverse | terraform destroy, remove directory, delete rows | queue `destroy`, clouds, database |
| **GitLab sync** `src/gitlab/gitlab-sync.service.ts` | two snapshots | delete projects unknown to the database and rows unknown to GitLab | GitLab, database |
| **GitLab projects** `src/gitlab/gitlab.service.ts` | the projects | create, find by name, delete; also by hand over `/gitlab` | GitLab |
| **Sessions** `src/auth/`, **users** `src/user/` | two JWT cookies per browser, `User.role` | test and Azure login, refresh, logout, change of role; every list a token filters | database |
| **Policies** `src/aws-policy/`, `src/azure-policy/` | six tables | create a row, update all rows, read any row | database |
| **Secrets** `src/cloud/` | cloud credentials of a user | create, update, delete, read | database |
| **Catalogue** `src/cloud-providers/`, `src/resource/`, `request.service.ts` 487-569 | seeded tables | three paginated lists, look-ups | database |
| **Dashboard** `infrastructure.service.ts` 24-107 | none | twelve counts | database |

What is hard in it: no handler uses a transaction, so every `await` is a point
where other handlers, the sync or a crash come in between; the message and the
DAG run that should take it travel separately; the queues are shared by the DAGs
of both clouds; messages are acknowledged when they are taken, and tasks are
retried; a destroy DAG decides by trigger rules what may be removed before what.
PROJECT.json lists each of these hazards at its line with the properties aimed at it.

What makes each part correct:
- *creation*: a name and a display code belong to one row, the next code is free,
  a refused call leaves nothing, a call is always answered;
- *decision and dispatch*: a request is dispatched at most once, never before its
  GitLab project exists, and what is not taken from the queue has a known cause;
- *provisioning*: instances are built by the DAGs of their own cloud, recorded
  only when they exist or another request's run came to their directory, and built
  in full unless something visibly fails;
- *destruction*: what still exists can still be destroyed, the group goes last,
  a successful purge is complete, a loss is never silent, a run ends;
- *sync*: neither side loses what the other still needs, and an undisturbed sync
  reconciles them; *lifecycle*: what a purge leaves behind, what is built
  twice and what loses its project without a teardown has a known cause;
- *sessions*: a demotion takes effect within the lifetime of a token, both cookies
  belong to one user, a list shows nobody else's rows; *settings*: an update is
  what is read, a secret changes by its owner's sessions only; *dashboard* and *catalogue*: answers put together from several
  queries add up, or differ by no more than what changed in between.

## 2. Modules

| Module | Models | Kind |
|---|---|---|
| `Schema` | the tables, their deletions with cascade and RESTRICT | state shared by the others |
| `NameLedger` | what creation promises: names are held by one call, only holders publish | abstract specification |
| `RequestCreation` | the three create handlers, one action per awaited call; `removeRequest`; the sync's deletions | component |
| `RequestCreationProofs` | its theorems | proofs |
| `DispatchLedger` | what provisioning promises: asked once, taken once or lost, built by the taker | abstract specification |
| `Provisioning` | `updateRequestInfo`, RabbitMQ, the triggers, the two main DAGs, the provisioning DAGs | composition |
| `ProvisioningProofs` | its theorems | proofs |
| `AirflowDag` | one run of a DAG: trigger rules, retries, upstream failure, skipping | external (Airflow 2.10) |
| `DestroyDag` | the two destroy DAGs on `AirflowDag` and `Schema` | component, `Dag` chooses which |
| `DestroyDagProofs` | its theorems | proofs |
| `TerraformDir` | the six provisioning DAGs, task by task, through the directory their runs share | component, `dag` chosen in `Init` |
| `TerraformDirProofs` | its theorems | proofs |
| `Lifecycle` | approval, `infrastrutureDestroy` and the sync, await by await, over the database, GitLab and the cloud | composition |
| `LifecycleProofs` | its theorems | proofs |
| `Session` | users, tokens, cookies, and what the lists show to a token | component |
| `SessionProofs` | its theorems | proofs |
| `Settings` | policies and secrets, changed by sessions; implements `Session` | component |
| `SettingsProofs` | that it does, and its theorems | proofs |
| `Dashboard` | `findAll` of the infrastructure service under changes | component |
| `Catalogue` | the paginated lists, walked page by page | component |
| `MC*` | values for TLC; `MCBackend` also joins the last four | model checking |
| `BackendProofs` | theorems about `Dashboard` and `Catalogue`, and about the four joined by `MCBackend` | proofs |

Operators whose comment begins with *Mutant* are not part of a model: each is a
plausible bug in the definition after it, and PROJECT.json names the property
that TLC finds violated when the bug is put in its place.

### RequestCreation
`pc[c]` names the database call that call `c` is about to make. `Bodies` are what the
validation lets through: the DTOs of the request handlers document the nested
`repository` and do not validate it, so a body may lack the name, and the call then
ends at the look-up, which Prisma rejects (`FindNameless`). `config`,
`resources`, `repository`, `request` and `vms` are the tables; a row is named by
the call that inserted it. `pending` is `lastNumber + 1` between the read
(158-165, 275-282) and the insert; `clock` and `createdAt` give the order the
database saw. `raced` is a history variable: a request was deleted while some
call held a pending number. That case is real and really breaks the display
codes (without the premise TLC violates `NextCodeFree` with three calls: two
codes exist, a third call holds number 3, request 2 is deleted, a fourth reads
1), so the properties about codes are stated outside it. `Fail` covers a
rejected promise and the death of the process at any await. Abstracted: bodies
(a name and the handler), users and collaborators (found or not), the read of
the latest of several rows of one time stamp (the clock ticks per row).

### Provisioning
`patch[p]` is a PATCH call of `updateRequestInfo`, `sending` the ids emitted and not
yet at the broker, `posting` the calls whose POST to Airflow is under way, `queue` the
queue `request`, `run[x]` the main runs, `child[x][k]` the provisioning run for
instance kind `k`. `manual` records the ids an operator posted to `/rabbitmq/queue`.
`infra` is what exists in the cloud and `recorded` what the database knows of it. A
status may be set from any status, by any token; `role` says whether `triggerDag`
accepts the token. A fault is a failing await (with GitLab having acted or not), a
crash of the backend, a lost publish, a broker restart, a lost trigger or a task
attempt that dies with or without its effect; each task has one retry. The Azure DAGs
keep one directory, and one Terraform state, per `Resources.name`: `Beside` are the
requests that share it, `Rivals` those whose runs have come to it, and an apply may
find the files of any of them in place of its own, make what these describe and remove
what the state has of the others (`Applied`, `Cleared`). TerraformDir has the file,
key and lock races behind that choice; here a rival is a possible author of the files
from the moment its run has read its request, also of a run that failed before it
wrote any. What makes a run fail only beside another in its directory (two main files,
the state lock) is left to TerraformDir. `Dispatch` maps it to the ledger: what was
`asked` are the calls that have sent, `waiting` is what is in `sending` or `queue`,
`held` what a main run has taken. Only requests that no operator queues by hand are in
the ledger, since a message by hand is a second one of the same id; the others share
queue and runs with them. Its clauses on building and recording are about the requests
that nobody shares a `Resources.name` with (`Placed`); for the others
`BuiltByOwnCloud` says what is left.

### DestroyDag
`Tasks`, `Upstream`, `Rule` and `Retries` are read off the two DAG definitions.
`infra` is what exists, `tfdir` what the directory at the request's path keeps
terraform state of, `purge` the next statement of `supabase_delete_request`.
`GroupNamed` says for which Azure requests `Resources.name` happens to be `rg-` and
the repository's name: only there does AZURE_Destroy find the directory that
AZURE_provide_* made. Messages may be taken by the other cloud's DAG and a
request may be removed meanwhile. `AirflowDag` carries the rule that matters
most: a task whose rule can no longer be met is `upstream_failed` at once, while
other upstream tasks still run; only `all_done` waits. `LogTargets` is the choice
of the log that `getPipelineLogs` shows of a run.

### TerraformDir
Runs meet in a directory: the second run of a retried trigger or of a message queued
by hand, or, on Azure, the run of another request with the same `Resources.name`
(`ResourcesDir`; the AWS DAGs use the unique `Repository.name`, `RepositoryDir`). `pc`
and `tries` are a run's step and its failed attempts at the task; a task that touches
what others use more than once is several steps, and a retry starts at the first of
them (`Restart`). `tfvars`, `mains`, `pemFile`, `pubFile` and `applied` are what a
directory holds: whose instances the files describe, the files with a terraform block,
the attempts that made the two halves of the key, and the Terraform state. `recorded`
and `pem` are the columns `write_to_db` fills; `plan`, `state` and `pemText` what an
attempt has in memory: an apply's plan, and what `write_to_db` has read when it
updates the rows and commits. The write tasks differ in what they overwrite: AWS_st
draws a new bucket suffix, AZURE_db keeps the tfvars it finds, AZURE_db and AZURE_st
add a main file named after the current second, and two of these make Terraform refuse
the directory. `Built` is Terraform's plan, read off the resource blocks: `for_each`
over row ids replaces another request's instances, a new public key replaces an Azure
machine but only the key pair next to an AWS one, and an instance that is already
there is kept. An apply holds the state lock from its plan to its end, and as none is
given a `-lock-timeout`, another one is refused at once (`Locked`, `Refused`) and may
use up its retry on it: a refusal costs no fault.

The exceptions that the properties name are histories. `rekeyed`: a key was made over
the key of existing machines (an AWS machine keeps its old one). `crossed`: two runs
made their keys at once, so the halves may not belong together. `overtaken`: of two
runs for one request, one had read the state when the other's apply ended, and may
write the old state last. Each is needed: without it TLC violates the property with two
runs. Simplifications: the several files of a write task are one step (an
attempt that dies between two of them is an attempt that dies before or after, and a
run that reads them half-written fails there as a lost attempt does); an apply is
all or nothing (Provisioning has the half-done ones); an attempt that dies takes its
terraform process and its lock along; the machines of a request have one key pair
between them; locks are refused without regard to how long they are held, so a
retry after the delay may be refused again or not. Rows are not deleted meanwhile: that,
too, is in Provisioning.

### Lifecycle
A repository lives in the database, in GitLab and in the cloud, and three handlers
change two of the three each. `row[n]` and `project[n]` are the row and the project
that hold the name `n` (ids grow, 0 is none); `created` the rows with status Created;
`patch`, `destroy` and `sync` what each call holds between two awaits: a PATCH its
request and repository, a destroy call the request and the project id that it found by
name, a sync the page it fetched and its two lists. `infra[r]` is what the cloud has
for a row, `teardown[r]` the destroy run. What other modules have in detail is one
step here: creation (RequestCreation), queue, trigger and provisioning (Provisioning,
TerraformDir), the tasks of a destroy run (DestroyDag). A destroy call looks for the
project in one page of a search, and may miss it (`DestroyFind`); it then sends
message and trigger without awaiting either (`DestroySend`): the message may not
arrive, or the trigger not start a run, and the message then waits for the run of
another call. A destroy run purges the rows whether Terraform removed the instances or
failed (`TeardownRuns`, `Purge`). `PageSize` stands for GitLab's page of 20: the sync
asks for no second one. `Upset` is an await that rejects, or a use of POST `/gitlab`
and DELETE `/gitlab/:id`. `events` and `stirred` are history variables: what happened
to a row (`unsent`: its destroy message or trigger got lost; `kept`: Terraform failed
to remove its instances), and which syncs something disturbed; the properties name the
causes with them.

### Session and Settings
`access` and `refresh` are a browser's cookies, with the tick of their signature
(`age`; the cookie lives as long as its token). A refresh signs `id` only
(auth.controller.ts 102-118), so a refreshed token has no role and no e-mail;
`pending` is such a token on its way back, during which the same browser may log in
or out (`crossed` is the history of that). Id 0 is the test login's, which signs no
id. `FirstLogin` is the second await of `AzureADStrategy.validate`: the user was not found
in the first. `Listed` is what the three lists filter by the token: `ownerId: undefined`
is no filter in Prisma. In Settings each handler is a test of the token and one
statement; a policy table is a sequence of rows, of which a query may return any.
`UpdateSecret` spreads the body into the row, the owner included, so it may hand the secret
to any user: what is said of secrets is said of who may change them.
`AllSpec` (Session with Settings' handlers) implements `Session!Spec`.

### Dashboard and Catalogue
Dashboard: `requests` is the Request table, `count` the counts taken so far, `changes`
the writes since the first; each of the eight queries modelled (the four others count
the database and storage instances of a cloud, and enter no sum) sees the table of its
own moment. Catalogue: the table's rows are numbered in the full order of the Azure
list; `Class` and `Engine` are what orders the database classes; a page is a slice of
some order that the query's `orderBy` allows, drawn anew for every page.

## 3. Runs

| Run | Bounds | Shows |
|---|---|---|
| `create` | 2 calls, 2 names or none, fair | `TypeOK`; freshness of codes (`NextCodeFree`), every call answered (`EveryCallEnds`), refinement of `NameLedger` (`RefinesLedger`) |
| `provision` | 2 PATCH calls, 1 manual DAG run, 1 manual message, 1 fault, an AWS and an Azure request | at most one dispatch, never early (`DispatchedOnce`); instances built by their own cloud's DAGs and recorded only when they exist (`BuiltByOwnCloud`, no name shared); stranded messages have a cause (`StrandedHasACause`); refinement of `DispatchLedger` (`RefinesDispatch`) |
| `provision_live` | 2 PATCH calls, 1 fault, an AWS request and two Azure requests of one `Resources.name`, fair | a taken message leads to recorded infrastructure or a visible cause (`TakenIsBuilt`); a recorded instance is missing only where the other request's run came to its directory (`BuiltByOwnCloud`) |
| `destroy_aws`, `destroy_azure` | 2 destroy calls, 2 faults, 2 requests; Azure fair | what each DAG's trigger rules keep in order (`StateOutlivesInfra`, `GroupLast`), completeness of a purge (`PurgeComplete`), that the log shown of a lossy run is of a failed task (`LossShows`), that a run ends (`RunEnds`) |
| `terraform_dir` | 2 runs, 2 requests of one name, 2 faults, any of the 6 DAGs, fair | rows end up with the state (`RecordIsCurrent`) and the key (`PemOpens`) of what exists; failures have a cause (`FailureHasACause`); states stay with their owners (`OwnState`); one lost attempt and any lock refusals leave a run of each directory that ends, unless stamped main files clash (`RetryHeals`) |
| `lifecycle` | 2 names, 2 rows, 3 projects, a page of 1, 1 sync, 2 PATCH calls, 1 destroy call, 1 upset | what approval, destruction and sync leave of one another's work: `CreatedHasProject`, `SyncKeepsBuilt`, `PurgeLeavesNothing`, `BuiltTwiceHasACause`, `SyncReconciles`, `UnprojectedIsTornDown` |
| `backend` | 1 browser, 2 e-mails, 2 users, tokens of 2 and 3 ticks, 1 request, 1 policy table per cloud with 2 rows, 1 secret; 2 request rows with 3 changes; 4 sizes, limits up to 3 | types of all four (`TypesOK`); sessions (`OneUserPerEmail`, `DemotionBites`, `SessionIsOneUser`, `OwnListing`), settings (`UpdatesAreRead`, `SecretsOwn`, `DemotedAdminsStop`), dashboard (`CountsDriftByChanges`), catalogue (`WalkComplete`) |
| `status_message`, `queued_message`, `destroy_message`, `destroy_safely` | as small as the counterexample | four statements of the code and its comments that the code does not keep |

Bounds. Two create calls race on a name and on a code, and one's row may go while the
other holds a number; that three leave codes in order, names unique and refusals clean
is not run any more but proved for any number (section 4). Two PATCH calls cover a
double approval, a rejection under an approval and an approval after a crash; one run
too many and one message too many shift every later message. The instance kinds of a
request have directories and runs of their own, so one kind per request is enough; the
two Azure requests of `provision_live` want the same one, for which they share a
directory. Two faults let an attempt die and its retry die too where one retry is
allowed, or let two tasks of a run be hit. Two provisioning runs can overwrite each
other's files between any two steps; what they leave is proved for any number. In
`lifecycle` a second name pushes the first off the page of one, a second row takes a
freed name, a third project replaces a deleted one, and a second PATCH call approves
again what the first is at; the invariants that do not count upsets are proved for any
number. In `backend` one browser is enough because nothing in a session depends on
another's cookies but the user table, which the second user's rows and role changes
stand for; a refresh token that outlives an access token by one tick lets a token
without a role arrive. Four sizes give a last page that is full, one that is not, and
one of a limit beyond the list; two rows of one class and different engines are the
tie. `MCBackend` lets one part move and keeps the others where they begin. That is
sound because no part reads another's variables, so a run of all of them together is
an interleaving of runs of each, and every property is about one part; Settings, which
does read sessions, moves together with them. That the joined behaviours are
behaviours of each part's own specification is proved (`PartsAreThemselves`).
`MaxFaults = 4` in `destroy_safely` exhausts the three retries of one destroy.

Fairness. Only what the event loop, the broker, the Airflow scheduler and its
workers go on doing is weakly fair; no client owes a call and no fault is owed.
`CHECK_DEADLOCK FALSE` where all calls may have been answered and all runs ended.

What the violated statements say:
- `StatusIsApprovedOrRejected`: the validator's message names two statuses, the
  enum it checks has four, and the service stores any of them in any state.
- `QueuedSuccessfully`: the answer is built before the broker has anything.
- `DestroysResources`: the rows are purged whether or not Terraform succeeded.
- `SubfoldersDestroyedSafely`: AZURE_Destroy's cleanup waits for the group's task
  only, which fails early when one destroy fails, and removes the directory of
  a destroy that is still running.

## 4. Proofs

`RequestCreationProofs` proves, for any finite or infinite sets of calls and names,
under the single assumption that `NoName` is not a name:
`TypeCorrect`, `OneRepositoryPerName`
(`NamesUnique`), `RefusalIsClean` (`RefusedLeavesNothing`), `CodesOrdered`
(`DisplayCodesFollowCreation`), `CreationNeverWedges` (`NextCodeFree`) and
`ImplementsLedger` (`RefinesLedger`: initial states map to initial states, every step
to a ledger step or a stutter).

The inductive invariant is `TypeOK /\ Rows /\ Codes`. `Rows` says which rows a call
has inserted at each control point (`RowsFollowPc`), that foreign keys point to rows
that exist (`Schema!Referential`, which the database enforces), and that only calls
with a name have rows: a call without one ends at the look-up, before the first
insert. `NextCodeFree` is not inductive either: `Codes` adds that the clock is ahead
of every row's creation time, that times are distinct (`ClockOrders`), and that
outside the race a pending number is at most the successor of the largest number in
the table (`PendingIsNext`); the lemma `LatestIsLargest` then gives that the latest
row has the largest number.

`ProvisioningProofs` proves, for any number of requests, calls, runs and faults, from
`ProvisioningAssumption`: `TypeCorrect`, `DispatchOnce` (`DispatchedOnce`), `OwnCloud`
(`BuiltByOwnCloud`), `StrandedOnlyForCause` (`StrandedHasACause`), `ImplementsLedger`
(`RefinesDispatch`) and `LossesAreFinal`. `DispatchedOnce` speaks of
where a message is, so the invariant has to say that it is nowhere else: `OneClaim`
gives each request one call that got past `createProject` (GitLab refuses the name
to the others, and names stay taken), and `OneMessage` follows what that call sent
from `sending` to `queue` to a run, never in two places and never twice in one.
`ChildrenOfOwnCloud` keeps the branch's decision through retries and a lost write;
what a row records is there as long as no rival came (`RivalsStay`: a rival stays one), by
what an apply can move (`AppliesIs`, `InfraStep`).
`StrandedHasACause` is arithmetic over the same moves: `MessagesAccounted` counts
messages made against calls and manual posts, and says that without a fault every
call whose token had a role has triggered its run; the counted sets are finite by
the invariant itself (each step adds at most one element), not by an assumption.
The refinement reads the same invariant as steps: `LedgerStep` takes a step apart
into what it does to calls (`AskedStep`, `DispatchAsks`), messages (`WaitingStep`) and cloud
(`BuildStep`, `RecordStep`), no two of which ever happen at once; the last two over
the requests that share their name with none (`PlacedIs`). From the ledger alone
follows `LossesAreFinal`: a request that was dispatched and whose message is gone stays
as it is, approved and Created and without infrastructure, until a message by hand or the
deletion of its project (Lifecycle's `BuiltTwiceHasACause`).

`DestroyDagProofs` proves, for any number of requests, calls and dying attempts, from
`DestroyAssumption`: `TypeCorrect`, `PurgeIsComplete` (`PurgeComplete`), `GroupIsLast`
(`GroupLast`), `LossesShow` (`LossShows`), and for the AWS DAG `StateKept`
(`StateOutlivesInfra`; the Azure DAG breaks it, as the run `destroy_safely` shows). A
trigger rule is tested when a task is scheduled, and the properties speak of later
states. The bridge is `EndsStay`: within a run a task that has ended keeps its end
state, so `RanByRule` (a task that ran still meets its rule), `BrokenByRule` and
`SkippedByRule` are invariant. From there a running cleanup tells that every kind was
destroyed or not chosen, `DestroyedIsGone` what that means in the cloud, and
`FailureFound` walks an upstream failure back up the DAG to a task that itself failed.
`Purging` follows the statements of `supabase_delete_request`, each committed alone.
Only one request is in play because `got` changes in the first task's attempt only,
before anything else runs (`AllWait`, `GotStep`).

`TerraformDirProofs` proves, for any number of runs, requests and faults and any
`ResourcesName`, from `TerraformAssumption` (`None` is none of the values it stands
beside): `TypeCorrect`, `RecordCurrent` (`RecordIsCurrent`), `KeyOpens` (`PemOpens`),
`StateIsOwn` (`OwnState`) and `FailureExplained` (`FailureHasACause`).
`RecordIsCurrent` and `PemOpens` say nothing of a directory with a run under way, so
the induction is about what is still to come. While `Pending` nothing need hold: a run
has yet to write the files or has failed for good, or one for the request that the
files describe has yet to apply them (AZURE_db keeps the first run's tfvars, so there
only a run for the request that these name counts). When nothing is pending, `Follows`
says that the Terraform state is the fixed point of the files, or an apply that makes
it so is under way (`AppliedFollows`), and that the rows of the request described hold
it or will be given it, with no run that still has an older one in its hands
(`RecordFollows`, `PemFollows`); `KeysMatch` that the halves of the key belong
together while no two runs made theirs at once. `Alone` says that of all applies of a
directory one at most is under way, `Owned` that files, instances and states stay with
the name they were made under. `FailureHasACause` needs an invariant of its own:
`FailuresCounted` charges every lost attempt to a fault, a clash or a held lock and
follows the charge through the retry, and `MainsStamped` says whose the main files
are, so that two of them without a fault are two runs' (`ClashOfTwo`), and never of a
DAG that writes one file (`ClashOnlyStamping`).

`LifecycleProofs` proves, for any number of names, calls, rows, projects and upsets
and any page size, from `LifecycleAssumption` (bounds are numbers, there is a name):
`TypeCorrect`, `ProjectsStay` (`CreatedHasProject`), `BuiltOnce`
(`BuiltTwiceHasACause`), `BuiltIsKept` (`SyncKeepsBuilt`), `PurgedIsGone`
(`PurgeLeavesNothing`), `Reconciled` (`SyncReconciles`) and `UnprojectedGoes`
(`UnprojectedIsTornDown`). None of the six is inductive: each speaks of the moment
after the race. `Fresh` and `OneName` say that ids only grow, so that a row or project
id that a call holds never comes to mean a later one, and that a row keeps its name.
`MarkedHasProject` then follows the claim on a project from its creation (a PATCH call
between `createProject` and its update, `Marked`) on, and says of every name a sync
still has to delete that the project of its page is not one of a marked row.
`SentIsCreated` and `SentOnce` give the second dispatch: a call that gets a project
for a marked row can only do so because the first project is gone. `SweepsHaveCauses`
carries the causes from the moment a sync fetched its page to its last deletion,
`PurgesAreFinal` the cause of what a purge leaves, an overlap or a failed Terraform,
from the destroy call to the purge and beyond it; `SendNotes` and `RunNotes` say what
the two steps note. `SyncReconciles` is a statement about the last step of a sync
whose two lists were made long before: `InSync` says what each list still means while
the loops work through it, and `StirringStep` that whoever else moves a row or a
project disturbs every sync under way. `UnprojectedIsTornDown` needs that a destroy
call's name is still its row's own, or that the row is gone and the name has gone to a
later row (`NamesAreOld`); from there `UnprojectedIsExcused` carries the excuse from
the deletion of the project on, and `MarkedHasProject` tells that the row of a Created
request cannot have lost its project otherwise. The proofs rest on one lemma per
variable that names the actions which move it (`RowMoves` ...), and one that says what
a step can do to it (`DatabaseStep`, `ProjectStep`, `MarksStep`, `SentStep`, ...).

`SessionProofs` proves, for any number of users, browsers and requests and any
lifetimes: `SessionTypes`, `OneUser` (`OneUserPerEmail`), `Demotion`
(`DemotionBites`), `OneSession` (`SessionIsOneUser`) and `Listing` (`OwnListing`). The
inductive invariant adds `KnownIds` (nobody holds a token of a user to come, since ids
are never used again), `PendingHasNoRole` and `PendingIsOwn` (outside the race a
refreshed token on its way is of the user who signed in). `SettingsProofs` proves
`SettingsImplementSession` (`AllSpec => Spec`: a step of a policy or secret handler is
a stutter of sessions), so that all of these hold with the settings too, and from them
`SettingsTypes`, `PolicyReads` (`UpdatesAreRead`), `SecretChanges` (the action
property `SecretsOwn`) and `DemotedStop` (the action property `DemotedAdminsStop`).

`BackendProofs` proves, for any table, any number of changes, filter and page size:
`CountsDrift` (`CountsDriftByChanges`), `WalksAreComplete` (`WalkComplete`), with the types
`DashboardTypes` and `CatalogueTypes`; and that the joined specification implements its
parts' (`PartsAreThemselves`), whence `BackendTypes` (`TypesOK`). An answer of the dashboard
is put together from eight moments. `Drift` therefore speaks of counts that are not
taken yet as what they would be now (`Value`), so that its three equations hold, up
to the number of changes, from the first query on: a count leaves them as they
are, and a change moves each sum by one at most. That a change of one request
moves each counted set by one element at most is `OneElement`, over finite sets, with
no sum over the table. `Walked` says that a walk that stands on a page has shown the pages
before it, as many rows as these hold, and, where the order leaves no two rows
equal, the rows of these ranks once each. A page is a slice of an order that the query draws
anew; `PlaceIsRank` shows that without ties every such order puts a row where its rank
says, `PageIs` which rows a slice has, `ShownGrows` that what was shown grows by as
many, and `LastPage` that the rounded-up division ends the walk behind the last row.

Every invariant of a passing run is a theorem. Only model-checked are the temporal
properties `EveryCallEnds`, `RunEnds`, `RetryHeals` and `TakenIsBuilt` (liveness under
fairness: TLAPS has no ENABLED). Proved and no longer run: `NamesUnique`,
`DisplayCodesFollowCreation`, `RefusedLeavesNothing` and the types of Provisioning.

## 5. Not modelled

- `updateRequestFeedback` (a text that nothing reads back), `findByStatus`, `findById` and
  the look-ups of users, prices and sizes: one query each, whose answer nobody keeps.
- `RepositoryCollaborator` and the rows of collaborators; the text given to Terraform.
- The listing of task instances (passed through from Airflow), the OAuth exchange
  with Azure, the JWT guard (no controller uses it), module wiring, Swagger, CORS.
- Seeds and migrations: run once, offline. (Seeding again adds a row to the AWS
  policy tables, which is what `createPolicy` does in Settings.)
- Airflow, RabbitMQ, GitLab and Terraform beyond what the code relies on.

Met while modelling, and in the models as the code has it, with no run of its own:
- `findAwsDB` sets `.lte` on a filter it never made, so every query with `maxStorageSize`
  fails, though get-cloud-provider-aws-db.dto.ts 56-64 offers it (`FindAwsDB`).
- A refreshed token has neither role nor e-mail: an hour after a login `/user/me` is
  null, the rights of staff are gone and `triggerDag` refuses (`Refresh`).
- `findById(+id)` of a UUID asks for NaN.
- The dashboard's virtual machine counts count requests; Deleted requests are in the total only.
- `findAws` pages have no order, and `findAwsDB`'s classes tie across engines (`WalkComplete`).
- The sync reads GitLab's first page only, so with more projects than that it
  deletes the rows of the rest; it also deletes the rows of requests that are not
  yet approved, which have no project (`SyncRead`).
- The log endpoint asks for the first try of a task, whichever failed.

## 6. What is left

A ledger of destruction that DestroyDag implements, and a refinement between it and
Lifecycle's one-step teardown (it holds while nothing fails and only for requests
whose directory the DAG finds); the components under 5 that keep state.

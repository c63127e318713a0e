-------------------------- MODULE RequestCreation --------------------------
(***************************************************************************)
(* RequestService.createRequestAzure and createRequestAws, and             *)
(* RepositoriesService.createRepositoryAzure: every `await` is one         *)
(* database round trip, nothing runs in a transaction, and any number of   *)
(* calls interleave between two awaits.  Beside them run the two other     *)
(* writers of the same rows that the API exposes: removeRequest, and the   *)
(* repository.delete of GitlabSyncService.                                 *)
(***************************************************************************)
EXTENDS Schema, Integers

CONSTANTS
    Names,              \* repository names a client may ask for
    NoName              \* no body yet, or a body that names no repository

ASSUME NoNameAssumption == NoName \notin Names

Kinds == {"AZURE", "AWS", "REPOSITORY"}

\* Control points: the database call a handler is about to make.
Running == {"findOwner", "findRepository", "findCollaborators",
            "createConfig", "createResources", "createRepository",
            "readLast", "createRequest"}
Ended == {"done", "refused", "failed"}

VARIABLES
    pc,                 \* [Calls -> Running, Ended or "idle"]
    kind,               \* which of the three handlers a call runs
    name,               \* the body's repository name
    pending,            \* lastNumber + 1 held between readLast and createRequest
    number,             \* Request.displayCode "R-n", as n
    createdAt,          \* Request.createdAt
    clock,              \* the database clock, one tick per Request row
    raced               \* history: a Request row was deleted while some call
                        \* held a pending number

callVars == <<pc, kind, name>>
codeVars == <<pending, number, createdAt, clock, raced>>
vars == <<tables, callVars, codeVars>>

TypeOK ==
    /\ SchemaTypeOK
    /\ pc \in [Calls -> Running \cup Ended \cup {"idle"}]
    /\ kind \in [Calls -> Kinds]
    /\ name \in [Calls -> Names \cup {NoName}]
    /\ pending \in [Calls -> Nat]
    /\ number \in [Calls -> Nat]
    /\ createdAt \in [Calls -> Nat]
    /\ clock \in Nat
    /\ raced \in BOOLEAN

Init ==
    /\ SchemaInit
    /\ pc = [c \in Calls |-> "idle"]
    /\ kind = [c \in Calls |-> "AZURE"]
    /\ name = [c \in Calls |-> NoName]
    /\ pending = [c \in Calls |-> 0]
    /\ number = [c \in Calls |-> 0]
    /\ createdAt = [c \in Calls |-> 0]
    /\ clock = 0
    /\ raced = FALSE

-----------------------------------------------------------------------------
Goto(c, label) == pc' = [pc EXCEPT ![c] = label]

\* repository.findUnique({ where: { name } }), and the unique index behind it.
NameTaken(n) == \E r \in repository : name[r] = n

\* displayCode @unique
CodeTaken(n) == \E r \in request : number[r] = n

\* request.findFirst({ orderBy: { createdAt: 'desc' } })
Latest(r) == \A q \in request : createdAt[q] <= createdAt[r]

\* Mutant: findFirst without its orderBy.
LastNumbersUnordered ==
    IF request = {} THEN {0} ELSE {number[r] : r \in request}

\* The lastNumber that a call may compute from it.
LastNumbers ==
    IF request = {} THEN {0}
    ELSE {number[r] : r \in {q \in request : Latest(q)}}

-----------------------------------------------------------------------------
(* The handlers.                                                           *)

\* The DTO of createRepository* validates its name.  In the DTOs of createRequest*
\* the name is inside `repository`, which is documented but not validated.
Bodies(k) == IF k = "REPOSITORY" THEN Names ELSE Names \cup {NoName}

Start(c) ==
    /\ pc[c] = "idle"
    /\ \E k \in Kinds : \E n \in Bodies(k) :
        /\ kind' = [kind EXCEPT ![c] = k]
        /\ name' = [name EXCEPT ![c] = n]
        /\ Goto(c, IF k = "REPOSITORY" THEN "findRepository" ELSE "findOwner")
    /\ UNCHANGED <<tables, codeVars>>

\* Whether the token's user exists is chosen here: no code deletes a user.
FindOwner(c) ==
    /\ pc[c] = "findOwner"
    /\ \/ Goto(c, "findRepository")
       \/ Goto(c, "refused")
    /\ UNCHANGED <<tables, kind, name, codeVars>>

FindRepository(c) ==
    /\ pc[c] = "findRepository"
    /\ name[c] # NoName
    /\ Goto(c, IF NameTaken(name[c]) THEN "refused" ELSE "findCollaborators")
    /\ UNCHANGED <<tables, kind, name, codeVars>>

\* findUnique rejects a `where` whose only field is undefined.
FindNameless(c) ==
    /\ pc[c] = "findRepository"
    /\ name[c] = NoName
    /\ Goto(c, "failed")
    /\ UNCHANGED <<tables, kind, name, codeVars>>

FindCollaborators(c) ==
    /\ pc[c] = "findCollaborators"
    /\ \/ Goto(c, "createConfig")
       \/ Goto(c, "refused")
    /\ UNCHANGED <<tables, kind, name, codeVars>>

\* The nested create inserts the instance rows in the same statement.
CreateConfig(c) ==
    /\ pc[c] = "createConfig"
    /\ config' = config \cup {c}
    /\ \/ vms' = vms
       \/ kind[c] = "AWS" /\ vms' = vms \cup {c}
    /\ Goto(c, "createResources")
    /\ UNCHANGED <<resources, repository, request, kind, name, codeVars>>

CreateResources(c) ==
    /\ pc[c] = "createResources"
    /\ c \in config
    /\ resources' = resources \cup {c}
    /\ Goto(c, "createRepository")
    /\ UNCHANGED <<config, vms, repository, request, kind, name, codeVars>>

\* Mutant: no unique index behind the look-up.
CreateRepositoryUnindexed(c) ==
    /\ pc[c] = "createRepository"
    /\ c \in resources
    /\ repository' = repository \cup {c}
    /\ Goto(c, IF kind[c] = "REPOSITORY" THEN "done" ELSE "readLast")
    /\ UNCHANGED <<config, vms, resources, request, kind, name, codeVars>>

CreateRepository(c) ==
    /\ pc[c] = "createRepository"
    /\ c \in resources
    /\ ~NameTaken(name[c])
    /\ repository' = repository \cup {c}
    /\ Goto(c, IF kind[c] = "REPOSITORY" THEN "done" ELSE "readLast")
    /\ UNCHANGED <<config, vms, resources, request, kind, name, codeVars>>

\* Two calls passed FindRepository with one name: the unique index decides.
NameCollision(c) ==
    /\ pc[c] = "createRepository"
    /\ NameTaken(name[c])
    /\ Goto(c, "failed")
    /\ UNCHANGED <<tables, kind, name, codeVars>>

\* Mutant: parseInt of no display code when the table is empty (NaN, here -1).
ReadLastUnchecked(c) ==
    /\ pc[c] = "readLast"
    /\ \E n \in LastNumbers :
        pending' = [pending EXCEPT ![c] = IF request = {} THEN -1 ELSE n + 1]
    /\ Goto(c, "createRequest")
    /\ UNCHANGED <<tables, kind, name, number, createdAt, clock, raced>>

ReadLast(c) ==
    /\ pc[c] = "readLast"
    /\ \E n \in LastNumbers : pending' = [pending EXCEPT ![c] = n + 1]
    /\ Goto(c, "createRequest")
    /\ UNCHANGED <<tables, kind, name, number, createdAt, clock, raced>>

CreateRequest(c) ==
    /\ pc[c] = "createRequest"
    /\ c \in repository \cap resources
    /\ ~CodeTaken(pending[c])
    /\ request' = request \cup {c}
    /\ number' = [number EXCEPT ![c] = pending[c]]
    /\ clock' = clock + 1
    /\ createdAt' = [createdAt EXCEPT ![c] = clock + 1]
    /\ Goto(c, "done")
    /\ UNCHANGED <<config, vms, resources, repository, kind, name, pending, raced>>

\* Mutant: every failed insert is taken for a collision and tried again.
RequestCollisionRetried(c) ==
    /\ pc[c] = "createRequest"
    /\ CodeTaken(pending[c]) \/ c \notin repository
    /\ Goto(c, "readLast")
    /\ UNCHANGED <<tables, kind, name, codeVars>>

\* Another call inserted the same code first, or the repository is gone.
RequestCollision(c) ==
    /\ pc[c] = "createRequest"
    /\ CodeTaken(pending[c]) \/ c \notin repository
    /\ Goto(c, "failed")
    /\ UNCHANGED <<tables, kind, name, codeVars>>

\* A rejected promise at any await, or the process dying: nothing is undone.
Fail(c) ==
    /\ pc[c] \in Running
    /\ Goto(c, "failed")
    /\ UNCHANGED <<tables, kind, name, codeVars>>

-----------------------------------------------------------------------------
(* The other writers.                                                      *)

Deleted(r) == raced' = (raced \/ (r \in request /\ \E c \in Calls : pc[c] = "createRequest"))

RemoveRequest(r) ==
    /\ r \in request
    /\ DropRequest(r)
    /\ Deleted(r)
    /\ UNCHANGED <<callVars, pending, number, createdAt, clock>>

\* One iteration of the sync's last loop: a name its GitLab snapshot lacked.
SyncDeleteRepository(r) ==
    /\ r \in repository
    /\ DropRepository(r)
    /\ Deleted(r)
    /\ UNCHANGED <<callVars, pending, number, createdAt, clock>>

-----------------------------------------------------------------------------
Step(c) ==
    \/ FindOwner(c)
    \/ FindRepository(c)
    \/ FindNameless(c)
    \/ FindCollaborators(c)
    \/ CreateConfig(c)
    \/ CreateResources(c)
    \/ CreateRepository(c)
    \/ NameCollision(c)
    \/ ReadLast(c)
    \/ CreateRequest(c)
    \/ RequestCollision(c)

Next ==
    \/ \E c \in Calls : Start(c) \/ Step(c) \/ Fail(c)
    \/ \E r \in Calls : RemoveRequest(r) \/ SyncDeleteRepository(r)

Spec == Init /\ [][Next]_vars

\* The event loop resumes a handler whose database call has returned.
FairSpec == Spec /\ \A c \in Calls : WF_vars(Step(c))
-----------------------------------------------------------------------------
(* Properties.                                                             *)

\* No two Repository rows carry one name, although createRequest* only look the
\* name up (request.service.ts 94-98) long before they insert it (146-156).
NamesUnique ==
    \A q, r \in repository : name[q] = name[r] => q = r

\* Unless a request was deleted under a call that already held its next number,
\* the display codes grow in the order the requests were created, so "last by
\* createdAt" (request.service.ts 159-162) is also "last by number".
DisplayCodesFollowCreation ==
    ~raced => \A q, r \in request :
                  createdAt[q] < createdAt[r] => number[q] < number[r]

\* Under the same condition the code that findFirst leads to is free: request
\* creation never wedges on a code that is already in the table.
NextCodeFree == ~raced => \A n \in LastNumbers : ~CodeTaken(n + 1)

\* A call answered with 400 or 409 (request.service.ts 88-114), or one without a
\* name, has written nothing; only a call that throws later leaves rows behind.
RefusedLeavesNothing ==
    \A c \in Calls : pc[c] = "refused" \/ name[c] = NoName => c \notin config

\* A call that has started is answered, whatever the calls around it do.
EveryCallEnds ==
    \A c \in Calls : pc[c] \in Running ~> pc[c] \in Ended

\* Creation keeps the promises of the name ledger: a Repository row holds its
\* name and a Request row publishes it.
Ledger == INSTANCE NameLedger WITH
    ledger <- {<<name[c], c>> : c \in repository},
    published <- request

RefinesLedger == Ledger!LedgerSpec
=============================================================================

------------------------------ MODULE Lifecycle ------------------------------
(***************************************************************************)
(* A repository lives in three places: its rows in the database, its       *)
(* project in GitLab, its infrastructure in the cloud.  Approval (PATCH    *)
(* /request/:id/status), destruction (DELETE /infrastructure/:id/          *)
(* infra-destroy) and the sync (GET /gitlab/sync) each change two of the   *)
(* three, one await at a time, and look at nothing but their own copies.   *)
(* What is in detail elsewhere is one step here: creation and its failures *)
(* (RequestCreation), queue and triggers (Provisioning), the tasks of the  *)
(* destroy DAGs (DestroyDag).                                              *)
(***************************************************************************)
EXTENDS Naturals, FiniteSets

CONSTANTS
    Names,              \* repository names
    Syncs, Patches, Destroys,   \* calls of the three handlers
    PageSize,           \* projects on the first page of GitLab's list
    MaxRows,            \* create calls (a bound)
    MaxProjects,        \* projects ever made (a bound)
    MaxUpsets           \* awaits that reject, calls of POST /gitlab and
                        \* DELETE /gitlab/:id (a bound)

ASSUME LifecycleAssumption ==
    /\ Names # {}
    /\ PageSize \in Nat \ {0}
    /\ MaxRows \in Nat
    /\ MaxProjects \in Nat
    /\ MaxUpsets \in Nat

\* Ids grow; 0 is no row, no project.
Rows == 1..MaxRows
Projects == 1..MaxProjects

VARIABLES
    row,                \* the Repository row that holds a name
    request,            \* rows whose Request row exists
    created,            \* rows with status Created
    lastRow,
    project,            \* the GitLab project that holds a name
    lastProject,
    patch, destroy, sync,       \* what each call holds between two awaits
    infra,              \* what the cloud has for a row
    teardown,           \* the destroy run for a row
    upsets,
    events,             \* history: what has happened to a row
    stirred             \* history: syncs that others, or an error, disturbed

database == <<row, request, created, lastRow>>
gitlab == <<project, lastProject>>
cloud == <<infra, teardown>>
calls == <<patch, destroy, sync>>
vars == <<database, gitlab, calls, cloud, upsets, events, stirred>>

Events == {"overlapped", "unprojected", "crowded", "early", "again", "swept", "purged",
           "unsent", "kept"}

TypeOK ==
    /\ row \in [Names -> 0..MaxRows]
    /\ request \in SUBSET Rows
    /\ created \in SUBSET Rows
    /\ lastRow \in 0..MaxRows
    /\ project \in [Names -> 0..MaxProjects]
    /\ lastProject \in 0..MaxProjects
    /\ patch \in [Patches -> [pc : {"idle", "read", "project", "mark", "dispatch", "ended"},
                              name : Names, row : 0..MaxRows]]
    /\ destroy \in [Destroys -> [pc : {"idle", "find", "remove", "send", "ended"},
                                 name : Names, row : 0..MaxRows, project : 0..MaxProjects]]
    /\ sync \in [Syncs -> [pc : {"idle", "read", "loops", "done"},
                           page : [Names -> 0..MaxProjects],
                           strays : SUBSET Names, missing : SUBSET Names]]
    /\ infra \in [Rows -> {"none", "asked", "building", "up"}]
    /\ teardown \in [Rows -> {"none", "queued", "purging", "done", "failed"}]
    /\ upsets \in 0..MaxUpsets
    /\ events \in [Rows -> SUBSET Events]
    /\ stirred \in SUBSET Syncs

\* What a call holds before its first step and after its last.
AnyName == CHOOSE n \in Names : TRUE
PatchAt(pc) == [pc |-> pc, name |-> AnyName, row |-> 0]
DestroyAt(pc) == [pc |-> pc, name |-> AnyName, row |-> 0, project |-> 0]
SyncAt(pc) == [pc |-> pc, page |-> [n \in Names |-> 0], strays |-> {}, missing |-> {}]

Init ==
    /\ row = [n \in Names |-> 0] /\ request = {} /\ created = {} /\ lastRow = 0
    /\ project = [n \in Names |-> 0] /\ lastProject = 0
    /\ patch = [p \in Patches |-> PatchAt("idle")]
    /\ destroy = [d \in Destroys |-> DestroyAt("idle")]
    /\ sync = [s \in Syncs |-> SyncAt("idle")]
    /\ infra = [r \in Rows |-> "none"]
    /\ teardown = [r \in Rows |-> "none"]
    /\ upsets = 0
    /\ events = [r \in Rows |-> {}]
    /\ stirred = {}

Upset == upsets < MaxUpsets /\ upsets' = upsets + 1

\* Bookkeeping of the history variables.
NoteAll(r, E) == events' = [q \in Rows |-> IF q = r THEN events[q] \cup E ELSE events[q]]
Note(r, e) == NoteAll(r, {e})
Under == {s \in Syncs : sync[s].pc \in {"read", "loops"}}
Stir(others) == stirred' = stirred \cup {s \in others : sync[s].pc # "idle"}

Live(r) == \E n \in Names : row[n] = r
NameOf(r) == {n \in Names : row[n] = r}

\* A Repository row goes with its Request (onDelete: Cascade).
DropRow(n) ==
    /\ row' = [row EXCEPT ![n] = 0]
    /\ request' = request \ {row[n]}
    /\ created' = created \ {row[n]}
    /\ UNCHANGED lastRow

----------------------------------------------------------------------------
(* Requests. *)

\* A create call that is answered: RequestCreation in one step.
CreateRow(n) ==
    /\ row[n] = 0 /\ lastRow < MaxRows
    /\ lastRow' = lastRow + 1
    /\ row' = [row EXCEPT ![n] = lastRow']
    /\ request' = request \cup {lastRow'}
    /\ Stir(Syncs)
    /\ UNCHANGED <<created, gitlab, calls, cloud, upsets, events>>

\* DELETE /request/:id leaves the Repository row.
RemoveRequest(r) ==
    /\ r \in request
    /\ request' = request \ {r}
    /\ UNCHANGED <<row, created, lastRow, gitlab, calls, cloud, upsets, events, stirred>>

----------------------------------------------------------------------------
(* PATCH /request/:id/status with Approved. *)

PatchTo(p, pc) == patch' = [patch EXCEPT ![p].pc = pc]
PatchEnds(p) == patch' = [patch EXCEPT ![p] = PatchAt("ended")]

\* The status is stored whatever it was before.
Approve(p) ==
    /\ patch[p].pc = "idle"
    /\ \E n \in Names :
        /\ row[n] \in request
        /\ patch' = [patch EXCEPT ![p] = [pc |-> "read", name |-> n, row |-> row[n]]]
        /\ IF teardown[row[n]] \in {"queued", "purging"}
           THEN Note(row[n], "early") ELSE UNCHANGED events
    /\ UNCHANGED <<database, gitlab, destroy, sync, cloud, upsets, stirred>>

\* The request, its resources and its repository are read again.
PatchRead(p) ==
    /\ patch[p].pc = "read"
    /\ IF patch[p].row \in request THEN PatchTo(p, "project") ELSE PatchEnds(p)
    /\ UNCHANGED <<database, gitlab, destroy, sync, cloud, upsets, events, stirred>>

\* Mutant: a taken name is taken for one's own project.
PatchProjectTolerant(p) ==
    /\ patch[p].pc = "project"
    /\ project[patch[p].name] # 0
    /\ PatchTo(p, "mark")
    /\ UNCHANGED <<database, gitlab, destroy, sync, cloud, upsets, events, stirred>>

\* GitLab refuses a taken name.
PatchProject(p) ==
    LET n == patch[p].name IN
    /\ patch[p].pc = "project"
    /\ \/ /\ project[n] # 0
          /\ PatchEnds(p)
          /\ UNCHANGED <<gitlab, events, stirred>>
       \/ /\ project[n] = 0 /\ lastProject < MaxProjects
          /\ lastProject' = lastProject + 1
          /\ project' = [project EXCEPT ![n] = lastProject']
          /\ PatchTo(p, "mark")
          /\ IF Under # {} THEN Note(patch[p].row, "overlapped") ELSE UNCHANGED events
          /\ Stir(Syncs)
    /\ UNCHANGED <<database, destroy, sync, cloud, upsets>>

\* A row that is gone by now fails the update; its project stays.
PatchMark(p) ==
    LET r == patch[p].row IN
    /\ patch[p].pc = "mark"
    /\ created' = IF Live(r) THEN created \cup {r} ELSE created
    /\ IF Live(r) THEN PatchTo(p, "dispatch") ELSE PatchEnds(p)
    /\ UNCHANGED <<row, request, lastRow, gitlab, destroy, sync, cloud, upsets,
                   events, stirred>>

\* The id is queued and a DAG triggered; Provisioning has what may go wrong here.
PatchDispatch(p) ==
    LET r == patch[p].row IN
    /\ patch[p].pc = "dispatch"
    /\ PatchEnds(p)
    /\ infra' = [infra EXCEPT ![r] = IF @ = "none" THEN "asked" ELSE @]
    /\ IF infra[r] # "none" THEN Note(r, "again") ELSE UNCHANGED events
    /\ UNCHANGED <<database, gitlab, destroy, sync, teardown, upsets, stirred>>

\* An await of the handler rejects; what came before it stays.
PatchFails(p) ==
    /\ patch[p].pc \in {"read", "project", "mark"}
    /\ Upset
    /\ PatchEnds(p)
    /\ UNCHANGED <<database, gitlab, destroy, sync, cloud, events, stirred>>

----------------------------------------------------------------------------
(* The provisioning DAGs, in two steps. *)

BuildStarts(r) ==
    /\ infra[r] = "asked"
    /\ infra' = [infra EXCEPT ![r] = IF r \in request THEN "building" ELSE "none"]
    /\ UNCHANGED <<database, gitlab, calls, teardown, upsets, events, stirred>>

BuildEnds(r) ==
    /\ infra[r] = "building"
    /\ infra' = [infra EXCEPT ![r] = "up"]
    /\ UNCHANGED <<database, gitlab, calls, teardown, upsets, events, stirred>>

----------------------------------------------------------------------------
(* DELETE /infrastructure/:id/infra-destroy. *)

DestroyTo(d, pc) == destroy' = [destroy EXCEPT ![d].pc = pc]
DestroyEnds(d) == destroy' = [destroy EXCEPT ![d] = DestroyAt("ended")]

\* Neither the status of the request nor what the cloud has is looked at.
DestroyRead(d) ==
    /\ destroy[d].pc = "idle"
    /\ \/ \E r \in request, n \in Names :
           /\ row[n] = r
           /\ destroy' = [destroy EXCEPT ![d] =
                            [pc |-> "find", name |-> n, row |-> r, project |-> 0]]
       \/ \E r \in Rows \ request : r <= lastRow /\ DestroyEnds(d)
    /\ UNCHANGED <<database, gitlab, patch, sync, cloud, upsets, events, stirred>>

\* One page of the projects that match; and the name must be the path as well.
DestroyFind(d) ==
    /\ destroy[d].pc = "find"
    /\ \E id \in {0, project[destroy[d].name]} :
          destroy' = [destroy EXCEPT ![d].project = id,
                                     ![d].pc = IF id = 0 THEN "send" ELSE "remove"]
    /\ UNCHANGED <<database, gitlab, patch, sync, cloud, upsets, events, stirred>>

\* By hand and by DELETE /infrastructure alike: the name's row loses its project.
Unproject(n) ==
    /\ project' = [project EXCEPT ![n] = 0]
    /\ Note(row[n], "unprojected")
    /\ Stir(Syncs)

\* The project goes first.  The answer is not looked at.
DestroyRemove(d) ==
    LET n == destroy[d].name IN
    /\ destroy[d].pc = "remove"
    /\ DestroyTo(d, "send")
    /\ \/ project[n] = destroy[d].project /\ Unproject(n) /\ UNCHANGED upsets
       \/ /\ UNCHANGED <<project, events, stirred>>
          /\ IF project[n] = destroy[d].project THEN Upset ELSE UNCHANGED upsets
    /\ UNCHANGED <<database, lastProject, patch, sync, cloud>>

Approving(r) ==
    \E p \in Patches : patch[p].row = r /\ patch[p].pc \in {"read", "project", "mark", "dispatch"}

\* Mutant: the state of the infrastructure is checked, but after the project is gone.
DestroySendChecked(d) ==
    LET r == destroy[d].row IN
    /\ destroy[d].pc = "send"
    /\ DestroyEnds(d)
    /\ teardown' = [teardown EXCEPT ![r] = IF infra[r] = "up" THEN "queued" ELSE @]
    /\ UNCHANGED <<database, gitlab, patch, sync, infra, upsets, events, stirred>>

\* A purged request has no resources to read the cloud provider from.  The emit
\* and the trigger are not awaited: the message may be lost, and a message whose
\* run is refused waits for the run of another call.
DestroySend(d) ==
    LET r == destroy[d].row IN
    /\ destroy[d].pc = "send"
    /\ DestroyEnds(d)
    /\ \/ "purged" \in events[r] /\ UNCHANGED <<teardown, events>>
       \/ /\ "purged" \notin events[r]
          /\ \E arrives, triggered \in BOOLEAN :
                /\ teardown' = [teardown EXCEPT ![r] =
                                   IF arrives /\ @ # "purging" THEN "queued" ELSE @]
                /\ NoteAll(r, (IF infra[r] \in {"asked", "building"} \/ Approving(r)
                               THEN {"early"} ELSE {})
                              \cup (IF arrives /\ triggered THEN {} ELSE {"unsent"}))
    /\ UNCHANGED <<database, gitlab, patch, sync, infra, upsets, stirred>>

DestroyFails(d) ==
    /\ destroy[d].pc \in {"find", "remove", "send"}
    /\ Upset
    /\ DestroyEnds(d)
    /\ UNCHANGED <<database, gitlab, patch, sync, cloud, events, stirred>>

\* Mutant: the run goes to a state of its own.
TeardownRunsUntracked(r) ==
    /\ teardown[r] = "queued"
    /\ teardown' = [teardown EXCEPT ![r] = "running"]
    /\ UNCHANGED <<database, gitlab, calls, infra, upsets, events, stirred>>

\* The destroy DAG: terraform removes the instances or fails, and the rows go in
\* either case.  A request that is gone cannot be joined to anything.
TeardownRuns(r) ==
    /\ teardown[r] = "queued"
    /\ \/ /\ r \in request
          /\ teardown' = [teardown EXCEPT ![r] = "purging"]
          /\ \/ infra' = [infra EXCEPT ![r] = IF @ = "up" THEN "none" ELSE @] /\ UNCHANGED events
             \/ infra[r] = "up" /\ Note(r, "kept") /\ UNCHANGED infra
       \/ /\ r \notin request
          /\ teardown' = [teardown EXCEPT ![r] = "failed"]
          /\ UNCHANGED <<infra, events>>
    /\ UNCHANGED <<database, gitlab, calls, upsets, stirred>>

\* Mutant: the DAG deletes the instance rows and leaves request and repository.
PurgeInstancesOnly(r) ==
    /\ teardown[r] = "purging"
    /\ teardown' = [teardown EXCEPT ![r] = "done"]
    /\ Note(r, "purged")
    /\ Stir(Syncs)
    /\ UNCHANGED <<database, gitlab, calls, infra, upsets>>

Purge(r) ==
    /\ teardown[r] = "purging"
    /\ teardown' = [teardown EXCEPT ![r] = "done"]
    /\ IF Live(r) THEN \E n \in NameOf(r) : DropRow(n) ELSE UNCHANGED database
    /\ Note(r, "purged")
    /\ Stir(Syncs)
    /\ UNCHANGED <<gitlab, calls, infra, upsets>>

----------------------------------------------------------------------------
(* GET /gitlab/sync. *)

\* One page of GitLab's list, the newest projects first.
FirstPage ==
    [n \in Names |->
        IF Cardinality({m \in Names : project[m] > project[n]}) < PageSize
        THEN project[n] ELSE 0]

\* What is left of the two loops.
SyncLeft(s, strays, missing) ==
    sync' = [sync EXCEPT ![s] =
                IF strays \cup missing = {} THEN SyncAt("done")
                ELSE [pc |-> "loops", page |-> sync[s].page,
                      strays |-> strays, missing |-> missing]]

\* Mutant: an answer that is not ok is read as an empty list.
SyncFetchUnchecked(s) ==
    /\ sync[s].pc = "idle"
    /\ sync' = [sync EXCEPT ![s].pc = "read"]
    /\ UNCHANGED <<database, gitlab, patch, destroy, cloud, upsets, events, stirred>>

SyncFetch(s) ==
    /\ sync[s].pc = "idle"
    /\ sync' = [sync EXCEPT ![s] = [pc |-> "read", page |-> FirstPage,
                                     strays |-> {}, missing |-> {}]]
    /\ events' = [r \in Rows |->
                    IF \E n \in NameOf(r) : FirstPage[n] # project[n]
                    THEN events[r] \cup {"crowded"} ELSE events[r]]
    /\ stirred' = IF FirstPage # project THEN stirred \cup {s} ELSE stirred
    /\ UNCHANGED <<database, gitlab, patch, destroy, cloud, upsets>>

\* Mutant: the projects are compared with the rows, the rows with nothing.
SyncReadOneWay(s) ==
    LET strays == {n \in Names : sync[s].page[n] # 0 /\ row[n] = 0} IN
    /\ sync[s].pc = "read"
    /\ SyncLeft(s, strays, {})
    /\ UNCHANGED <<database, gitlab, patch, destroy, cloud, upsets, events, stirred>>

\* Both differences are taken here, from two snapshots of different ages.
SyncRead(s) ==
    LET page == sync[s].page
        strays == {n \in Names : page[n] # 0 /\ row[n] = 0}
        missing == {n \in Names : page[n] = 0 /\ row[n] # 0} IN
    /\ sync[s].pc = "read"
    /\ SyncLeft(s, strays, missing)
    /\ UNCHANGED <<database, gitlab, patch, destroy, cloud, upsets, events, stirred>>

\* Mutant: the project is looked up again by its name.
SyncDeleteProjectByName(s, n) ==
    /\ sync[s].pc = "loops" /\ n \in sync[s].strays
    /\ SyncLeft(s, sync[s].strays \ {n}, sync[s].missing)
    /\ project' = [project EXCEPT ![n] = 0]
    /\ Stir(Syncs \ {s})
    /\ UNCHANGED <<database, lastProject, patch, destroy, cloud, upsets, events>>

\* A project goes by its id; an error is logged and the loop goes on.
SyncDeleteProject(s, n) ==
    /\ sync[s].pc = "loops" /\ n \in sync[s].strays
    /\ SyncLeft(s, sync[s].strays \ {n}, sync[s].missing)
    /\ \/ /\ project' = [project EXCEPT ![n] = IF @ = sync[s].page[n] THEN 0 ELSE @]
          /\ Stir(Syncs \ {s})
          /\ UNCHANGED upsets
       \/ /\ Upset
          /\ stirred' = stirred \cup {s}
          /\ UNCHANGED project
    /\ UNCHANGED <<database, lastProject, patch, destroy, cloud, events>>

\* A row goes by its name; the first that is not there ends the sync.
SyncDeleteRow(s, n) ==
    /\ sync[s].pc = "loops" /\ sync[s].strays = {} /\ n \in sync[s].missing
    /\ \/ /\ row[n] # 0
          /\ DropRow(n)
          /\ Note(row[n], "swept")
          /\ SyncLeft(s, {}, sync[s].missing \ {n})
          /\ Stir(Syncs \ {s})
       \/ /\ row[n] = 0
          /\ sync' = [sync EXCEPT ![s] = SyncAt("done")]
          /\ stirred' = stirred \cup {s}
          /\ UNCHANGED <<database, events>>
    /\ UNCHANGED <<gitlab, patch, destroy, cloud, upsets>>

\* The fetch, the query or a deletion in the second loop rejects: logged, answered.
SyncFails(s) ==
    /\ \/ sync[s].pc = "read"
       \/ sync[s].pc = "loops" /\ sync[s].strays = {}
    /\ Upset
    /\ sync' = [sync EXCEPT ![s] = SyncAt("done")]
    /\ stirred' = stirred \cup {s}
    /\ UNCHANGED <<database, gitlab, patch, destroy, cloud, events>>

----------------------------------------------------------------------------
(* POST /gitlab and DELETE /gitlab/:id, which no row knows of. *)

PostProject(n) ==
    /\ project[n] = 0 /\ lastProject < MaxProjects
    /\ Upset
    /\ lastProject' = lastProject + 1
    /\ project' = [project EXCEPT ![n] = lastProject']
    /\ Stir(Syncs)
    /\ UNCHANGED <<database, calls, cloud, events>>

DeleteProject(n) ==
    /\ project[n] # 0
    /\ Upset
    /\ Unproject(n)
    /\ UNCHANGED <<database, lastProject, calls, cloud>>

----------------------------------------------------------------------------
Next ==
    \/ \E n \in Names : CreateRow(n) \/ PostProject(n) \/ DeleteProject(n)
    \/ \E r \in Rows :
        RemoveRequest(r) \/ BuildStarts(r) \/ BuildEnds(r) \/ TeardownRuns(r) \/ Purge(r)
    \/ \E p \in Patches :
        \/ Approve(p) \/ PatchRead(p) \/ PatchProject(p) \/ PatchMark(p)
        \/ PatchDispatch(p) \/ PatchFails(p)
    \/ \E d \in Destroys :
        \/ DestroyRead(d) \/ DestroyFind(d) \/ DestroyRemove(d) \/ DestroySend(d)
        \/ DestroyFails(d)
    \/ \E s \in Syncs :
        \/ SyncFetch(s) \/ SyncRead(s) \/ SyncFails(s)
        \/ \E n \in Names : SyncDeleteProject(s, n) \/ SyncDeleteRow(s, n)

Spec == Init /\ [][Next]_vars

----------------------------------------------------------------------------
(* Properties. *)

Has(r, causes) == events[r] \cap causes # {}

\* A repository that is marked Created has its GitLab project, unless a
\* destroy call or a deletion by hand took it: the sync, which deletes what
\* two old snapshots disagree on, takes no project of a row.
CreatedHasProject ==
    \A n \in Names :
        row[n] \in created => project[n] # 0 \/ Has(row[n], {"unprojected"})

\* When the sync deletes the row of a request that was dispatched, and with it
\* the only way to its infrastructure, the project was made while the sync ran,
\* had been deleted before, or was not on the page that the sync looked at.
SyncKeepsBuilt ==
    \A r \in Rows :
        Has(r, {"swept"}) /\ infra[r] # "none"
            => Has(r, {"overlapped", "unprojected", "crowded"})

\* When a request's rows are purged and something of it stands or is being built,
\* a terraform destroy had failed, and the rows went all the same, or the destroy
\* call and an approval of the same request had overlapped.
PurgeLeavesNothing ==
    \A r \in Rows :
        Has(r, {"purged"}) /\ infra[r] \in {"building", "up"} => Has(r, {"early", "kept"})

\* A request is dispatched a second time only when its project, whose name
\* stops a second approval, was deleted in between.
BuiltTwiceHasACause ==
    \A r \in Rows : Has(r, {"again"}) => Has(r, {"unprojected"})

\* A sync that nothing disturbed, with all projects on its page, leaves a row
\* for every project and a project for every row.
SyncReconciles ==
    \A s \in Syncs \ stirred :
        sync[s].pc = "done" => \A n \in Names : row[n] # 0 <=> project[n] # 0

\* A Created repository that lost its project to a destroy call has a teardown in
\* the queue or under way.  Otherwise the call's message was lost or its run
\* refused, which no one is told; or the request had been deleted by the time the
\* run came; or the call was for an earlier repository of that name, whose project
\* it looked up by name after it had read the request; or an await rejected.
UnprojectedIsTornDown ==
    \A n \in Names :
        row[n] \in created /\ project[n] = 0 /\ upsets = 0
            => \/ teardown[row[n]] \in {"queued", "purging"}
               \/ Has(row[n], {"unsent"})
               \/ row[n] \notin request
               \/ \E d \in Destroys : destroy[d].pc = "send" /\ destroy[d].row = row[n]
               \/ \E q \in 1..(row[n] - 1) : Has(q, {"swept", "purged"})
=============================================================================

---------------------------- MODULE LifecycleProofs ----------------------------
(***************************************************************************)
(* Whose project, row and infrastructure a step may take.  Ids only grow,  *)
(* so nothing that a call holds can come to mean a later row or project;   *)
(* and a project's name, while it is taken, holds off a second approval.   *)
(***************************************************************************)
EXTENDS Lifecycle, TLAPS

USE LifecycleAssumption

At(p, pc, r) == patch[p].pc = pc /\ patch[p].row = r

\* Rows that had a project made for them, and rows that were handed to a DAG.
Marked(r) == r \in created \/ \E p \in Patches : At(p, "mark", r)
Sent(r) == infra[r] # "none" \/ \E p \in Patches : At(p, "dispatch", r)

Looking(s) == sync[s].pc \in {"read", "loops"}

----------------------------------------------------------------------------
(* The inductive invariant. *)

\* What is held was handed out, and what was not handed out has no history.
Fresh ==
    /\ \A n \in Names : row[n] <= lastRow /\ project[n] <= lastProject
    /\ \A s \in Syncs, n \in Names : sync[s].page[n] <= lastProject
    /\ \A p \in Patches :
         patch[p].pc \notin {"idle", "ended"} => patch[p].row \in 1..lastRow
    /\ \A d \in Destroys :
         destroy[d].pc \notin {"idle", "ended"} => destroy[d].row \in 1..lastRow
    /\ \A r \in Rows : r > lastRow =>
         /\ r \notin request \cup created
         /\ infra[r] = "none" /\ teardown[r] = "none" /\ events[r] = {}

\* A row has one name, the one that its calls have read.
OneName ==
    /\ \A m, n \in Names : row[m] = row[n] /\ row[m] # 0 => m = n
    /\ \A p \in Patches, n \in Names :
         patch[p].pc \notin {"idle", "ended"} /\ row[n] = patch[p].row => patch[p].name = n
    /\ \A r \in request : Live(r)
    /\ \A r \in Rows : Has(r, {"swept", "purged"}) => ~Live(r)

\* The project of a marked row is not one that a sync is after.
MarkedHasProject ==
    /\ \A n \in Names :
         row[n] # 0 /\ Marked(row[n]) => project[n] # 0 \/ Has(row[n], {"unprojected"})
    /\ \A s \in Syncs : sync[s].pc = "loops" =>
         \A n \in sync[s].strays :
            /\ sync[s].page[n] # 0
            /\ row[n] # 0 /\ project[n] = sync[s].page[n] /\ Marked(row[n])
                 => Has(row[n], {"unprojected"})

\* What was sent is Created; two calls meet behind the project only without it.
SentIsCreated == \A r \in Rows : Live(r) /\ Sent(r) => r \in created

SentOnce ==
    /\ \A p \in Patches, r \in Rows :
         /\ Live(r) /\ At(p, "mark", r)
         /\ \/ infra[r] # "none"
            \/ \E q \in Patches \ {p} : At(q, "mark", r) \/ At(q, "dispatch", r)
         => Has(r, {"unprojected"})
    /\ \A p \in Patches, r \in Rows :
         /\ At(p, "dispatch", r)
         /\ infra[r] # "none" \/ \E q \in Patches \ {p} : At(q, "dispatch", r)
         => Has(r, {"unprojected"})

\* A marked row that a sync does not see on its page has a cause for it.
Causes == {"overlapped", "unprojected", "crowded"}

SweepsHaveCauses ==
    /\ \A s \in Syncs, n \in Names :
         Looking(s) /\ sync[s].page[n] = 0 /\ row[n] # 0 /\ Marked(row[n]) => Has(row[n], Causes)
    /\ \A s \in Syncs : sync[s].pc = "loops" =>
         \A n \in sync[s].missing : sync[s].page[n] = 0
    /\ \A r \in Rows : Has(r, {"swept"}) /\ Sent(r) => Has(r, Causes)

\* Between the destroy call and the purge nothing new is asked for unnoticed,
\* and what terraform does not take away is noted.
PurgesAreFinal ==
    \A r \in Rows :
        /\ teardown[r] = "queued" /\ (infra[r] \in {"asked", "building"} \/ Approving(r))
             => Has(r, {"early"})
        /\ teardown[r] = "purging" /\ (infra[r] \in {"asked", "building"} \/ Approving(r))
             => Has(r, {"early"})
        /\ teardown[r] = "purging" /\ infra[r] = "up" => Has(r, {"early", "kept"})
        /\ Has(r, {"purged"}) =>
             r \notin request /\ (infra[r] \in {"building", "up"} => Has(r, {"early", "kept"}))

IInv ==
    /\ TypeOK /\ Fresh /\ OneName
    /\ MarkedHasProject /\ SentIsCreated /\ SentOnce /\ BuiltTwiceHasACause
    /\ SweepsHaveCauses /\ PurgesAreFinal

----------------------------------------------------------------------------
(* Which actions move what. *)

LEMMA RowMoves ==
  [Next]_vars =>
    \/ UNCHANGED <<row, lastRow>>
    \/ \E n \in Names : CreateRow(n)
    \/ \E r \in Rows : Purge(r)
    \/ \E s \in Syncs, n \in Names : SyncDeleteRow(s, n)
  BY DEF Next, vars, database, PostProject, DeleteProject, RemoveRequest, BuildStarts,
         BuildEnds, TeardownRuns, Approve, PatchRead, PatchProject, PatchMark,
         PatchDispatch, PatchFails, DestroyRead, DestroyFind, DestroyRemove, DestroySend,
         DestroyFails, SyncFetch, SyncRead, SyncFails, SyncDeleteProject

LEMMA RequestMoves ==
  [Next]_vars =>
    \/ UNCHANGED request
    \/ \E n \in Names : CreateRow(n)
    \/ \E r \in Rows : RemoveRequest(r) \/ Purge(r)
    \/ \E s \in Syncs, n \in Names : SyncDeleteRow(s, n)
  BY DEF Next, vars, database, PostProject, DeleteProject, BuildStarts, BuildEnds,
         TeardownRuns, Approve, PatchRead, PatchProject, PatchMark, PatchDispatch,
         PatchFails, DestroyRead, DestroyFind, DestroyRemove, DestroySend, DestroyFails,
         SyncFetch, SyncRead, SyncFails, SyncDeleteProject

LEMMA CreatedMoves ==
  [Next]_vars =>
    \/ UNCHANGED created
    \/ \E p \in Patches : PatchMark(p)
    \/ \E r \in Rows : Purge(r)
    \/ \E s \in Syncs, n \in Names : SyncDeleteRow(s, n)
  BY DEF Next, vars, database, CreateRow, PostProject, DeleteProject, RemoveRequest,
         BuildStarts, BuildEnds, TeardownRuns, Approve, PatchRead, PatchProject,
         PatchDispatch, PatchFails, DestroyRead, DestroyFind, DestroyRemove, DestroySend,
         DestroyFails, SyncFetch, SyncRead, SyncFails, SyncDeleteProject

LEMMA ProjectMoves ==
  [Next]_vars =>
    \/ UNCHANGED <<project, lastProject>>
    \/ \E p \in Patches : PatchProject(p)
    \/ \E d \in Destroys : DestroyRemove(d)
    \/ \E s \in Syncs, n \in Names : SyncDeleteProject(s, n)
    \/ \E n \in Names : PostProject(n) \/ DeleteProject(n)
  BY DEF Next, vars, gitlab, CreateRow, RemoveRequest, BuildStarts, BuildEnds,
         TeardownRuns, Purge, Approve, PatchRead, PatchMark, PatchDispatch, PatchFails,
         DestroyRead, DestroyFind, DestroySend, DestroyFails, SyncFetch, SyncRead,
         SyncFails, SyncDeleteRow

LEMMA PatchMoves ==
  [Next]_vars =>
    \/ UNCHANGED patch
    \/ \E p \in Patches :
         \/ Approve(p) \/ PatchRead(p) \/ PatchProject(p)
         \/ PatchMark(p) \/ PatchDispatch(p) \/ PatchFails(p)
  BY DEF Next, vars, calls, CreateRow, PostProject, DeleteProject, RemoveRequest,
         BuildStarts, BuildEnds, TeardownRuns, Purge, DestroyRead, DestroyFind,
         DestroyRemove, DestroySend, DestroyFails, SyncFetch, SyncRead, SyncFails,
         SyncDeleteProject, SyncDeleteRow

LEMMA DestroyMoves ==
  [Next]_vars =>
    \/ UNCHANGED destroy
    \/ \E d \in Destroys :
         \/ DestroyRead(d) \/ DestroyFind(d) \/ DestroyRemove(d)
         \/ DestroySend(d) \/ DestroyFails(d)
  BY DEF Next, vars, calls, CreateRow, PostProject, DeleteProject, RemoveRequest,
         BuildStarts, BuildEnds, TeardownRuns, Purge, Approve, PatchRead, PatchProject,
         PatchMark, PatchDispatch, PatchFails, SyncFetch, SyncRead, SyncFails,
         SyncDeleteProject, SyncDeleteRow

LEMMA SyncMoves ==
  [Next]_vars =>
    \/ UNCHANGED sync
    \/ \E s \in Syncs : SyncFetch(s) \/ SyncRead(s) \/ SyncFails(s)
    \/ \E s \in Syncs, n \in Names : SyncDeleteProject(s, n) \/ SyncDeleteRow(s, n)
  BY DEF Next, vars, calls, CreateRow, PostProject, DeleteProject, RemoveRequest,
         BuildStarts, BuildEnds, TeardownRuns, Purge, Approve, PatchRead, PatchProject,
         PatchMark, PatchDispatch, PatchFails, DestroyRead, DestroyFind, DestroyRemove,
         DestroySend, DestroyFails

LEMMA InfraMoves ==
  [Next]_vars =>
    \/ UNCHANGED infra
    \/ \E p \in Patches : PatchDispatch(p)
    \/ \E r \in Rows : BuildStarts(r) \/ BuildEnds(r) \/ TeardownRuns(r)
  BY DEF Next, vars, cloud, CreateRow, PostProject, DeleteProject, RemoveRequest, Purge,
         Approve, PatchRead, PatchProject, PatchMark, PatchFails, DestroyRead, DestroyFind,
         DestroyRemove, DestroySend, DestroyFails, SyncFetch, SyncRead, SyncFails,
         SyncDeleteProject, SyncDeleteRow

LEMMA TeardownMoves ==
  [Next]_vars =>
    \/ UNCHANGED teardown
    \/ \E d \in Destroys : DestroySend(d)
    \/ \E r \in Rows : TeardownRuns(r) \/ Purge(r)
  BY DEF Next, vars, cloud, CreateRow, PostProject, DeleteProject, RemoveRequest,
         BuildStarts, BuildEnds, Approve, PatchRead, PatchProject, PatchMark,
         PatchDispatch, PatchFails, DestroyRead, DestroyFind, DestroyRemove, DestroyFails,
         SyncFetch, SyncRead, SyncFails, SyncDeleteProject, SyncDeleteRow

LEMMA EventsMoves ==
  [Next]_vars =>
    \/ UNCHANGED events
    \/ \E p \in Patches : Approve(p) \/ PatchProject(p) \/ PatchDispatch(p)
    \/ \E d \in Destroys : DestroyRemove(d) \/ DestroySend(d)
    \/ \E r \in Rows : TeardownRuns(r) \/ Purge(r)
    \/ \E s \in Syncs : SyncFetch(s)
    \/ \E s \in Syncs, n \in Names : SyncDeleteRow(s, n)
    \/ \E n \in Names : DeleteProject(n)
  BY DEF Next, vars, CreateRow, PostProject, RemoveRequest, BuildStarts, BuildEnds,
         PatchRead, PatchMark, PatchFails, DestroyRead, DestroyFind, DestroyFails,
         SyncRead, SyncFails, SyncDeleteProject

\* What a destroy call notes when it sends, and what its run notes.
LEMMA SendNotes ==
  ASSUME NEW d \in Destroys, DestroySend(d)
  PROVE  UNCHANGED events \/ \E E \in SUBSET {"early", "unsent"} : NoteAll(destroy[d].row, E)
  <1>1. CASE "purged" \in events[destroy[d].row] /\ UNCHANGED events
    BY <1>1
  <1>2. CASE \E arrives, triggered \in BOOLEAN :
                NoteAll(destroy[d].row,
                        (IF \/ infra[destroy[d].row] \in {"asked", "building"}
                            \/ Approving(destroy[d].row)
                         THEN {"early"} ELSE {})
                        \cup (IF arrives /\ triggered THEN {} ELSE {"unsent"}))
    <2>1. PICK arrives, triggered \in BOOLEAN :
             NoteAll(destroy[d].row,
                     (IF \/ infra[destroy[d].row] \in {"asked", "building"}
                         \/ Approving(destroy[d].row)
                      THEN {"early"} ELSE {})
                     \cup (IF arrives /\ triggered THEN {} ELSE {"unsent"}))
      BY <1>2
    <2> QED
      BY <2>1
  <1> QED
    BY <1>1, <1>2 DEF DestroySend

LEMMA RunNotes ==
  ASSUME NEW r \in Rows, TeardownRuns(r)
  PROVE  UNCHANGED events \/ (Note(r, "kept") /\ teardown[r] = "queued")
  BY DEF TeardownRuns

----------------------------------------------------------------------------
(* Types. *)

LEMMA RowTypes ==
  ASSUME TypeOK, [Next]_vars
  PROVE  row' \in [Names -> 0..MaxRows] /\ lastRow' \in 0..MaxRows
  <1>0. row \in [Names -> 0..MaxRows] /\ lastRow \in 0..MaxRows
    BY DEF TypeOK
  <1>1. ASSUME NEW n \in Names, CreateRow(n)
        PROVE  row' \in [Names -> 0..MaxRows] /\ lastRow' \in 0..MaxRows
    BY <1>0, <1>1 DEF CreateRow
  <1>2. ASSUME NEW r \in Rows, Purge(r)
        PROVE  row' \in [Names -> 0..MaxRows] /\ lastRow' \in 0..MaxRows
    <2>1. UNCHANGED database \/ \E n \in Names : DropRow(n)
      BY <1>2 DEF Purge, NameOf
    <2> QED
      BY <1>0, <2>1 DEF DropRow, database
  <1>3. ASSUME NEW s \in Syncs, NEW n \in Names, SyncDeleteRow(s, n)
        PROVE  row' \in [Names -> 0..MaxRows] /\ lastRow' \in 0..MaxRows
    BY <1>0, <1>3 DEF SyncDeleteRow, DropRow, database
  <1> QED
    BY <1>0, <1>1, <1>2, <1>3, RowMoves

LEMMA RequestTypes ==
  ASSUME TypeOK, Fresh, [Next]_vars
  PROVE  request' \in SUBSET Rows /\ created' \in SUBSET Rows
  <1>1. ASSUME NEW n \in Names, CreateRow(n) PROVE request' \in SUBSET Rows
    BY <1>1 DEF TypeOK, CreateRow, Rows
  <1>2. ASSUME NEW r \in Rows, RemoveRequest(r) PROVE request' \in SUBSET Rows
    BY <1>2 DEF TypeOK, RemoveRequest
  <1>3. ASSUME NEW r \in Rows, Purge(r) PROVE request' \in SUBSET Rows /\ created' \in SUBSET Rows
    <2>1. UNCHANGED database \/ \E n \in Names : DropRow(n)
      BY <1>3 DEF Purge, NameOf
    <2> QED
      BY <2>1 DEF TypeOK, DropRow, database
  <1>4. ASSUME NEW s \in Syncs, NEW n \in Names, SyncDeleteRow(s, n)
        PROVE  request' \in SUBSET Rows /\ created' \in SUBSET Rows
    BY <1>4 DEF TypeOK, SyncDeleteRow, DropRow, database
  <1>5. ASSUME NEW p \in Patches, PatchMark(p) PROVE created' \in SUBSET Rows
    <2>1. patch[p].row \in 1..MaxRows
      BY <1>5 DEF TypeOK, Fresh, PatchMark
    <2>2. created' = created \cup {patch[p].row} \/ created' = created
      BY <1>5 DEF PatchMark
    <2> QED
      BY <2>1, <2>2 DEF TypeOK, Rows
  <1> QED
    BY <1>1, <1>2, <1>3, <1>4, <1>5, RequestMoves, CreatedMoves DEF TypeOK

LEMMA ProjectTypes ==
  ASSUME TypeOK, [Next]_vars
  PROVE  project' \in [Names -> 0..MaxProjects] /\ lastProject' \in 0..MaxProjects
  <1>0. project \in [Names -> 0..MaxProjects] /\ lastProject \in 0..MaxProjects
    BY DEF TypeOK
  <1>1. ASSUME NEW p \in Patches, PatchProject(p)
        PROVE  project' \in [Names -> 0..MaxProjects] /\ lastProject' \in 0..MaxProjects
    BY <1>0, <1>1 DEF PatchProject, gitlab
  <1>2. ASSUME NEW d \in Destroys, DestroyRemove(d)
        PROVE  project' \in [Names -> 0..MaxProjects] /\ lastProject' \in 0..MaxProjects
    BY <1>0, <1>2 DEF DestroyRemove, Unproject
  <1>3. ASSUME NEW s \in Syncs, NEW n \in Names, SyncDeleteProject(s, n)
        PROVE  project' \in [Names -> 0..MaxProjects] /\ lastProject' \in 0..MaxProjects
    BY <1>0, <1>3 DEF SyncDeleteProject
  <1>4. ASSUME NEW n \in Names, PostProject(n)
        PROVE  project' \in [Names -> 0..MaxProjects] /\ lastProject' \in 0..MaxProjects
    BY <1>0, <1>4 DEF PostProject
  <1>5. ASSUME NEW n \in Names, DeleteProject(n)
        PROVE  project' \in [Names -> 0..MaxProjects] /\ lastProject' \in 0..MaxProjects
    BY <1>0, <1>5 DEF DeleteProject, Unproject
  <1> QED
    BY <1>0, <1>1, <1>2, <1>3, <1>4, <1>5, ProjectMoves

PatchCalls ==
    [pc : {"idle", "read", "project", "mark", "dispatch", "ended"}, name : Names, row : 0..MaxRows]
DestroyCalls ==
    [pc : {"idle", "find", "remove", "send", "ended"}, name : Names, row : 0..MaxRows,
     project : 0..MaxProjects]
SyncCalls ==
    [pc : {"idle", "read", "loops", "done"}, page : [Names -> 0..MaxProjects],
     strays : SUBSET Names, missing : SUBSET Names]

LEMMA RestTypes == TypeOK => /\ \A pc \in {"idle", "ended"} : PatchAt(pc) \in PatchCalls
                             /\ \A pc \in {"idle", "ended"} : DestroyAt(pc) \in DestroyCalls
                             /\ \A pc \in {"idle", "done"} : SyncAt(pc) \in SyncCalls
  <1>1. AnyName \in Names
    BY DEF AnyName, LifecycleAssumption
  <1> QED
    BY <1>1 DEF PatchAt, DestroyAt, SyncAt, PatchCalls, DestroyCalls, SyncCalls, LifecycleAssumption

\* A call that takes its next step keeps what it holds.
LEMMA PatchToIs ==
  ASSUME TypeOK, NEW p \in Patches, NEW pc \in {"project", "mark", "dispatch"}, PatchTo(p, pc)
  PROVE  patch' = [patch EXCEPT ![p] = [pc |-> pc, name |-> patch[p].name, row |-> patch[p].row]]
  <1>1. patch[p] \in PatchCalls /\ patch \in [Patches -> PatchCalls]
    BY DEF TypeOK, PatchCalls
  <1>2. [patch[p] EXCEPT !.pc = pc] = [pc |-> pc, name |-> patch[p].name, row |-> patch[p].row]
    BY <1>1 DEF PatchCalls
  <1> QED
    BY <1>1, <1>2 DEF PatchTo

\* What a step makes of a PATCH call.
LEMMA PatchStep ==
  ASSUME TypeOK, [Next]_vars, NEW p \in Patches
  PROVE  \/ patch'[p] = patch[p]
         \/ patch'[p] = PatchAt("ended")
         \/ \E n \in Names :
              /\ Approve(p) /\ row[n] \in request
              /\ patch'[p] = [pc |-> "read", name |-> n, row |-> row[n]]
         \/ /\ \/ PatchRead(p) /\ patch'[p].pc = "project"
               \/ PatchProject(p) /\ patch'[p].pc = "mark"
               \/ PatchMark(p) /\ patch'[p].pc = "dispatch" /\ Live(patch[p].row)
            /\ patch'[p] = [pc |-> patch'[p].pc, name |-> patch[p].name, row |-> patch[p].row]
  <1>1. ASSUME NEW q \in Patches, Approve(q) PROVE
           \/ patch'[p] = patch[p]
           \/ q = p /\ \E n \in Names :
                /\ row[n] \in request
                /\ patch'[p] = [pc |-> "read", name |-> n, row |-> row[n]]
    BY <1>1 DEF TypeOK, Approve
  <1>2. ASSUME NEW q \in Patches, PatchRead(q) PROVE
           \/ patch'[p] = patch[p]
           \/ patch'[p] = PatchAt("ended")
           \/ q = p /\ patch'[p] = [pc |-> "project", name |-> patch[p].name, row |-> patch[p].row]
    <2>1. \/ PatchEnds(q)
          \/ patch' = [patch EXCEPT ![q] =
                [pc |-> "project", name |-> patch[q].name, row |-> patch[q].row]]
      BY <1>2, PatchToIs DEF PatchRead
    <2> QED
      BY <2>1 DEF TypeOK, PatchEnds
  <1>3. ASSUME NEW q \in Patches, PatchProject(q) PROVE
           \/ patch'[p] = patch[p]
           \/ patch'[p] = PatchAt("ended")
           \/ q = p /\ patch'[p] = [pc |-> "mark", name |-> patch[p].name, row |-> patch[p].row]
    <2>1. \/ PatchEnds(q)
          \/ patch' = [patch EXCEPT ![q] =
                [pc |-> "mark", name |-> patch[q].name, row |-> patch[q].row]]
      BY <1>3, PatchToIs DEF PatchProject
    <2> QED
      BY <2>1 DEF TypeOK, PatchEnds
  <1>4. ASSUME NEW q \in Patches, PatchMark(q) PROVE
           \/ patch'[p] = patch[p]
           \/ patch'[p] = PatchAt("ended")
           \/ /\ q = p /\ Live(patch[p].row)
              /\ patch'[p] = [pc |-> "dispatch", name |-> patch[p].name, row |-> patch[p].row]
    <2>1. \/ PatchEnds(q)
          \/ /\ Live(patch[q].row)
             /\ patch' = [patch EXCEPT ![q] =
                  [pc |-> "dispatch", name |-> patch[q].name, row |-> patch[q].row]]
      BY <1>4, PatchToIs DEF PatchMark
    <2> QED
      BY <2>1 DEF TypeOK, PatchEnds
  <1>5. ASSUME NEW q \in Patches, PatchDispatch(q) \/ PatchFails(q)
        PROVE  patch'[p] = patch[p] \/ patch'[p] = PatchAt("ended")
    BY <1>5 DEF TypeOK, PatchDispatch, PatchFails, PatchEnds
  <1> QED
    BY <1>1, <1>2, <1>3, <1>4, <1>5, PatchMoves

LEMMA PatchTypes ==
  ASSUME TypeOK, [Next]_vars
  PROVE  patch' \in [Patches -> PatchCalls]
  <1>1. ASSUME NEW p \in Patches PROVE patch'[p] \in PatchCalls
    <2>1. patch[p] \in PatchCalls /\ PatchAt("ended") \in PatchCalls
      BY RestTypes DEF TypeOK, PatchCalls
    <2>2. ASSUME NEW pc \in {"read", "project", "mark", "dispatch"}, NEW n \in Names,
                 NEW r \in 0..MaxRows
          PROVE  [pc |-> pc, name |-> n, row |-> r] \in PatchCalls
      BY DEF PatchCalls
    <2>3. /\ patch[p].name \in Names /\ patch[p].row \in 0..MaxRows
          /\ \A n \in Names : row[n] \in 0..MaxRows
      BY <2>1 DEF TypeOK, PatchCalls
    <2> QED
      BY <2>1, <2>2, <2>3, PatchStep
  <1>2. patch \in [Patches -> PatchCalls]
    BY DEF TypeOK, PatchCalls
  <1>3. patch' = [p \in Patches |-> patch'[p]]
    BY <1>2, PatchMoves DEF Approve, PatchRead, PatchProject, PatchMark, PatchDispatch,
         PatchFails, PatchTo, PatchEnds
  <1> QED
    BY <1>1, <1>3

\* The same, field by field, for a call that goes on.
LEMMA PatchGoesOn ==
  ASSUME TypeOK, [Next]_vars, NEW p \in Patches, patch'[p].pc \notin {"idle", "ended"}
  PROVE  \/ patch'[p] = patch[p]
         \/ /\ Approve(p) /\ patch'[p].pc = "read"
            /\ \E n \in Names :
                 row[n] \in request /\ patch'[p].name = n /\ patch'[p].row = row[n]
         \/ /\ patch'[p].name = patch[p].name /\ patch'[p].row = patch[p].row
            /\ \/ PatchRead(p) /\ patch[p].pc = "read" /\ patch'[p].pc = "project"
               \/ PatchProject(p) /\ patch[p].pc = "project" /\ patch'[p].pc = "mark"
               \/ /\ PatchMark(p) /\ patch[p].pc = "mark" /\ patch'[p].pc = "dispatch"
                  /\ Live(patch[p].row)
  <1>1. patch'[p] # PatchAt("ended")
    BY DEF PatchAt
  <1>2. ASSUME NEW n \in Names, patch'[p] = [pc |-> "read", name |-> n, row |-> row[n]]
        PROVE  patch'[p].pc = "read" /\ patch'[p].name = n /\ patch'[p].row = row[n]
    BY <1>2
  <1>3. ASSUME NEW pc, patch'[p] = [pc |-> pc, name |-> patch[p].name, row |-> patch[p].row]
        PROVE  patch'[p].name = patch[p].name /\ patch'[p].row = patch[p].row
    BY <1>3
  <1>4. /\ PatchRead(p) => patch[p].pc = "read"
        /\ PatchProject(p) => patch[p].pc = "project"
        /\ PatchMark(p) => patch[p].pc = "mark"
    BY DEF PatchRead, PatchProject, PatchMark
  <1> QED
    BY <1>1, <1>2, <1>3, <1>4, PatchStep

LEMMA DestroyTypes ==
  ASSUME TypeOK, Fresh, [Next]_vars
  PROVE  /\ destroy' \in [Destroys -> DestroyCalls]
         /\ \A d \in Destroys :
              destroy'[d].pc \notin {"idle", "ended"} => destroy'[d].row \in 1..lastRow
  <1>0. /\ destroy \in [Destroys -> DestroyCalls]
        /\ \A d \in Destroys :
              destroy[d].pc \notin {"idle", "ended"} => destroy[d].row \in 1..lastRow
        /\ DestroyAt("ended") \in DestroyCalls /\ DestroyAt("ended").pc = "ended"
    BY RestTypes DEF TypeOK, Fresh, DestroyCalls, DestroyAt
  <1>1. ASSUME NEW d \in Destroys, DestroyEnds(d)
        PROVE  /\ destroy' \in [Destroys -> DestroyCalls]
               /\ \A e \in Destroys :
                    destroy'[e].pc \notin {"idle", "ended"} => destroy'[e].row \in 1..lastRow
    BY <1>0, <1>1 DEF DestroyEnds
  <1>2. ASSUME NEW d \in Destroys, NEW call \in DestroyCalls, call.row \in 1..lastRow,
               destroy' = [destroy EXCEPT ![d] = call]
        PROVE  /\ destroy' \in [Destroys -> DestroyCalls]
               /\ \A e \in Destroys :
                    destroy'[e].pc \notin {"idle", "ended"} => destroy'[e].row \in 1..lastRow
    BY <1>0, <1>2
  <1>3. ASSUME NEW d \in Destroys, DestroyRead(d)
        PROVE  \/ DestroyEnds(d)
               \/ \E call \in DestroyCalls :
                    call.row \in 1..lastRow /\ destroy' = [destroy EXCEPT ![d] = call]
    <2>1. ASSUME NEW r \in request, NEW n \in Names, row[n] = r
          PROVE  /\ [pc |-> "find", name |-> n, row |-> r, project |-> 0] \in DestroyCalls
                 /\ r \in 1..lastRow
      BY <2>1 DEF TypeOK, Fresh, DestroyCalls, Rows, LifecycleAssumption
    <2> QED
      BY <1>3, <2>1 DEF DestroyRead
  <1>4. ASSUME NEW d \in Destroys, DestroyFind(d) \/ DestroyRemove(d)
        PROVE  \E call \in DestroyCalls :
                  call.row \in 1..lastRow /\ destroy' = [destroy EXCEPT ![d] = call]
    <2>1. destroy[d].row \in 1..lastRow
      BY <1>0, <1>4 DEF DestroyFind, DestroyRemove
    <2>2. CASE DestroyRemove(d)
      <3>1. [destroy[d] EXCEPT !.pc = "send"] \in DestroyCalls
        BY <1>0 DEF DestroyCalls
      <3>2. [destroy[d] EXCEPT !.pc = "send"].row = destroy[d].row
        BY <1>0 DEF DestroyCalls
      <3>3. destroy' = [destroy EXCEPT ![d] = [destroy[d] EXCEPT !.pc = "send"]]
        BY <1>0, <2>2 DEF DestroyRemove, DestroyTo
      <3> QED
        BY <2>1, <3>1, <3>2, <3>3
    <2>3. CASE DestroyFind(d)
      <3>0. PICK id \in {0, project[destroy[d].name]} :
               destroy' = [destroy EXCEPT ![d].project = id,
                                          ![d].pc = IF id = 0 THEN "send" ELSE "remove"]
        BY <2>3 DEF DestroyFind
      <3> DEFINE pc == IF id = 0 THEN "send" ELSE "remove"
                 call == [[destroy[d] EXCEPT !.project = id] EXCEPT !.pc = pc]
      <3>1. id \in 0..MaxProjects
        BY <1>0 DEF TypeOK, DestroyCalls, LifecycleAssumption
      <3>2. call \in DestroyCalls /\ call.row = destroy[d].row
        BY <1>0, <3>1 DEF DestroyCalls
      <3>3. destroy' = [destroy EXCEPT ![d] = call]
        BY <1>0, <3>0
      <3> QED
        BY <2>1, <3>2, <3>3
    <2> QED
      BY <1>4, <2>2, <2>3
  <1>5. ASSUME NEW d \in Destroys, DestroySend(d) \/ DestroyFails(d) PROVE DestroyEnds(d)
    BY <1>5 DEF DestroySend, DestroyFails
  <1> QED
    BY <1>0, <1>1, <1>2, <1>3, <1>4, <1>5, DestroyMoves

\* What a step makes of a sync.
LEMMA SyncStep ==
  ASSUME TypeOK, [Next]_vars, NEW s \in Syncs
  PROVE  \/ sync'[s] = sync[s]
         \/ sync'[s] = SyncAt("done")
         \/ /\ SyncFetch(s)
            /\ sync'[s] = [pc |-> "read", page |-> FirstPage,
                           strays |-> {}, missing |-> {}]
         \/ /\ SyncRead(s)
            /\ sync'[s] = [pc |-> "loops", page |-> sync[s].page,
                           strays |-> {n \in Names : sync[s].page[n] # 0 /\ row[n] = 0},
                           missing |-> {n \in Names : sync[s].page[n] = 0 /\ row[n] # 0}]
         \/ \E strays \in SUBSET sync[s].strays, missing \in SUBSET sync[s].missing :
              /\ sync[s].pc = "loops"
              /\ sync'[s] = [pc |-> "loops", page |-> sync[s].page,
                             strays |-> strays, missing |-> missing]
  <1>0. sync \in [Syncs -> SyncCalls] /\ sync[s] \in SyncCalls
    BY DEF TypeOK, SyncCalls
  <1>1. ASSUME NEW t \in Syncs, SyncFetch(t)
        PROVE  \/ sync'[s] = sync[s]
               \/ s = t /\ sync'[s] = [pc |-> "read", page |-> FirstPage,
                                       strays |-> {}, missing |-> {}]
    BY <1>0, <1>1 DEF SyncFetch
  <1>2. ASSUME NEW t \in Syncs, SyncRead(t)
        PROVE  \/ sync'[s] = sync[s]
               \/ sync'[s] = SyncAt("done")
               \/ /\ s = t
                  /\ sync'[s] = [pc |-> "loops", page |-> sync[s].page,
                           strays |-> {n \in Names : sync[s].page[n] # 0 /\ row[n] = 0},
                           missing |-> {n \in Names : sync[s].page[n] = 0 /\ row[n] # 0}]
    BY <1>0, <1>2 DEF SyncRead, SyncLeft
  <1> DEFINE Loops == \E strays \in SUBSET sync[s].strays, missing \in SUBSET sync[s].missing :
                        /\ sync[s].pc = "loops"
                        /\ sync'[s] = [pc |-> "loops", page |-> sync[s].page,
                                       strays |-> strays, missing |-> missing]
  <1>3. ASSUME NEW t \in Syncs, NEW strays \in SUBSET sync[t].strays,
               NEW missing \in SUBSET sync[t].missing,
               sync[t].pc = "loops", SyncLeft(t, strays, missing)
        PROVE  sync'[s] = sync[s] \/ sync'[s] = SyncAt("done") \/ Loops
    BY <1>0, <1>3 DEF SyncLeft
  <1>4. ASSUME NEW t \in Syncs, NEW n \in Names, SyncDeleteProject(t, n)
        PROVE  sync'[s] = sync[s] \/ sync'[s] = SyncAt("done") \/ Loops
    <2>1. sync[t].pc = "loops" /\ SyncLeft(t, sync[t].strays \ {n}, sync[t].missing)
      BY <1>4 DEF SyncDeleteProject
    <2> HIDE DEF Loops
    <2> QED
      BY <2>1, <1>3
  <1>5. ASSUME NEW t \in Syncs, sync' = [sync EXCEPT ![t] = SyncAt("done")]
        PROVE  sync'[s] = sync[s] \/ sync'[s] = SyncAt("done")
    BY <1>0, <1>5
  <1>6. ASSUME NEW t \in Syncs, NEW n \in Names, SyncDeleteRow(t, n)
        PROVE  sync'[s] = sync[s] \/ sync'[s] = SyncAt("done") \/ Loops
    <2>1. /\ sync[t].pc = "loops"
          /\ \/ SyncLeft(t, {}, sync[t].missing \ {n})
             \/ sync' = [sync EXCEPT ![t] = SyncAt("done")]
      BY <1>6 DEF SyncDeleteRow
    <2> HIDE DEF Loops
    <2> QED
      BY <2>1, <1>3, <1>5
  <1>7. ASSUME NEW t \in Syncs, SyncFails(t) PROVE sync'[s] = sync[s] \/ sync'[s] = SyncAt("done")
    BY <1>5, <1>7 DEF SyncFails
  <1> QED
    BY <1>1, <1>2, <1>4, <1>6, <1>7, SyncMoves

LEMMA SyncPages ==
  ASSUME TypeOK, [Next]_vars, NEW s \in Syncs
  PROVE  sync'[s].page \in {sync[s].page, FirstPage, SyncAt("done").page}
  <1>1. ASSUME NEW pc, NEW page, NEW strays, NEW missing,
               sync'[s] = [pc |-> pc, page |-> page, strays |-> strays, missing |-> missing]
        PROVE  sync'[s].page = page
    BY <1>1
  <1>2. CASE \E strays \in SUBSET sync[s].strays, missing \in SUBSET sync[s].missing :
               /\ sync[s].pc = "loops"
               /\ sync'[s] = [pc |-> "loops", page |-> sync[s].page,
                              strays |-> strays, missing |-> missing]
    BY <1>1, <1>2
  <1>3. CASE SyncRead(s) /\ sync'[s] =
                [pc |-> "loops", page |-> sync[s].page,
                 strays |-> {n \in Names : sync[s].page[n] # 0 /\ row[n] = 0},
                 missing |-> {n \in Names : sync[s].page[n] = 0 /\ row[n] # 0}]
    BY <1>3
  <1>4. CASE SyncFetch(s) /\ sync'[s] =
                [pc |-> "read", page |-> FirstPage, strays |-> {}, missing |-> {}]
    BY <1>4
  <1>5. CASE sync'[s] = sync[s] \/ sync'[s] = SyncAt("done")
    BY <1>5
  <1> QED
    BY <1>2, <1>3, <1>4, <1>5, SyncStep

\* What a sync in its loops has left to do, and from which snapshots.
LEMMA LoopsStep ==
  ASSUME TypeOK, [Next]_vars, NEW s \in Syncs, sync'[s].pc = "loops"
  PROVE  /\ sync'[s].page = sync[s].page
         /\ \/ /\ sync[s].pc = "loops"
               /\ sync'[s].strays \subseteq sync[s].strays
               /\ sync'[s].missing \subseteq sync[s].missing
            \/ /\ sync[s].pc = "read"
               /\ sync'[s].strays = {n \in Names : sync[s].page[n] # 0 /\ row[n] = 0}
               /\ sync'[s].missing = {n \in Names : sync[s].page[n] = 0 /\ row[n] # 0}
  <1>1. CASE \E strays \in SUBSET sync[s].strays, missing \in SUBSET sync[s].missing :
               /\ sync[s].pc = "loops"
               /\ sync'[s] = [pc |-> "loops", page |-> sync[s].page,
                              strays |-> strays, missing |-> missing]
    BY <1>1
  <1>2. CASE SyncRead(s) /\ sync'[s] =
                [pc |-> "loops", page |-> sync[s].page,
                 strays |-> {n \in Names : sync[s].page[n] # 0 /\ row[n] = 0},
                 missing |-> {n \in Names : sync[s].page[n] = 0 /\ row[n] # 0}]
    <2>1. sync[s].pc = "read"
      BY <1>2 DEF SyncRead
    <2> QED
      BY <1>2, <2>1
  <1>3. CASE SyncFetch(s) /\ sync'[s] =
                [pc |-> "read", page |-> FirstPage, strays |-> {}, missing |-> {}]
    BY <1>3
  <1>4. CASE sync'[s] = sync[s]
    BY <1>4
  <1>5. sync'[s] # SyncAt("done")
    BY DEF SyncAt
  <1> QED
    BY <1>1, <1>2, <1>3, <1>4, <1>5, SyncStep

LEMMA PageTypes ==
  ASSUME TypeOK
  PROVE  /\ FirstPage \in [Names -> 0..MaxProjects]
         /\ \A n \in Names : FirstPage[n] \in {0, project[n]}
  BY DEF TypeOK, FirstPage

LEMMA SyncTypes ==
  ASSUME TypeOK, [Next]_vars
  PROVE  sync' \in [Syncs -> SyncCalls]
  <1>0. sync \in [Syncs -> SyncCalls]
    BY DEF TypeOK, SyncCalls
  <1>1. ASSUME NEW s \in Syncs PROVE sync'[s] \in SyncCalls
    <2> HIDE DEF SyncCalls
    <2>1. sync[s] \in SyncCalls /\ SyncAt("done") \in SyncCalls
      BY <1>0, RestTypes
    <2>2. ASSUME NEW pc \in {"read", "loops"}, NEW page \in [Names -> 0..MaxProjects],
                 NEW strays \in SUBSET Names, NEW missing \in SUBSET Names
          PROVE  [pc |-> pc, page |-> page, strays |-> strays, missing |-> missing] \in SyncCalls
      BY DEF SyncCalls
    <2>3. /\ sync[s].page \in [Names -> 0..MaxProjects]
          /\ sync[s].strays \in SUBSET Names /\ sync[s].missing \in SUBSET Names
      BY <2>1 DEF SyncCalls
    <2>4. /\ {n \in Names : sync[s].page[n] # 0 /\ row[n] = 0} \in SUBSET Names
          /\ {n \in Names : sync[s].page[n] = 0 /\ row[n] # 0} \in SUBSET Names
          /\ {} \in SUBSET Names
      BY <2>3
    <2> QED
      <3>1. ASSUME NEW strays \in SUBSET sync[s].strays, NEW missing \in SUBSET sync[s].missing,
                   sync'[s] = [pc |-> "loops", page |-> sync[s].page,
                               strays |-> strays, missing |-> missing]
            PROVE  sync'[s] \in SyncCalls
        <4>1. strays \in SUBSET Names /\ missing \in SUBSET Names
          BY <2>3
        <4> QED
          BY <2>2, <2>3, <3>1, <4>1
      <3>2. CASE sync'[s] = [pc |-> "loops", page |-> sync[s].page,
                             strays |-> {n \in Names : sync[s].page[n] # 0 /\ row[n] = 0},
                             missing |-> {n \in Names : sync[s].page[n] = 0 /\ row[n] # 0}]
        BY <2>2, <2>3, <2>4, <3>2
      <3>3. CASE sync'[s] = [pc |-> "read", page |-> FirstPage, strays |-> {}, missing |-> {}]
        BY <2>2, <2>4, <3>3, PageTypes
      <3> QED
        BY <2>1, <3>1, <3>2, <3>3, SyncStep
  <1>2. sync' = [s \in Syncs |-> sync'[s]]
    BY <1>0, SyncMoves DEF SyncFetch, SyncRead, SyncFails, SyncDeleteProject, SyncDeleteRow,
         SyncLeft
  <1> QED
    BY <1>1, <1>2

LEMMA CloudTypes ==
  ASSUME TypeOK, [Next]_vars
  PROVE  /\ infra' \in [Rows -> {"none", "asked", "building", "up"}]
         /\ teardown' \in [Rows -> {"none", "queued", "purging", "done", "failed"}]
  <1>0. /\ infra \in [Rows -> {"none", "asked", "building", "up"}]
        /\ teardown \in [Rows -> {"none", "queued", "purging", "done", "failed"}]
    BY DEF TypeOK
  <1>1. infra' \in [Rows -> {"none", "asked", "building", "up"}]
    BY <1>0, InfraMoves DEF PatchDispatch, BuildStarts, BuildEnds, TeardownRuns
  <1>2. teardown' \in [Rows -> {"none", "queued", "purging", "done", "failed"}]
    BY <1>0, TeardownMoves DEF DestroySend, TeardownRuns, Purge
  <1> QED
    BY <1>1, <1>2

\* Every kind of event a step records, and none is ever taken back.
LEMMA EventsStep ==
  ASSUME TypeOK, [Next]_vars
  PROVE  /\ events' \in [Rows -> SUBSET Events]
         /\ \A r \in Rows : events[r] \subseteq events'[r]
  <1>0. events \in [Rows -> SUBSET Events]
    BY DEF TypeOK
  <1> DEFINE Grows == /\ events' \in [Rows -> SUBSET Events]
                      /\ \A r \in Rows : events[r] \subseteq events'[r]
  <1>a. ASSUME NEW r, NEW E \in SUBSET Events, NoteAll(r, E) PROVE Grows
    BY <1>0, <1>a DEF NoteAll
  <1>1. ASSUME NEW r, NEW e \in Events, Note(r, e) PROVE Grows
    BY <1>0, <1>1 DEF Note, NoteAll
  <1>2. ASSUME UNCHANGED events PROVE Grows
    BY <1>0, <1>2
  <1>3. /\ "early" \in Events /\ "overlapped" \in Events /\ "again" \in Events
        /\ "purged" \in Events /\ "swept" \in Events /\ "unprojected" \in Events
        /\ "crowded" \in Events /\ "unsent" \in Events /\ "kept" \in Events
    BY DEF Events
  <1>4. ASSUME NEW p \in Patches, Approve(p) \/ PatchProject(p) \/ PatchDispatch(p) PROVE Grows
    <2> HIDE DEF Grows
    <2> QED
      BY <1>1, <1>2, <1>3, <1>4 DEF Approve, PatchProject, PatchDispatch
  <1>5. ASSUME NEW d \in Destroys, DestroyRemove(d) \/ DestroySend(d) PROVE Grows
    <2> HIDE DEF Grows
    <2>1. {"early", "unsent"} \in SUBSET Events
      BY <1>3
    <2> QED
      BY <1>a, <1>1, <1>2, <1>3, <1>5, <2>1, SendNotes DEF DestroyRemove, Unproject
  <1>6. ASSUME NEW r \in Rows, TeardownRuns(r) \/ Purge(r) PROVE Grows
    <2> HIDE DEF Grows
    <2> QED
      BY <1>1, <1>2, <1>3, <1>6, RunNotes DEF Purge
  <1>7. ASSUME NEW n \in Names, DeleteProject(n) PROVE Grows
    <2> HIDE DEF Grows
    <2> QED
      BY <1>1, <1>3, <1>7 DEF DeleteProject, Unproject
  <1>8. ASSUME NEW s \in Syncs, NEW n \in Names, SyncDeleteRow(s, n) PROVE Grows
    <2> HIDE DEF Grows
    <2> QED
      BY <1>1, <1>2, <1>3, <1>8 DEF SyncDeleteRow
  <1>9. ASSUME NEW s \in Syncs, SyncFetch(s) PROVE Grows
    BY <1>0, <1>3, <1>9 DEF SyncFetch
  <1>10. Grows
    <2> HIDE DEF Grows
    <2> QED
      BY <1>2, <1>4, <1>5, <1>6, <1>7, <1>8, <1>9, EventsMoves
  <1> QED
    BY <1>10

\* Upsets and stirred syncs matter to no theorem but this one.
LEMMA BookTypes ==
  ASSUME TypeOK, [Next]_vars
  PROVE  upsets' \in 0..MaxUpsets /\ stirred' \in SUBSET Syncs
  <1>0. upsets \in 0..MaxUpsets /\ stirred \in SUBSET Syncs
    BY DEF TypeOK
  <1>1. upsets' \in 0..MaxUpsets
    <2>1. UNCHANGED upsets \/ Upset
      BY DEF Next, vars, CreateRow, PostProject, DeleteProject, RemoveRequest, BuildStarts,
             BuildEnds, TeardownRuns, Purge, Approve, PatchRead, PatchProject, PatchMark,
             PatchDispatch, PatchFails, DestroyRead, DestroyFind, DestroyRemove, DestroySend,
             DestroyFails, SyncFetch, SyncRead, SyncFails, SyncDeleteProject, SyncDeleteRow
    <2> QED
      BY <1>0, <2>1 DEF Upset, LifecycleAssumption
  <1>2. stirred' \in SUBSET Syncs
    <2>1. ASSUME NEW others \in SUBSET Syncs, Stir(others) PROVE stirred' \in SUBSET Syncs
      BY <1>0, <2>1 DEF Stir
    <2>2. /\ Syncs \in SUBSET Syncs
          /\ \A s \in Syncs : Syncs \ {s} \in SUBSET Syncs /\ stirred \cup {s} \in SUBSET Syncs
      BY <1>0
    <2>3. \/ UNCHANGED stirred
          \/ Stir(Syncs)
          \/ \E s \in Syncs : Stir(Syncs \ {s}) \/ stirred' = stirred \cup {s}
      BY DEF Next, vars, CreateRow, PostProject, DeleteProject, RemoveRequest, BuildStarts,
             BuildEnds, TeardownRuns, Purge, Approve, PatchRead, PatchProject, PatchMark,
             PatchDispatch, PatchFails, DestroyRead, DestroyFind, DestroyRemove, DestroySend,
             DestroyFails, SyncFetch, SyncRead, SyncFails, SyncDeleteProject, SyncDeleteRow,
             Unproject
    <2> QED
      BY <1>0, <2>1, <2>2, <2>3
  <1> QED
    BY <1>1, <1>2

LEMMA TypeStep ==
  ASSUME TypeOK, Fresh, [Next]_vars
  PROVE  TypeOK'
  BY RowTypes, RequestTypes, ProjectTypes, PatchTypes, DestroyTypes, SyncTypes, CloudTypes,
     EventsStep, BookTypes DEF TypeOK, PatchCalls, DestroyCalls, SyncCalls

----------------------------------------------------------------------------
(* What a step does to rows, projects, the cloud and the history. *)

LEMMA DatabaseStep ==
  ASSUME TypeOK, [Next]_vars
  PROVE  \/ UNCHANGED database
         \/ \E n \in Names : DropRow(n)
         \/ \E n \in Names :
              /\ row[n] = 0 /\ row' = [row EXCEPT ![n] = lastRow + 1] /\ lastRow' = lastRow + 1
              /\ request' = request \cup {lastRow + 1} /\ UNCHANGED created
              /\ UNCHANGED <<project, patch, infra, sync>>
         \/ UNCHANGED <<row, created, lastRow>> /\ request' \subseteq request
         \/ \E p \in Patches :
              /\ PatchMark(p) /\ UNCHANGED <<row, request, lastRow>>
              /\ created' = IF Live(patch[p].row) THEN created \cup {patch[p].row} ELSE created
  <1>1. ASSUME NEW n \in Names, CreateRow(n)
        PROVE  /\ row[n] = 0 /\ row' = [row EXCEPT ![n] = lastRow + 1] /\ lastRow' = lastRow + 1
               /\ request' = request \cup {lastRow + 1} /\ UNCHANGED created
               /\ UNCHANGED <<project, patch, infra, sync>>
    BY <1>1 DEF CreateRow, gitlab, calls, cloud
  <1>2. ASSUME NEW r \in Rows, Purge(r) PROVE UNCHANGED database \/ \E n \in Names : DropRow(n)
    BY <1>2 DEF Purge, NameOf
  <1>3. ASSUME NEW s \in Syncs, NEW n \in Names, SyncDeleteRow(s, n)
        PROVE  UNCHANGED database \/ DropRow(n)
    BY <1>3 DEF SyncDeleteRow
  <1>4. ASSUME NEW r \in Rows, RemoveRequest(r)
        PROVE  UNCHANGED <<row, created, lastRow>> /\ request' \subseteq request
    BY <1>4 DEF RemoveRequest
  <1>5. ASSUME NEW p \in Patches, PatchMark(p)
        PROVE  /\ UNCHANGED <<row, request, lastRow>>
               /\ created' = IF Live(patch[p].row) THEN created \cup {patch[p].row} ELSE created
    BY <1>5 DEF PatchMark
  <1>6. CASE UNCHANGED <<row, lastRow>> /\ UNCHANGED request /\ UNCHANGED created
    BY <1>6 DEF database
  <1> QED
    BY <1>1, <1>2, <1>3, <1>4, <1>5, <1>6, RowMoves, RequestMoves, CreatedMoves

\* A row that has been handed out keeps its name or loses it for good.
LEMMA RowsStay ==
  ASSUME TypeOK, Fresh, OneName, [Next]_vars, NEW r \in 1..lastRow
  PROVE  /\ \A n \in Names : row'[n] = r => row[n] = r
         /\ Live(r)' => Live(r)
         /\ r \in created /\ Live(r)' => r \in created'
  <1>0. /\ row \in [Names -> 0..MaxRows] /\ lastRow \in 0..MaxRows /\ r # 0
        /\ \A m, n \in Names : row[m] = row[n] /\ row[m] # 0 => m = n
    BY DEF TypeOK, OneName
  <1>1. \A n \in Names : row'[n] = r => row[n] = r
    BY <1>0, DatabaseStep DEF DropRow, database
  <1>2. Live(r)' => Live(r)
    BY <1>1 DEF Live
  <1>3. ASSUME r \in created, Live(r)', NEW n \in Names, DropRow(n) PROVE r \in created'
    <2>1. PICK m \in Names : row'[m] = r
      BY <1>3 DEF Live
    <2>2. m # n /\ row[m] = r
      BY <1>0, <1>1, <1>3, <2>1 DEF DropRow
    <2> QED
      BY <1>0, <1>3, <2>2 DEF DropRow
  <1> QED
    BY <1>1, <1>2, <1>3, DatabaseStep DEF database

LEMMA ProjectStep ==
  ASSUME TypeOK, [Next]_vars
  PROVE  /\ lastProject' \in Nat /\ lastProject <= lastProject'
         /\ \A n \in Names :
              \/ project'[n] = project[n]
              \/ project'[n] = lastProject + 1 /\ lastProject' = lastProject + 1
              \/ project'[n] = 0 /\ (row[n] \in Rows => "unprojected" \in events'[row[n]])
              \/ /\ project'[n] = 0
                 /\ \E s \in Syncs : /\ sync[s].pc = "loops" /\ n \in sync[s].strays
                                     /\ project[n] = sync[s].page[n]
  <1>0. /\ project \in [Names -> 0..MaxProjects] /\ lastProject \in 0..MaxProjects
        /\ events \in [Rows -> SUBSET Events]
    BY DEF TypeOK
  <1> DEFINE Made(m) == /\ lastProject' = lastProject + 1
                        /\ project' = [project EXCEPT ![m] = lastProject + 1]
  <1>1. ASSUME NEW p \in Patches, PatchProject(p)
        PROVE  UNCHANGED <<project, lastProject>> \/ \E m \in Names : Made(m)
    <2>1. patch[p].name \in Names
      BY DEF TypeOK
    <2> QED
      BY <1>1, <2>1 DEF PatchProject, gitlab
  <1>2. ASSUME NEW m \in Names, PostProject(m) PROVE Made(m)
    BY <1>2 DEF PostProject
  <1>3. ASSUME NEW d \in Destroys, DestroyRemove(d)
        PROVE  UNCHANGED lastProject /\ (UNCHANGED project \/ \E m \in Names : Unproject(m))
    <2>1. destroy[d].name \in Names
      BY DEF TypeOK
    <2> QED
      BY <1>3, <2>1 DEF DestroyRemove
  <1>4. ASSUME NEW m \in Names, DeleteProject(m) PROVE UNCHANGED lastProject /\ Unproject(m)
    BY <1>4 DEF DeleteProject
  <1>5. ASSUME NEW m \in Names, Unproject(m), NEW n \in Names
        PROVE  \/ project'[n] = project[n]
               \/ project'[n] = 0 /\ (row[n] \in Rows => "unprojected" \in events'[row[n]])
    BY <1>0, <1>5 DEF Unproject, Note, NoteAll
  <1>6. ASSUME NEW s \in Syncs, NEW m \in Names, SyncDeleteProject(s, m), NEW n \in Names
        PROVE  /\ UNCHANGED lastProject
               /\ \/ project'[n] = project[n]
                  \/ /\ project'[n] = 0
                     /\ sync[s].pc = "loops" /\ n \in sync[s].strays
                     /\ project[n] = sync[s].page[n]
    BY <1>0, <1>6 DEF SyncDeleteProject
  <1>7. ASSUME NEW m \in Names, Made(m), NEW n \in Names
        PROVE  \/ project'[n] = project[n]
               \/ project'[n] = lastProject + 1 /\ lastProject' = lastProject + 1
    BY <1>0, <1>7
  <1>8. lastProject' \in {lastProject, lastProject + 1}
    BY <1>1, <1>2, <1>3, <1>4, <1>6, ProjectMoves
  <1> HIDE DEF Made
  <1>9. ASSUME NEW n \in Names
        PROVE  \/ project'[n] = project[n]
               \/ project'[n] = lastProject + 1 /\ lastProject' = lastProject + 1
               \/ project'[n] = 0 /\ (row[n] \in Rows => "unprojected" \in events'[row[n]])
               \/ /\ project'[n] = 0
                  /\ \E s \in Syncs : /\ sync[s].pc = "loops" /\ n \in sync[s].strays
                                      /\ project[n] = sync[s].page[n]
    BY <1>1, <1>2, <1>3, <1>4, <1>5, <1>6, <1>7, ProjectMoves
  <1> QED
    BY <1>0, <1>8, <1>9

\* A project is made for a row only while the name has none.
LEMMA MarksStep ==
  ASSUME TypeOK, [Next]_vars, NEW r \in Rows
  PROVE  Marked(r)' => \/ Marked(r)
                       \/ \E p \in Patches : /\ PatchProject(p) /\ patch'[p].pc = "mark"
                                             /\ patch[p].pc = "project" /\ patch[p].row = r
  <1>1. ASSUME r \in created' PROVE Marked(r)
    <2>1. ASSUME NEW p \in Patches, PatchMark(p) PROVE patch[p].pc = "mark"
      BY <2>1 DEF PatchMark
    <2> QED
      BY <1>1, <2>1, DatabaseStep DEF DropRow, database, Marked, At
  <1>2. ASSUME NEW p \in Patches, At(p, "mark", r)'
        PROVE  \/ Marked(r)
               \/ /\ PatchProject(p) /\ patch'[p].pc = "mark"
                  /\ patch[p].pc = "project" /\ patch[p].row = r
    <2>1. patch'[p].pc = "mark" /\ patch'[p].row = r
      BY <1>2 DEF At
    <2> QED
      BY <2>1, PatchGoesOn DEF Marked, At
  <1> QED
    BY <1>1, <1>2 DEF Marked

LEMMA InfraStep ==
  ASSUME TypeOK, [Next]_vars, NEW r \in Rows
  PROVE  \/ infra'[r] = infra[r]
         \/ infra'[r] = "none"
         \/ /\ infra[r] = "none" /\ infra'[r] = "asked"
            /\ \E p \in Patches : At(p, "dispatch", r) /\ UNCHANGED <<teardown, database>>
         \/ /\ infra[r] = "asked" /\ infra'[r] = "building" /\ r \in request
            /\ UNCHANGED <<teardown, database>>
         \/ infra[r] = "building" /\ infra'[r] = "up" /\ UNCHANGED <<teardown, database>>
  <1>0. infra \in [Rows -> {"none", "asked", "building", "up"}]
    BY DEF TypeOK
  <1>1. ASSUME NEW p \in Patches, PatchDispatch(p)
        PROVE  \/ infra'[r] = infra[r]
               \/ /\ infra[r] = "none" /\ infra'[r] = "asked" /\ At(p, "dispatch", r)
                  /\ UNCHANGED <<teardown, database>>
    BY <1>0, <1>1 DEF PatchDispatch, At
  <1>2. ASSUME NEW q \in Rows, TeardownRuns(q) PROVE infra'[r] \in {infra[r], "none"}
    BY <1>0, <1>2 DEF TeardownRuns
  <1>3. ASSUME NEW q \in Rows, BuildStarts(q) \/ BuildEnds(q)
        PROVE  /\ UNCHANGED <<teardown, database>>
               /\ \/ infra'[r] = infra[r] \/ infra'[r] = "none"
                  \/ infra[r] = "asked" /\ infra'[r] = "building" /\ r \in request
                  \/ infra[r] = "building" /\ infra'[r] = "up"
    BY <1>0, <1>3 DEF BuildStarts, BuildEnds
  <1> QED
    BY <1>1, <1>2, <1>3, InfraMoves

\* Only a row that its call has just marked is newly sent.
LEMMA SentStep ==
  ASSUME TypeOK, [Next]_vars, NEW r \in Rows
  PROVE  Sent(r)' => \/ Sent(r)
                     \/ \E p \in Patches : PatchMark(p) /\ At(p, "mark", r) /\ Live(r)
  <1>1. ASSUME infra'[r] # "none" PROVE Sent(r)
    BY <1>1, InfraStep DEF Sent
  <1>2. ASSUME NEW p \in Patches, At(p, "dispatch", r)'
        PROVE  Sent(r) \/ (PatchMark(p) /\ At(p, "mark", r) /\ Live(r))
    <2>1. patch'[p].pc = "dispatch" /\ patch'[p].row = r
      BY <1>2 DEF At
    <2> QED
      BY <2>1, PatchGoesOn DEF Sent, At
  <1> QED
    BY <1>1, <1>2 DEF Sent

LEMMA HasStays ==
  ASSUME TypeOK, [Next]_vars, NEW r \in Rows, NEW causes, Has(r, causes)
  PROVE  Has(r, causes)'
  BY EventsStep DEF Has

\* Who has a project made for him or is dispatched, has a row that was handed out.
LEMMA MarkIsOld ==
  ASSUME TypeOK, Fresh, [Next]_vars, NEW p \in Patches, NEW r \in Rows,
         At(p, "mark", r)' \/ At(p, "mark", r)
  PROVE  r \in 1..lastRow
  <1>1. CASE At(p, "mark", r)
    BY <1>1 DEF Fresh, At
  <1>2. CASE At(p, "mark", r)'
    <2>1. patch'[p].pc = "mark" /\ patch'[p].row = r
      BY <1>2 DEF At
    <2>2. patch[p].pc \notin {"idle", "ended"} /\ patch[p].row = r
      BY <2>1, PatchGoesOn
    <2> QED
      BY <2>2 DEF Fresh
  <1> QED
    BY <1>1, <1>2

LEMMA SentIsOld ==
  ASSUME TypeOK, Fresh, NEW r \in Rows,
         Sent(r) \/ \E p \in Patches : At(p, "mark", r)
  PROVE  r \in 1..lastRow
  <1>1. CASE infra[r] # "none"
    BY <1>1 DEF Fresh, TypeOK, Rows
  <1>2. CASE \E p \in Patches : At(p, "mark", r) \/ At(p, "dispatch", r)
    BY <1>2 DEF Fresh, At
  <1> QED
    BY <1>1, <1>2 DEF Sent

\* GitLab makes a project only for a name that has none.
LEMMA MadeWhereNone ==
  ASSUME TypeOK, NEW p \in Patches, PatchProject(p), patch'[p].pc = "mark"
  PROVE  /\ project[patch[p].name] = 0
         /\ project'[patch[p].name] = lastProject + 1
         /\ IF Under # {} THEN Note(patch[p].row, "overlapped") ELSE UNCHANGED events
  <1>1. ~PatchEnds(p)
    BY DEF TypeOK, PatchEnds, PatchAt
  <1>2. patch[p].name \in Names /\ project \in [Names -> 0..MaxProjects]
    BY DEF TypeOK
  <1> QED
    BY <1>1, <1>2 DEF PatchProject

\* A row that has not been handed out has nothing happen to it.
LEMMA EventsOfRows ==
  ASSUME TypeOK, Fresh, [Next]_vars, NEW r \in Rows, r > lastRow
  PROVE  events'[r] = {}
  <1>0. events \in [Rows -> SUBSET Events] /\ events[r] = {} /\ lastRow \in 0..MaxRows
    BY DEF TypeOK, Fresh
  <1>a. ASSUME NEW q \in 0..lastRow, NEW E, NoteAll(q, E) PROVE events'[r] = {}
    BY <1>0, <1>a DEF NoteAll, Rows
  <1>1. ASSUME NEW q \in 0..lastRow, NEW e, Note(q, e) PROVE events'[r] = {}
    BY <1>a, <1>1 DEF Note
  <1>2. \A n \in Names : row[n] \in 0..lastRow
    BY DEF TypeOK, Fresh
  <1>3. ASSUME NEW p \in Patches, Approve(p) \/ PatchProject(p) \/ PatchDispatch(p)
        PROVE  events'[r] = {}
    <2>1. Approve(p) => UNCHANGED events \/ \E n \in Names : \E e : Note(row[n], e)
      BY DEF Approve
    <2>2. ~Approve(p) => patch[p].row \in 0..lastRow
      BY <1>3 DEF Fresh, PatchProject, PatchDispatch
    <2>3. ~Approve(p) => UNCHANGED events \/ \E e : Note(patch[p].row, e)
      BY <1>3 DEF PatchProject, PatchDispatch
    <2> QED
      BY <1>0, <1>1, <1>2, <2>1, <2>2, <2>3
  <1>4. ASSUME NEW d \in Destroys, DestroyRemove(d) \/ DestroySend(d) PROVE events'[r] = {}
    <2>1. destroy[d].row \in 0..lastRow /\ destroy[d].name \in Names
      BY <1>4 DEF TypeOK, Fresh, DestroyRemove, DestroySend
    <2>2. \/ UNCHANGED events
          \/ Note(row[destroy[d].name], "unprojected")
          \/ \E E : NoteAll(destroy[d].row, E)
      BY <1>4, SendNotes DEF DestroyRemove, Unproject
    <2> QED
      BY <1>0, <1>a, <1>1, <1>2, <2>1, <2>2
  <1>5. ASSUME NEW q \in Rows, TeardownRuns(q) \/ Purge(q) PROVE events'[r] = {}
    <2>1. q \in 0..lastRow
      BY <1>5 DEF Fresh, TeardownRuns, Purge, TypeOK, Rows
    <2> QED
      BY <1>0, <1>1, <1>5, <2>1, RunNotes DEF Purge
  <1>6. ASSUME NEW n \in Names, DeleteProject(n) PROVE events'[r] = {}
    BY <1>1, <1>2, <1>6 DEF DeleteProject, Unproject
  <1>7. ASSUME NEW s \in Syncs, NEW n \in Names, SyncDeleteRow(s, n) PROVE events'[r] = {}
    BY <1>0, <1>1, <1>2, <1>7 DEF SyncDeleteRow
  <1>8. ASSUME NEW s \in Syncs, SyncFetch(s) PROVE events'[r] = {}
    <2>1. NameOf(r) = {}
      BY <1>0, <1>2 DEF NameOf, Rows
    <2> QED
      BY <1>0, <1>8, <2>1 DEF SyncFetch
  <1> QED
    BY <1>0, <1>3, <1>4, <1>5, <1>6, <1>7, <1>8, EventsMoves

\* Where the events that the invariant rules out come from.
LEMMA NewEvents ==
  ASSUME TypeOK, [Next]_vars, NEW r \in Rows
  PROVE  /\ "swept" \in events'[r] => \/ "swept" \in events[r]
                                      \/ \E s \in Syncs, n \in Names :
                                            SyncDeleteRow(s, n) /\ DropRow(n) /\ row[n] = r
         /\ "purged" \in events'[r] => "purged" \in events[r] \/ Purge(r)
         /\ "again" \in events'[r] =>
              \/ "again" \in events[r]
              \/ \E p \in Patches : At(p, "dispatch", r) /\ infra[r] # "none"
  <1>0. events \in [Rows -> SUBSET Events]
    BY DEF TypeOK
  <1> DEFINE Only(e) == events'[r] \subseteq events[r] \cup {e}
             Other == {"early", "overlapped", "unprojected", "crowded", "unsent", "kept"}
             Kept == events'[r] \subseteq events[r] \cup Other
  <1>a. ASSUME NEW q, NEW E \in SUBSET Other, NoteAll(q, E) PROVE Kept
    BY <1>0, <1>a DEF NoteAll
  <1>1. ASSUME NEW q, NEW e, Note(q, e) PROVE Only(e) /\ (q # r \/ e \in Other => Kept)
    BY <1>0, <1>1 DEF Note, NoteAll
  <1>2. ASSUME NEW p \in Patches, Approve(p) \/ PatchProject(p) PROVE Kept
    <2>1. UNCHANGED events \/ \E q : Note(q, "early") \/ Note(q, "overlapped")
      BY <1>2 DEF Approve, PatchProject
    <2> QED
      BY <1>1, <2>1
  <1>3. ASSUME NEW d \in Destroys, DestroyRemove(d) \/ DestroySend(d) PROVE Kept
    <2>1. UNCHANGED events \/ \E q : Note(q, "unprojected") \/ \E E \in SUBSET Other : NoteAll(q, E)
      BY <1>3, SendNotes DEF DestroyRemove, Unproject
    <2> QED
      BY <1>a, <1>1, <2>1
  <1>4. ASSUME NEW n \in Names, DeleteProject(n) PROVE Kept
    BY <1>1, <1>4 DEF DeleteProject, Unproject
  <1>5. ASSUME NEW s \in Syncs, SyncFetch(s) PROVE Kept
    BY <1>0, <1>5 DEF SyncFetch
  <1>6. ASSUME NEW p \in Patches, PatchDispatch(p)
        PROVE  Kept \/ (Only("again") /\ At(p, "dispatch", r) /\ infra[r] # "none")
    <2>1. \/ UNCHANGED events
          \/ Note(patch[p].row, "again") /\ infra[patch[p].row] # "none"
      BY <1>6 DEF PatchDispatch
    <2>2. patch[p].pc = "dispatch"
      BY <1>6 DEF PatchDispatch
    <2> QED
      BY <1>1, <2>1, <2>2 DEF At
  <1>7. ASSUME NEW q \in Rows, TeardownRuns(q) \/ Purge(q)
        PROVE  Kept \/ (Only("purged") /\ Purge(r))
    <2>1. UNCHANGED events \/ Note(q, "kept") \/ (Note(q, "purged") /\ Purge(q))
      BY <1>7, RunNotes DEF Purge
    <2> QED
      BY <1>1, <1>7, <2>1
  <1>8. ASSUME NEW s \in Syncs, NEW n \in Names, SyncDeleteRow(s, n)
        PROVE  Kept \/ (Only("swept") /\ DropRow(n) /\ row[n] = r)
    <2>1. UNCHANGED events \/ (Note(row[n], "swept") /\ DropRow(n))
      BY <1>8 DEF SyncDeleteRow
    <2> QED
      BY <1>1, <2>1
  <1> QED
    BY <1>2, <1>3, <1>4, <1>5, <1>6, <1>7, <1>8, EventsMoves

----------------------------------------------------------------------------
(* The invariant, part by part. *)

LEMMA FreshStep ==
  ASSUME TypeOK, Fresh, [Next]_vars
  PROVE  Fresh'
  <1>0. /\ row \in [Names -> 0..MaxRows] /\ lastRow \in 0..MaxRows
        /\ project \in [Names -> 0..MaxProjects] /\ lastProject \in 0..MaxProjects
        /\ lastRow' \in 0..MaxRows /\ Rows = 1..MaxRows
        /\ created \in SUBSET Rows /\ request \in SUBSET Rows
    BY TypeStep DEF TypeOK, Rows
  <1>1. /\ \A n \in Names : row'[n] <= lastRow'
        /\ lastRow <= lastRow'
    BY <1>0, DatabaseStep DEF Fresh, DropRow, database
  <1>2. ASSUME NEW n \in Names PROVE project'[n] <= lastProject'
    <2>1. project[n] <= lastProject /\ project[n] \in Nat
      BY <1>0 DEF Fresh
    <2>2. lastProject' \in Nat /\ lastProject <= lastProject'
      BY ProjectStep
    <2>3. \/ project'[n] = project[n]
          \/ project'[n] = lastProject + 1 /\ lastProject' = lastProject + 1
          \/ project'[n] = 0
      BY ProjectStep
    <2> QED
      BY <1>0, <2>1, <2>2, <2>3
  <1>3. ASSUME NEW s \in Syncs, NEW n \in Names PROVE sync'[s].page[n] <= lastProject'
    <2>1. sync'[s].page[n] \in {sync[s].page[n], FirstPage[n], 0}
      <3>1. SyncAt("done").page[n] = 0
        BY DEF SyncAt
      <3> QED
        BY <3>1, SyncPages
    <2>2. sync[s].page[n] \in 0..lastProject /\ FirstPage[n] \in 0..lastProject
      <3>1. sync[s].page \in [Names -> 0..MaxProjects] /\ sync[s].page[n] <= lastProject
        BY DEF Fresh, TypeOK
      <3>2. FirstPage[n] \in {0, project[n]} /\ project[n] <= lastProject
        BY PageTypes DEF Fresh
      <3> QED
        BY <1>0, <3>1, <3>2
    <2>3. lastProject <= lastProject' /\ lastProject' \in Nat
      BY ProjectStep
    <2> QED
      BY <1>0, <2>1, <2>2, <2>3
  <1>4. ASSUME NEW p \in Patches, patch'[p].pc \notin {"idle", "ended"}
        PROVE  patch'[p].row \in 1..lastRow'
    <2>1. patch'[p].row \in 1..lastRow
      <3>1. \A n \in Names : row[n] \in request => row[n] \in 1..lastRow
        BY <1>0 DEF Fresh
      <3>2. patch[p].pc \notin {"idle", "ended"} => patch[p].row \in 1..lastRow
        BY DEF Fresh
      <3> QED
        BY <1>4, <3>1, <3>2, PatchGoesOn
    <2> QED
      BY <1>0, <1>1, <2>1
  <1>5. \A d \in Destroys :
          destroy'[d].pc \notin {"idle", "ended"} => destroy'[d].row \in 1..lastRow'
    BY <1>0, <1>1, DestroyTypes
  <1>6. ASSUME NEW r \in Rows, r > lastRow'
        PROVE  /\ r \notin request' \cup created'
               /\ infra'[r] = "none" /\ teardown'[r] = "none" /\ events'[r] = {}
    <2>1. /\ r > lastRow /\ r \notin request \cup created
          /\ infra[r] = "none" /\ teardown[r] = "none" /\ events[r] = {}
      BY <1>0, <1>1, <1>6 DEF Fresh
    <2>2. \A p \in Patches : patch[p].pc \in {"mark", "dispatch"} => patch[p].row # r
      BY <1>0, <2>1 DEF Fresh
    <2>3. r \notin request' \cup created'
      <3>1. ASSUME NEW p \in Patches, PatchMark(p) PROVE patch[p].row # r
        BY <2>2, <3>1 DEF PatchMark
      <3> QED
        BY <1>0, <1>6, <2>1, <3>1, DatabaseStep DEF DropRow, database
    <2>4. infra'[r] = "none"
      BY <2>1, <2>2, InfraStep DEF At
    <2>5. teardown'[r] = "none"
      <3>1. ASSUME NEW d \in Destroys, DestroySend(d) PROVE destroy[d].row # r
        BY <1>0, <2>1, <3>1 DEF Fresh, DestroySend
      <3>2. teardown \in [Rows -> {"none", "queued", "purging", "done", "failed"}]
        BY DEF TypeOK
      <3> QED
        BY <2>1, <3>1, <3>2, TeardownMoves DEF DestroySend, TeardownRuns, Purge
    <2> QED
      BY <2>1, <2>3, <2>4, <2>5, EventsOfRows
  <1> QED
    BY <1>1, <1>2, <1>3, <1>4, <1>5, <1>6 DEF Fresh

LEMMA OneNameStep ==
  ASSUME TypeOK, Fresh, OneName, [Next]_vars
  PROVE  OneName'
  <1>0. /\ row \in [Names -> 0..MaxRows] /\ lastRow \in 0..MaxRows
        /\ \A m, n \in Names : row[m] = row[n] /\ row[m] # 0 => m = n
        /\ \A n \in Names : row[n] <= lastRow
        /\ Rows = 1..MaxRows /\ request \in SUBSET Rows
    BY DEF TypeOK, OneName, Fresh, Rows
  <1>1. ASSUME NEW m \in Names, NEW n \in Names, row'[m] = row'[n], row'[m] # 0 PROVE m = n
    BY <1>0, <1>1, DatabaseStep DEF DropRow, database
  <1>2. ASSUME NEW p \in Patches, NEW n \in Names, patch'[p].pc \notin {"idle", "ended"},
               row'[n] = patch'[p].row
        PROVE  patch'[p].name = n
    <2>1. CASE Approve(p) /\ \E m \in Names :
                  row[m] \in request /\ patch'[p].name = m /\ patch'[p].row = row[m]
      <3>1. row' = row
        BY <2>1 DEF Approve, database
      <3> QED
        BY <1>0, <1>2, <2>1, <3>1
    <2>2. CASE /\ patch'[p].name = patch[p].name /\ patch'[p].row = patch[p].row
               /\ patch[p].pc \notin {"idle", "ended"}
      <3>1. patch[p].row \in 1..lastRow
        BY <2>2 DEF Fresh
      <3>2. row[n] = patch[p].row
        BY <1>2, <2>2, <3>1, RowsStay
      <3> QED
        BY <2>2, <3>2 DEF OneName
    <2> QED
      BY <1>2, <2>1, <2>2, PatchGoesOn
  <1>3. ASSUME NEW r \in request' PROVE Live(r)'
    <2>1. CASE r \in request /\ \A n \in Names : row[n] = r => row'[n] = r
      BY <2>1 DEF OneName, Live
    <2>2. ASSUME NEW n \in Names, DropRow(n) PROVE Live(r)'
      <3>1. PICK m \in Names : row[m] = r /\ m # n
        BY <1>3, <2>2 DEF OneName, Live, DropRow
      <3> QED
        BY <1>0, <2>2, <3>1 DEF Live, DropRow
    <2>3. ASSUME NEW n \in Names, row[n] = 0, row' = [row EXCEPT ![n] = lastRow + 1],
                 request' = request \cup {lastRow + 1}
          PROVE  Live(r)'
      <3>1. CASE r = lastRow + 1
        BY <1>0, <2>3, <3>1 DEF Live
      <3>2. CASE r \in request
        <4>1. PICK m \in Names : row[m] = r
          BY <3>2 DEF OneName, Live
        <4> QED
          BY <1>0, <2>3, <3>2, <4>1 DEF Live
      <3> QED
        BY <1>3, <2>3, <3>1, <3>2
    <2> QED
      BY <1>3, <2>1, <2>2, <2>3, DatabaseStep DEF database
  <1>4. ASSUME NEW r \in Rows, Has(r, {"swept", "purged"})' PROVE ~Live(r)'
    <2>1. CASE Has(r, {"swept", "purged"})
      <3>1. r \in 1..lastRow
        BY <1>0, <2>1 DEF Fresh, Has
      <3> QED
        BY <2>1, <3>1, RowsStay DEF OneName
    <2>2. ASSUME NEW n \in Names, DropRow(n), row[n] = r PROVE ~Live(r)'
      BY <1>0, <2>2 DEF DropRow, Live
    <2>3. ASSUME Purge(r) PROVE ~Live(r)'
      <3>1. (~Live(r) /\ UNCHANGED database) \/ \E n \in Names : DropRow(n) /\ row[n] = r
        BY <2>3 DEF Purge, NameOf
      <3> QED
        BY <2>2, <3>1 DEF database, Live
    <2> QED
      BY <1>4, <2>1, <2>2, <2>3, NewEvents DEF Has
  <1> QED
    BY <1>1, <1>2, <1>3, <1>4 DEF OneName

\* Whose row is marked after a step, was so before, or just had a project made.
LEMMA MarkedRow ==
  ASSUME TypeOK, Fresh, OneName, [Next]_vars,
         NEW n \in Names, row'[n] # 0, Marked(row[n])'
  PROVE  /\ row'[n] = row[n] /\ row[n] \in Rows
         /\ \/ Marked(row[n])
            \/ \E p \in Patches : /\ PatchProject(p) /\ patch'[p].pc = "mark"
                                  /\ patch[p].row = row[n] /\ patch[p].name = n
  <1>0. Rows = 1..MaxRows /\ lastRow \in 0..MaxRows
    BY DEF TypeOK, Rows
  <1>1. row'[n] \in Rows
    BY <1>0, RowTypes
  <1>2. Marked(row'[n]) \/ \E p \in Patches : /\ PatchProject(p) /\ patch'[p].pc = "mark"
                                             /\ patch[p].pc = "project" /\ patch[p].row = row'[n]
    BY <1>1, MarksStep
  <1>3. row'[n] \in 1..lastRow
    <2>1. CASE row'[n] \in created
      BY <1>0, <1>1, <2>1 DEF Fresh
    <2>2. CASE \E p \in Patches : patch[p].pc \in {"project", "mark"} /\ patch[p].row = row'[n]
      BY <2>2 DEF Fresh
    <2> QED
      BY <1>2, <2>1, <2>2 DEF Marked, At
  <1>4. row'[n] = row[n]
    BY <1>3, RowsStay
  <1>5. ASSUME NEW p \in Patches, patch[p].pc = "project", patch[p].row = row[n]
        PROVE  patch[p].name = n
    BY <1>5 DEF OneName
  <1> QED
    BY <1>1, <1>2, <1>4, <1>5

\* The sync's two loops are behind the row or the project they were built from.
LEMMA MarkedHasProjectStep ==
  ASSUME TypeOK, Fresh, OneName, MarkedHasProject, [Next]_vars
  PROVE  MarkedHasProject'
  <1>0. /\ row \in [Names -> 0..MaxRows] /\ lastRow \in 0..MaxRows
        /\ row' \in [Names -> 0..MaxRows]
        /\ project \in [Names -> 0..MaxProjects] /\ lastProject \in 0..MaxProjects
        /\ project' \in [Names -> 0..MaxProjects]
        /\ events \in [Rows -> SUBSET Events] /\ Rows = 1..MaxRows
        /\ events' \in [Rows -> SUBSET Events]
    BY TypeStep DEF TypeOK, Rows
  <1>1. ASSUME NEW n \in Names, row'[n] # 0, Marked(row[n])'
        PROVE  /\ row'[n] = row[n] /\ row[n] \in Rows
               /\ \/ Marked(row[n])
                  \/ project[n] = 0 /\ project'[n] = lastProject + 1
    BY <1>1, MarkedRow, MadeWhereNone
  <1>2. ASSUME NEW n \in Names, row'[n] # 0, Marked(row[n])'
        PROVE  project'[n] # 0 \/ Has(row[n], {"unprojected"})'
    <2>1. /\ row'[n] = row[n] /\ row[n] \in Rows
          /\ Marked(row[n]) \/ (project[n] = 0 /\ project'[n] = lastProject + 1)
      BY <1>1, <1>2
    <2>2. CASE project'[n] = lastProject + 1
      BY <1>0, <2>2
    <2>3. CASE Marked(row[n])
      <3>0. row[n] # 0
        BY <1>0, <2>1
      <3>1. project[n] # 0 \/ Has(row[n], {"unprojected"})
        BY <2>3, <3>0 DEF MarkedHasProject
      <3>2. Has(row[n], {"unprojected"}) => "unprojected" \in events'[row[n]]
        BY <2>1, EventsStep DEF Has
      <3>3. \A s \in Syncs :
               sync[s].pc = "loops" /\ n \in sync[s].strays /\ project[n] = sync[s].page[n]
                 => Has(row[n], {"unprojected"})
        BY <2>3, <3>0 DEF MarkedHasProject
      <3>4. project'[n] # 0 \/ "unprojected" \in events'[row[n]]
        <4>1. CASE project'[n] = project[n]
          BY <3>1, <3>2, <4>1
        <4>2. CASE project'[n] = lastProject + 1
          BY <1>0, <4>2
        <4>3. CASE row[n] \in Rows => "unprojected" \in events'[row[n]]
          BY <2>1, <4>3
        <4>4. CASE \E s \in Syncs : /\ sync[s].pc = "loops" /\ n \in sync[s].strays
                                    /\ project[n] = sync[s].page[n]
          BY <3>2, <3>3, <4>4
        <4> QED
          BY <4>1, <4>2, <4>3, <4>4, ProjectStep
      <3> QED
        BY <2>1, <3>4 DEF Has
    <2> QED
      BY <2>1, <2>2, <2>3
  <1>3. ASSUME NEW s \in Syncs, sync'[s].pc = "loops", NEW n \in sync'[s].strays
        PROVE  /\ sync'[s].page[n] # 0
               /\ row'[n] # 0 /\ project'[n] = sync'[s].page[n] /\ Marked(row[n])'
                    => Has(row[n], {"unprojected"})'
    <2>0. n \in Names /\ sync[s].page[n] \in Nat /\ sync[s].page[n] <= lastProject
      <3>1. sync' \in [Syncs -> SyncCalls]
        BY SyncTypes
      <3>2. n \in Names
        BY <3>1 DEF SyncCalls
      <3> QED
        BY <3>2 DEF TypeOK, Fresh
    <2>1. \/ /\ sync[s].pc = "loops" /\ n \in sync[s].strays
             /\ sync'[s].page = sync[s].page
          \/ /\ sync'[s].page = sync[s].page /\ sync[s].page[n] # 0 /\ row[n] = 0
      BY <1>3, LoopsStep
    <2>2. sync'[s].page[n] # 0 /\ sync'[s].page[n] = sync[s].page[n]
      BY <1>0, <2>1 DEF MarkedHasProject
    <2>3. ASSUME row'[n] # 0, project'[n] = sync'[s].page[n], Marked(row[n])'
          PROVE  Has(row[n], {"unprojected"})'
      <3>1. /\ row'[n] = row[n] /\ row[n] \in Rows
            /\ Marked(row[n]) \/ (project[n] = 0 /\ project'[n] = lastProject + 1)
        BY <1>1, <2>0, <2>3
      <3>2. project'[n] <= lastProject
        BY <2>0, <2>2, <2>3
      <3>3. project'[n] = project[n] /\ Marked(row[n])
        BY <1>0, <2>0, <2>2, <2>3, <3>1, <3>2, ProjectStep
      <3>4. sync[s].pc = "loops" /\ n \in sync[s].strays
        BY <1>0, <2>1, <3>1
      <3>5. Has(row[n], {"unprojected"})
        BY <1>0, <2>2, <2>3, <3>1, <3>3, <3>4 DEF MarkedHasProject
      <3> QED
        BY <3>1, <3>5, EventsStep DEF Has
    <2> QED
      BY <2>2, <2>3
  <1> QED
    BY <1>2, <1>3 DEF MarkedHasProject

LEMMA SentIsCreatedStep ==
  ASSUME TypeOK, Fresh, OneName, SentIsCreated, [Next]_vars
  PROVE  SentIsCreated'
  <1> SUFFICES ASSUME NEW r \in Rows, Live(r)', Sent(r)' PROVE r \in created'
    BY DEF SentIsCreated, Rows
  <1>1. Sent(r) \/ \E p \in Patches : PatchMark(p) /\ At(p, "mark", r) /\ Live(r)
    BY SentStep
  <1>2. r \in 1..lastRow
    BY <1>1, SentIsOld
  <1>3. Live(r)
    BY <1>2, RowsStay
  <1>4. CASE Sent(r)
    BY <1>2, <1>3, <1>4, RowsStay DEF SentIsCreated
  <1>5. ASSUME NEW p \in Patches, PatchMark(p), At(p, "mark", r) PROVE r \in created'
    BY <1>3, <1>5 DEF PatchMark, At
  <1> QED
    BY <1>1, <1>4, <1>5

LEMMA SentOnceStep ==
  ASSUME TypeOK, Fresh, OneName, MarkedHasProject, SentIsCreated, SentOnce, [Next]_vars
  PROVE  SentOnce'
  <1>1. ASSUME NEW p \in Patches, NEW r \in Rows, Live(r)', At(p, "mark", r)',
               \/ infra'[r] # "none"
               \/ \E q \in Patches \ {p} : At(q, "mark", r)' \/ At(q, "dispatch", r)'
        PROVE  Has(r, {"unprojected"})'
    <2>1. r \in 1..lastRow /\ Live(r)
      BY <1>1, MarkIsOld, RowsStay
    <2>2. PICK n \in Names : row[n] = r
      BY <2>1 DEF Live
    <2>3. Has(r, {"unprojected"}) => Has(r, {"unprojected"})'
      BY HasStays
    \* Another call at "project" with this row finds the name taken.
    <2>4. ASSUME NEW q \in Patches, PatchProject(q), patch[q].pc = "project", patch[q].row = r,
                 patch'[q].pc = "mark", Marked(r)
          PROVE  Has(r, {"unprojected"})
      <3>1. patch[q].name = n
        BY <2>2, <2>4 DEF OneName
      <3>2. project[n] = 0
        BY <2>4, <3>1, MadeWhereNone
      <3> QED
        BY <2>2, <2>4, <3>2 DEF MarkedHasProject, Rows
    <2>5. Sent(r) => Marked(r)
      BY <2>1 DEF SentIsCreated, Marked
    <2>6. CASE At(p, "mark", r)
      <3>1. CASE \/ infra[r] # "none"
                 \/ \E q \in Patches \ {p} : At(q, "mark", r) \/ At(q, "dispatch", r)
        BY <2>1, <2>3, <2>6, <3>1 DEF SentOnce
      <3>2. CASE \E q \in Patches : /\ PatchProject(q) /\ patch[q].pc = "project"
                                    /\ patch[q].row = r /\ patch'[q].pc = "mark"
        BY <2>3, <2>4, <2>6, <3>2 DEF Marked
      <3>3. infra'[r] # "none" => infra[r] # "none" \/ \E q \in Patches : At(q, "dispatch", r)
        BY InfraStep
      <3>4. \A q \in Patches : At(q, "mark", r)' \/ At(q, "dispatch", r)' =>
               \/ At(q, "mark", r) \/ At(q, "dispatch", r)
               \/ /\ PatchProject(q) /\ patch[q].pc = "project"
                  /\ patch[q].row = r /\ patch'[q].pc = "mark"
        BY PatchGoesOn DEF At
      <3>5. \A q \in Patches : At(q, "dispatch", r) => q # p
        BY <2>6 DEF At
      <3> QED
        BY <1>1, <3>1, <3>2, <3>3, <3>4, <3>5
    <2>7. CASE PatchProject(p) /\ patch[p].pc = "project" /\ patch[p].row = r
      <3>1. UNCHANGED infra
        BY <2>7 DEF PatchProject, cloud
      <3>2. \A q \in Patches \ {p} : patch'[q] = patch[q]
        BY <2>7 DEF TypeOK, PatchProject, PatchTo, PatchEnds
      <3>3. Marked(r)
        BY <1>1, <2>5, <3>1, <3>2 DEF Sent, Marked, At
      <3>4. patch'[p].pc = "mark"
        BY <1>1 DEF At
      <3> QED
        BY <2>3, <2>4, <2>7, <3>3, <3>4
    <2>8. patch'[p].pc = "mark" /\ patch'[p].row = r
      BY <1>1 DEF At
    <2> QED
      BY <2>6, <2>7, <2>8, PatchGoesOn DEF At
  <1>2. ASSUME NEW p \in Patches, NEW r \in Rows, At(p, "dispatch", r)',
               infra'[r] # "none" \/ \E q \in Patches \ {p} : At(q, "dispatch", r)'
        PROVE  Has(r, {"unprojected"})'
    <2>1. Has(r, {"unprojected"}) => Has(r, {"unprojected"})'
      BY HasStays
    <2>2. \A q \in Patches : At(q, "dispatch", r)' =>
             At(q, "dispatch", r) \/ (PatchMark(q) /\ At(q, "mark", r) /\ Live(r))
      BY PatchGoesOn DEF At
    <2>3. CASE \E q \in Patches : PatchMark(q) /\ At(q, "mark", r) /\ Live(r)
      <3>1. PICK q \in Patches : PatchMark(q) /\ At(q, "mark", r) /\ Live(r)
        BY <2>3
      <3>2. UNCHANGED infra
        BY <3>1 DEF PatchMark, cloud
      <3>3. \A o \in Patches \ {q} : patch'[o] = patch[o]
        BY <3>1 DEF TypeOK, PatchMark, PatchTo, PatchEnds
      <3>4. \/ infra[r] # "none"
            \/ \E o \in Patches \ {q} : At(o, "dispatch", r)
        BY <1>2, <3>2, <3>3 DEF At
      <3> QED
        BY <2>1, <3>1, <3>4 DEF SentOnce
    <2>4. CASE \A q \in Patches : At(q, "dispatch", r)' => At(q, "dispatch", r)
      <3>1. At(p, "dispatch", r)
        BY <1>2, <2>4
      <3>2. CASE \E q \in Patches \ {p} : At(q, "dispatch", r)'
        BY <2>1, <2>4, <3>1, <3>2 DEF SentOnce
      <3>3. CASE infra[r] # "none"
        BY <2>1, <3>1, <3>3 DEF SentOnce
      <3>4. ASSUME infra[r] = "none", infra'[r] # "none" PROVE Has(r, {"unprojected"})
        <4>1. PICK q \in Patches : PatchDispatch(q) /\ patch[q].row = r
          BY <3>4, InfraMoves DEF PatchDispatch, BuildStarts, BuildEnds, TeardownRuns, TypeOK
        <4>2. At(q, "dispatch", r) /\ ~At(q, "dispatch", r)'
          BY <4>1 DEF PatchDispatch, PatchEnds, PatchAt, At, TypeOK
        <4>3. q # p
          BY <1>2, <4>2
        <4> QED
          BY <3>1, <4>2, <4>3 DEF SentOnce
      <3> QED
        BY <1>2, <2>1, <3>2, <3>3, <3>4
    <2> QED
      BY <2>2, <2>3, <2>4
  <1> QED
    BY <1>1, <1>2 DEF SentOnce, At, Rows

LEMMA BuiltTwiceStep ==
  ASSUME TypeOK, SentOnce, BuiltTwiceHasACause, [Next]_vars
  PROVE  BuiltTwiceHasACause'
  <1> SUFFICES ASSUME NEW r \in Rows, Has(r, {"again"})' PROVE Has(r, {"unprojected"})'
    BY DEF BuiltTwiceHasACause, Rows
  <1>1. Has(r, {"again"}) \/ \E p \in Patches : At(p, "dispatch", r) /\ infra[r] # "none"
    BY NewEvents DEF Has
  <1>2. Has(r, {"unprojected"})
    BY <1>1 DEF BuiltTwiceHasACause, SentOnce
  <1> QED
    BY <1>2, HasStays

LEMMA LookingStep ==
  ASSUME TypeOK, [Next]_vars, NEW s \in Syncs, Looking(s)'
  PROVE  \/ Looking(s) /\ sync'[s].page = sync[s].page
         \/ SyncFetch(s) /\ sync'[s].page = FirstPage
  <1>1. CASE sync'[s].pc = "loops"
    BY <1>1, LoopsStep DEF Looking
  <1>2. CASE sync'[s].pc = "read"
    <2>1. SyncAt("done").pc = "done"
      BY DEF SyncAt
    <2>2. CASE \E strays \in SUBSET sync[s].strays, missing \in SUBSET sync[s].missing :
                 /\ sync[s].pc = "loops"
                 /\ sync'[s] = [pc |-> "loops", page |-> sync[s].page,
                                strays |-> strays, missing |-> missing]
      BY <1>2, <2>2
    <2>3. CASE SyncRead(s) /\ sync'[s] =
                  [pc |-> "loops", page |-> sync[s].page,
                   strays |-> {n \in Names : sync[s].page[n] # 0 /\ row[n] = 0},
                   missing |-> {n \in Names : sync[s].page[n] = 0 /\ row[n] # 0}]
      BY <1>2, <2>3
    <2>4. CASE SyncFetch(s) /\ sync'[s] =
                  [pc |-> "read", page |-> FirstPage, strays |-> {}, missing |-> {}]
      BY <2>4
    <2>5. CASE sync'[s] = sync[s]
      BY <1>2, <2>5 DEF Looking
    <2> QED
      BY <1>2, <2>1, <2>2, <2>3, <2>4, <2>5, SyncStep
  <1> QED
    BY <1>1, <1>2 DEF Looking

\* While a sync is under way, only a project made or deleted meanwhile, or one
\* beyond the first page, is missing from its page.
LEMMA SweepsHaveCausesStep ==
  ASSUME TypeOK, Fresh, OneName, MarkedHasProject, SentIsCreated, SweepsHaveCauses, [Next]_vars
  PROVE  SweepsHaveCauses'
  <1>0. /\ row \in [Names -> 0..MaxRows] /\ Rows = 1..MaxRows
        /\ events \in [Rows -> SUBSET Events]
        /\ events' \in [Rows -> SUBSET Events]
    BY TypeStep DEF TypeOK, Rows
  <1>1. ASSUME NEW s \in Syncs, NEW n \in Names, Looking(s)', sync'[s].page[n] = 0,
               row'[n] # 0, Marked(row[n])'
        PROVE  Has(row[n], Causes)'
    <2>1. /\ row'[n] = row[n] /\ row[n] \in Rows
          /\ \/ Marked(row[n])
             \/ \E p \in Patches : /\ PatchProject(p) /\ patch'[p].pc = "mark"
                                   /\ patch[p].row = row[n] /\ patch[p].name = n
      BY <1>1, MarkedRow
    <2>2. SUFFICES events'[row[n]] \cap Causes # {}
      BY <2>1 DEF Has
    <2>3. CASE \E p \in Patches : /\ PatchProject(p) /\ patch'[p].pc = "mark"
                                  /\ patch[p].row = row[n]
      <3>1. PICK p \in Patches : /\ PatchProject(p) /\ patch'[p].pc = "mark"
                                 /\ patch[p].row = row[n]
        BY <2>3
      <3>2. sync' = sync
        BY <3>1 DEF PatchProject
      <3>3. s \in Under
        BY <1>1, <3>2 DEF Looking, Under
      <3>4. Note(row[n], "overlapped")
        BY <3>1, <3>3, MadeWhereNone
      <3>5. "overlapped" \in events'[row[n]]
        BY <1>0, <2>1, <3>4 DEF Note, NoteAll
      <3> QED
        BY <3>5 DEF Causes
    <2>4. CASE Marked(row[n]) /\ Looking(s) /\ sync'[s].page = sync[s].page
      <3>1. Has(row[n], Causes)
        BY <1>0, <1>1, <2>1, <2>4 DEF SweepsHaveCauses
      <3> QED
        BY <2>1, <3>1, EventsStep DEF Has
    <2>5. CASE Marked(row[n]) /\ SyncFetch(s) /\ sync'[s].page = FirstPage
      <3>1. CASE project[n] = 0
        <4>1. Has(row[n], {"unprojected"})
          BY <1>0, <2>1, <2>5, <3>1 DEF MarkedHasProject
        <4> QED
          BY <2>1, <4>1, EventsStep DEF Has, Causes
      <3>2. CASE project[n] # 0
        <4>1. n \in NameOf(row[n]) /\ FirstPage[n] # project[n]
          BY <1>1, <2>5, <3>2 DEF NameOf
        <4>2. "crowded" \in events'[row[n]]
          BY <1>0, <2>1, <2>5, <4>1 DEF SyncFetch
        <4> QED
          BY <4>2 DEF Causes
      <3> QED
        BY <3>1, <3>2
    <2> QED
      BY <1>1, <2>1, <2>3, <2>4, <2>5, LookingStep
  <1>2. ASSUME NEW s \in Syncs, sync'[s].pc = "loops", NEW n \in sync'[s].missing
        PROVE  sync'[s].page[n] = 0
    BY <1>2, LoopsStep DEF SweepsHaveCauses
  <1>3. ASSUME NEW r \in Rows, Has(r, {"swept"})', Sent(r)' PROVE Has(r, Causes)'
    <2>1. CASE Has(r, {"swept"})
      <3>1. ~Live(r)
        BY <2>1 DEF OneName, Has
      <3>2. Sent(r)
        BY <1>3, <3>1, SentStep
      <3>3. Has(r, Causes)
        BY <2>1, <3>2 DEF SweepsHaveCauses
      <3> QED
        BY <3>3, HasStays
    <2>2. ASSUME NEW s \in Syncs, NEW n \in Names, SyncDeleteRow(s, n), row[n] = r
          PROVE  Has(r, Causes)'
      <3>1. Sent(r)
        BY <1>3, <2>2 DEF SyncDeleteRow, Sent, At, cloud
      <3>2. Live(r)
        BY <2>2 DEF Live
      <3>3. Marked(r)
        BY <3>1, <3>2 DEF SentIsCreated, Marked
      <3>4. Looking(s) /\ sync[s].page[n] = 0
        BY <2>2 DEF SyncDeleteRow, Looking, SweepsHaveCauses
      <3>5. Has(r, Causes)
        BY <1>0, <2>2, <3>3, <3>4 DEF SweepsHaveCauses
      <3> QED
        BY <3>5, HasStays
    <2> QED
      BY <1>3, <2>1, <2>2, NewEvents DEF Has
  <1> QED
    BY <1>1, <1>2, <1>3 DEF SweepsHaveCauses

LEMMA TeardownStep ==
  ASSUME TypeOK, [Next]_vars, NEW r \in Rows
  PROVE  \/ teardown'[r] = teardown[r]
         \/ /\ teardown'[r] = "queued" /\ UNCHANGED <<infra, patch>>
            /\ infra[r] \in {"asked", "building"} \/ Approving(r) => "early" \in events'[r]
         \/ /\ teardown[r] = "queued" /\ teardown'[r] = "purging" /\ UNCHANGED patch
            /\ \/ infra'[r] = IF infra[r] = "up" THEN "none" ELSE infra[r]
               \/ infra'[r] = infra[r] /\ infra[r] = "up" /\ "kept" \in events'[r]
         \/ teardown'[r] = "failed" /\ r \notin request'
         \/ teardown'[r] = "done" /\ Purge(r)
  <1>0. /\ teardown \in [Rows -> {"none", "queued", "purging", "done", "failed"}]
        /\ infra \in [Rows -> {"none", "asked", "building", "up"}]
        /\ events \in [Rows -> SUBSET Events]
    BY DEF TypeOK
  <1>1. ASSUME NEW d \in Destroys, DestroySend(d)
        PROVE  \/ teardown'[r] = teardown[r]
               \/ /\ teardown'[r] = "queued" /\ UNCHANGED <<infra, patch>>
                  /\ infra[r] \in {"asked", "building"} \/ Approving(r) => "early" \in events'[r]
    <2>1. CASE destroy[d].row # r
      BY <1>0, <1>1, <2>1 DEF DestroySend
    <2>2. CASE destroy[d].row = r /\ teardown' # teardown
      <3>1. /\ UNCHANGED <<infra, patch>>
            /\ \E arrives, triggered \in BOOLEAN :
                 /\ teardown' = [teardown EXCEPT ![r] =
                                   IF arrives /\ @ # "purging" THEN "queued" ELSE @]
                 /\ NoteAll(r, (IF infra[r] \in {"asked", "building"} \/ Approving(r)
                                THEN {"early"} ELSE {})
                               \cup (IF arrives /\ triggered THEN {} ELSE {"unsent"}))
        BY <1>1, <2>2 DEF DestroySend
      <3>2. infra[r] \in {"asked", "building"} \/ Approving(r) => "early" \in events'[r]
        BY <1>0, <3>1 DEF NoteAll
      <3>3. teardown'[r] = teardown[r] \/ teardown'[r] = "queued"
        BY <1>0, <3>1
      <3> QED
        BY <3>1, <3>2, <3>3
    <2> QED
      BY <2>1, <2>2
  <1>2. ASSUME NEW q \in Rows, TeardownRuns(q)
        PROVE  \/ teardown'[r] = teardown[r]
               \/ teardown'[r] = "failed" /\ r \notin request'
               \/ /\ teardown[r] = "queued" /\ teardown'[r] = "purging" /\ UNCHANGED patch
                  /\ \/ infra'[r] = IF infra[r] = "up" THEN "none" ELSE infra[r]
                     \/ infra'[r] = infra[r] /\ infra[r] = "up" /\ "kept" \in events'[r]
    <2>1. CASE q # r
      BY <1>0, <1>2, <2>1 DEF TeardownRuns
    <2>2. CASE q = r /\ r \notin request
      BY <1>0, <1>2, <2>2 DEF TeardownRuns, database
    <2>3. CASE q = r /\ r \in request
      <3>1. /\ teardown[r] = "queued" /\ teardown'[r] = "purging" /\ UNCHANGED patch
            /\ \/ infra' = [infra EXCEPT ![r] = IF @ = "up" THEN "none" ELSE @]
               \/ infra[r] = "up" /\ Note(r, "kept") /\ UNCHANGED infra
        BY <1>0, <1>2, <2>3 DEF TeardownRuns, calls
      <3>2. Note(r, "kept") => "kept" \in events'[r]
        BY <1>0 DEF Note, NoteAll
      <3> QED
        BY <1>0, <3>1, <3>2
    <2> QED
      BY <2>1, <2>2, <2>3
  <1>3. ASSUME NEW q \in Rows, Purge(q)
        PROVE  teardown'[r] = teardown[r] \/ (teardown'[r] = "done" /\ Purge(r))
    BY <1>0, <1>3 DEF Purge
  <1> QED
    BY <1>1, <1>2, <1>3, TeardownMoves

\* The row of a purge is gone with its request.
LEMMA PurgedGoes ==
  ASSUME OneName, NEW r \in Rows, Purge(r)
  PROVE  r \notin request'
  BY DEF Purge, NameOf, DropRow, database, OneName

LEMMA ApprovingStep ==
  ASSUME TypeOK, OneName, [Next]_vars, NEW r \in Rows, Approving(r)'
  PROVE  \/ Approving(r)
         \/ /\ UNCHANGED <<teardown, infra>>
            /\ teardown[r] \in {"queued", "purging"} => "early" \in events'[r]
  <1>1. PICK p \in Patches : /\ patch'[p].row = r
                             /\ patch'[p].pc \in {"read", "project", "mark", "dispatch"}
    BY DEF Approving
  <1>2. ASSUME Approve(p), patch'[p] # patch[p]
        PROVE  /\ UNCHANGED <<teardown, infra>>
               /\ teardown[r] \in {"queued", "purging"} => "early" \in events'[r]
    <2>1. PICK n \in Names :
            /\ patch' = [patch EXCEPT ![p] = [pc |-> "read", name |-> n, row |-> row[n]]]
            /\ IF teardown[row[n]] \in {"queued", "purging"}
               THEN Note(row[n], "early") ELSE UNCHANGED events
      BY <1>2 DEF Approve
    <2>2. row[n] = r
      BY <1>1, <2>1 DEF TypeOK
    <2>3. events \in [Rows -> SUBSET Events]
      BY DEF TypeOK
    <2>4. teardown[r] \in {"queued", "purging"} => "early" \in events'[r]
      BY <2>1, <2>2, <2>3 DEF Note, NoteAll
    <2> QED
      BY <1>2, <2>4 DEF Approve, cloud
  <1>3. CASE patch[p].row = r /\ patch[p].pc \in {"read", "project", "mark", "dispatch"}
    BY <1>3 DEF Approving
  <1> QED
    BY <1>1, <1>2, <1>3, PatchGoesOn

LEMMA PurgesAreFinalStep ==
  ASSUME TypeOK, Fresh, OneName, PurgesAreFinal, [Next]_vars
  PROVE  PurgesAreFinal'
  <1> SUFFICES ASSUME NEW r \in Rows
               PROVE  /\ /\ teardown'[r] \in {"queued", "purging"}
                         /\ infra'[r] \in {"asked", "building"} \/ Approving(r)'
                         => Has(r, {"early"})'
                      /\ teardown'[r] = "purging" /\ infra'[r] = "up"
                         => Has(r, {"early", "kept"})'
                      /\ Has(r, {"purged"})' =>
                           /\ r \notin request'
                           /\ infra'[r] \in {"building", "up"} => Has(r, {"early", "kept"})'
    BY DEF PurgesAreFinal, Rows
  <1>0. /\ Has(r, {"early"}) => "early" \in events'[r]
        /\ Has(r, {"early", "kept"}) => events'[r] \cap {"early", "kept"} # {}
    BY EventsStep DEF Has
  <1>1. /\ "early" \in events'[r] => Has(r, {"early"})'
        /\ events'[r] \cap {"early", "kept"} # {} => Has(r, {"early", "kept"})'
    BY DEF Has
  <1>2. infra'[r] = "up" => infra[r] \in {"building", "up"}
    BY InfraStep
  <1>3. infra'[r] \in {"asked", "building"} => infra[r] \in {"asked", "building"} \/ Approving(r)
    BY InfraStep DEF Approving, At
  <1>4. ASSUME teardown'[r] \in {"queued", "purging"},
               infra'[r] \in {"asked", "building"} \/ Approving(r)'
        PROVE  "early" \in events'[r]
    <2>1. CASE teardown'[r] = teardown[r]
      BY <1>0, <1>3, <1>4, <2>1, ApprovingStep DEF PurgesAreFinal
    <2>2. CASE /\ UNCHANGED <<infra, patch>>
               /\ infra[r] \in {"asked", "building"} \/ Approving(r) => "early" \in events'[r]
      BY <1>4, <2>2 DEF Approving
    <2>3. CASE teardown[r] = "queued" /\ UNCHANGED patch
      <3>1. Approving(r)' => Approving(r)
        BY <2>3 DEF Approving
      <3> QED
        BY <1>0, <1>3, <1>4, <2>3, <3>1 DEF PurgesAreFinal
    <2> QED
      BY <1>4, <2>1, <2>2, <2>3, TeardownStep
  <1>5. ASSUME teardown'[r] = "purging", infra'[r] = "up"
        PROVE  events'[r] \cap {"early", "kept"} # {}
    <2>1. CASE teardown'[r] = teardown[r]
      BY <1>0, <1>2, <1>5, <2>1 DEF PurgesAreFinal
    <2>2. CASE "kept" \in events'[r]
      BY <2>2
    <2>3. CASE /\ teardown[r] = "queued"
               /\ infra'[r] = IF infra[r] = "up" THEN "none" ELSE infra[r]
      BY <1>5, <2>3
    <2> QED
      BY <1>5, <2>1, <2>2, <2>3, TeardownStep
  <1>6. ASSUME Has(r, {"purged"})'
        PROVE  /\ r \notin request'
               /\ infra'[r] \in {"building", "up"} => events'[r] \cap {"early", "kept"} # {}
    <2>1. CASE Has(r, {"purged"})
      <3>1. r \notin request /\ (infra[r] \in {"building", "up"} => Has(r, {"early", "kept"}))
        BY <2>1 DEF PurgesAreFinal
      <3>2. r # lastRow + 1
        BY <2>1 DEF Fresh, Has, TypeOK, Rows
      <3>3. r \notin request'
        BY <3>1, <3>2, DatabaseStep DEF DropRow, database
      <3>4. infra'[r] \in {"building", "up"} => infra[r] \in {"building", "up"}
        BY <3>1, InfraStep
      <3> QED
        BY <1>0, <3>1, <3>3, <3>4
    <2>2. CASE Purge(r)
      <3>1. r \notin request'
        BY <2>2, PurgedGoes
      <3>2. teardown[r] = "purging" /\ UNCHANGED infra
        BY <2>2 DEF Purge
      <3>3. Has(r, {"early"}) => Has(r, {"early", "kept"})
        BY DEF Has
      <3> QED
        BY <1>0, <3>1, <3>2, <3>3 DEF PurgesAreFinal
    <2> QED
      BY <1>6, <2>1, <2>2, NewEvents DEF Has
  <1> QED
    BY <1>1, <1>4, <1>5, <1>6

----------------------------------------------------------------------------
LEMMA InitHolds == Init => IInv
  <1> SUFFICES ASSUME Init PROVE IInv
    OBVIOUS
  <1>1. TypeOK
    BY RestTypes DEF Init, TypeOK, Rows, AnyName, PatchAt, DestroyAt, SyncAt, LifecycleAssumption
  <1>2. Fresh
    BY DEF Init, Fresh, Rows, PatchAt, DestroyAt, SyncAt
  <1>3. OneName /\ PurgesAreFinal /\ BuiltTwiceHasACause
    BY DEF Init, OneName, PurgesAreFinal, BuiltTwiceHasACause, Has, Rows, PatchAt, Live
  <1>4. MarkedHasProject /\ SentIsCreated /\ SentOnce /\ SweepsHaveCauses
    BY DEF Init, MarkedHasProject, SentIsCreated, SentOnce, SweepsHaveCauses, Marked, Sent, At,
           Has, Looking, Rows, PatchAt, SyncAt
  <1> QED
    BY <1>1, <1>2, <1>3, <1>4 DEF IInv

LEMMA StepHolds == IInv /\ [Next]_vars => IInv'
  BY TypeStep, FreshStep, OneNameStep, MarkedHasProjectStep, SentIsCreatedStep, SentOnceStep,
     BuiltTwiceStep, SweepsHaveCausesStep, PurgesAreFinalStep DEF IInv

LEMMA IInvHolds == Spec => []IInv
  BY InitHolds, StepHolds, PTL DEF Spec

\* The types of Lifecycle's variables.
THEOREM TypeCorrect == Spec => []TypeOK
  BY IInvHolds, PTL DEF IInv

\* Approval, destruction and sync of updateRequestInfo, infrastrutureDestroy and
\* syncGitlabProjects, in any number and order: only a destroy call or a deletion
\* by hand leaves a Created repository without its GitLab project.
THEOREM ProjectsStay == Spec => []CreatedHasProject
  <1>1. IInv => CreatedHasProject
    BY DEF IInv, MarkedHasProject, CreatedHasProject, Marked, TypeOK, Rows
  <1> QED
    BY <1>1, IInvHolds, PTL

\* GitLab's refusal of a taken name is all that keeps updateRequestInfo from
\* dispatching a request twice.
THEOREM BuiltOnce == Spec => []BuiltTwiceHasACause
  BY IInvHolds, PTL DEF IInv

\* The sync deletes the row of a dispatched request only for one of three causes.
THEOREM BuiltIsKept == Spec => []SyncKeepsBuilt
  <1>1. IInv => SyncKeepsBuilt
    BY DEF IInv, SweepsHaveCauses, SyncKeepsBuilt, Sent, Causes
  <1> QED
    BY <1>1, IInvHolds, PTL

\* A purge leaves infrastructure behind only if a terraform destroy of its run had
\* failed, which supabase_delete_request does not wait to see put right, or if
\* infrastrutureDestroy and an approval of the same request overlapped.
THEOREM PurgedIsGone == Spec => []PurgeLeavesNothing
  <1>1. IInv => PurgeLeavesNothing
    BY DEF IInv, PurgesAreFinal, PurgeLeavesNothing
  <1> QED
    BY <1>1, IInvHolds, PTL
----------------------------------------------------------------------------
(* A sync that nothing disturbs. *)

\* What its two snapshots still say of rows and projects while it works.
InSync ==
    \A s \in Syncs \ stirred :
        /\ sync[s].pc = "read" => sync[s].page = project
        /\ sync[s].pc = "loops" =>
             \A n \in Names :
                /\ n \in sync[s].strays =>
                     project[n] # 0 /\ project[n] = sync[s].page[n] /\ row[n] = 0
                /\ n \in sync[s].missing => project[n] = 0 /\ row[n] # 0
                /\ n \notin sync[s].strays \cup sync[s].missing =>
                     (row[n] # 0 <=> project[n] # 0)

\* Whoever else moves a row or a project disturbs every sync that is under way.
LEMMA StirringStep ==
  ASSUME TypeOK, [Next]_vars, NEW s \in Syncs, s \notin stirred'
  PROVE  /\ s \notin stirred
         /\ \/ sync[s].pc = "idle"
            \/ UNCHANGED <<row, project>>
            \/ \E n \in Names : SyncDeleteProject(s, n) \/ SyncDeleteRow(s, n)
  <1>1. ASSUME NEW others, s \in others, Stir(others)
        PROVE  s \notin stirred /\ sync[s].pc = "idle"
    BY <1>1 DEF Stir
  <1>2. ASSUME NEW others, Stir(others) PROVE s \notin stirred
    BY <1>2 DEF Stir
  <1>3. ASSUME NEW t, stirred' = stirred \cup {t} PROVE s \notin stirred
    BY <1>3
  <1>4. s \notin stirred
    BY <1>2, <1>3 DEF Next, vars, CreateRow, PostProject, DeleteProject, RemoveRequest,
         BuildStarts, BuildEnds, TeardownRuns, Purge, Approve, PatchRead, PatchProject,
         PatchMark, PatchDispatch, PatchFails, DestroyRead, DestroyFind, DestroyRemove,
         DestroySend, DestroyFails, SyncFetch, SyncRead, SyncFails, SyncDeleteProject,
         SyncDeleteRow, Unproject
  <1>5. \/ sync[s].pc = "idle" \/ UNCHANGED row
        \/ \E n \in Names : SyncDeleteRow(s, n)
    <2>1. ASSUME NEW t \in Syncs, NEW n \in Names, SyncDeleteRow(t, n), t # s
          PROVE  sync[s].pc = "idle" \/ UNCHANGED row
      BY <1>1, <2>1 DEF SyncDeleteRow, database
    <2> QED
      BY <1>1, <2>1, RowMoves DEF CreateRow, Purge
  <1>6. \/ sync[s].pc = "idle" \/ UNCHANGED project
        \/ \E n \in Names : SyncDeleteProject(s, n)
    <2>1. ASSUME NEW t \in Syncs, NEW n \in Names, SyncDeleteProject(t, n), t # s
          PROVE  sync[s].pc = "idle" \/ UNCHANGED project
      BY <1>1, <2>1 DEF SyncDeleteProject
    <2>2. ASSUME NEW p \in Patches, PatchProject(p)
          PROVE  sync[s].pc = "idle" \/ UNCHANGED project
      BY <1>1, <2>2 DEF PatchProject, gitlab
    <2> QED
      BY <1>1, <2>1, <2>2, ProjectMoves DEF DestroyRemove, Unproject, PostProject, DeleteProject
  <1>7. \A n \in Names : SyncDeleteRow(s, n) => UNCHANGED project
    BY DEF SyncDeleteRow, gitlab
  <1>8. \A n \in Names : SyncDeleteProject(s, n) => UNCHANGED row
    BY DEF SyncDeleteProject, database
  <1> QED
    BY <1>4, <1>5, <1>6, <1>7, <1>8

\* A sync moves itself, and nothing else moves it.
LEMMA OwnStep ==
  ASSUME TypeOK, [Next]_vars, NEW s \in Syncs
  PROVE  \/ sync'[s] = sync[s]
         \/ SyncFetch(s) \/ SyncRead(s) \/ SyncFails(s)
         \/ \E n \in Names : SyncDeleteProject(s, n) \/ SyncDeleteRow(s, n)
  <1>0. sync \in [Syncs -> SyncCalls]
    BY DEF TypeOK, SyncCalls
  <1>1. ASSUME NEW t \in Syncs, t # s, SyncFetch(t) \/ SyncRead(t) \/ SyncFails(t)
        PROVE  sync'[s] = sync[s]
    BY <1>0, <1>1 DEF SyncFetch, SyncRead, SyncFails, SyncLeft
  <1>2. ASSUME NEW t \in Syncs, t # s, NEW n \in Names,
               SyncDeleteProject(t, n) \/ SyncDeleteRow(t, n)
        PROVE  sync'[s] = sync[s]
    BY <1>0, <1>2 DEF SyncDeleteProject, SyncDeleteRow, SyncLeft
  <1> QED
    BY <1>1, <1>2, SyncMoves

\* What is left of the loops, read back.
LEMMA LeftIs ==
  ASSUME TypeOK, NEW s \in Syncs, NEW strays, NEW missing, SyncLeft(s, strays, missing)
  PROVE  \/ strays \cup missing = {} /\ sync'[s].pc = "done"
         \/ /\ sync'[s].pc = "loops" /\ sync'[s].page = sync[s].page
            /\ sync'[s].strays = strays /\ sync'[s].missing = missing
  <1>0. sync \in [Syncs -> SyncCalls]
    BY DEF TypeOK, SyncCalls
  <1>1. CASE strays \cup missing = {}
    BY <1>0, <1>1 DEF SyncLeft, SyncAt
  <1>2. CASE strays \cup missing # {}
    <2>1. sync'[s] = [pc |-> "loops", page |-> sync[s].page,
                      strays |-> strays, missing |-> missing]
      BY <1>0, <1>2 DEF SyncLeft
    <2> QED
      BY <2>1
  <1> QED
    BY <1>1, <1>2

LEMMA InSyncStep ==
  ASSUME TypeOK, InSync, SyncReconciles, [Next]_vars
  PROVE  InSync' /\ SyncReconciles'
  <1> DEFINE Agrees(s) ==
        /\ sync[s].pc = "read" => sync[s].page = project
        /\ sync[s].pc = "loops" =>
             \A n \in Names :
                /\ n \in sync[s].strays =>
                     project[n] # 0 /\ project[n] = sync[s].page[n] /\ row[n] = 0
                /\ n \in sync[s].missing => project[n] = 0 /\ row[n] # 0
                /\ n \notin sync[s].strays \cup sync[s].missing =>
                     (row[n] # 0 <=> project[n] # 0)
        /\ sync[s].pc = "done" => \A n \in Names : row[n] # 0 <=> project[n] # 0
  <1>1. SUFFICES ASSUME NEW s \in Syncs, s \notin stirred' PROVE Agrees(s)'
    BY DEF InSync, SyncReconciles
  <1>2. s \notin stirred /\ Agrees(s)
    BY <1>1, StirringStep DEF InSync, SyncReconciles
  <1>3. /\ row \in [Names -> 0..MaxRows] /\ project \in [Names -> 0..MaxProjects]
        /\ sync \in [Syncs -> SyncCalls]
    BY DEF TypeOK, SyncCalls
  <1>4. CASE sync'[s] = sync[s] /\ (sync[s].pc = "idle" \/ UNCHANGED <<row, project>>)
    BY <1>2, <1>4
  <1>5. CASE SyncFetch(s)
    <2>1. sync'[s] = [pc |-> "read", page |-> FirstPage, strays |-> {}, missing |-> {}]
      BY <1>3, <1>5 DEF SyncFetch
    <2>2. FirstPage = project /\ UNCHANGED project
      BY <1>1, <1>5 DEF SyncFetch, gitlab
    <2> QED
      BY <2>1, <2>2
  <1>6. CASE SyncRead(s)
    <2> DEFINE strays == {n \in Names : sync[s].page[n] # 0 /\ row[n] = 0}
               missing == {n \in Names : sync[s].page[n] = 0 /\ row[n] # 0}
    <2>1. sync[s].page = project /\ UNCHANGED <<row, project>> /\ SyncLeft(s, strays, missing)
      BY <1>2, <1>6 DEF SyncRead, database, gitlab
    <2>2. /\ \A n \in Names : n \in strays <=> project[n] # 0 /\ row[n] = 0
          /\ \A n \in Names : n \in missing <=> project[n] = 0 /\ row[n] # 0
      BY <2>1
    <2> HIDE DEF strays, missing
    <2> QED
      BY <2>1, <2>2, LeftIs
  <1>7. ASSUME NEW m \in Names, SyncDeleteProject(s, m) PROVE Agrees(s)'
    <2>1. /\ sync[s].pc = "loops" /\ m \in sync[s].strays
          /\ SyncLeft(s, sync[s].strays \ {m}, sync[s].missing)
          /\ UNCHANGED row
      BY <1>7 DEF SyncDeleteProject, database
    <2>2. project' = [project EXCEPT ![m] = IF @ = sync[s].page[m] THEN 0 ELSE @]
      BY <1>1, <1>7 DEF SyncDeleteProject
    <2>3. /\ project'[m] = 0 /\ row[m] = 0
          /\ \A n \in Names \ {m} : project'[n] = project[n]
      BY <1>2, <1>3, <2>1, <2>2
    <2> QED
      BY <1>2, <2>1, <2>3, LeftIs
  <1>8. ASSUME NEW m \in Names, SyncDeleteRow(s, m) PROVE Agrees(s)'
    <2>1. /\ sync[s].pc = "loops" /\ sync[s].strays = {} /\ m \in sync[s].missing
          /\ UNCHANGED project
      BY <1>8 DEF SyncDeleteRow, gitlab
    <2>2. SyncLeft(s, {}, sync[s].missing \ {m}) /\ row' = [row EXCEPT ![m] = 0]
      BY <1>1, <1>8 DEF SyncDeleteRow, DropRow
    <2>3. /\ row'[m] = 0 /\ project[m] = 0
          /\ \A n \in Names \ {m} : row'[n] = row[n]
      BY <1>2, <1>3, <2>1, <2>2
    <2> QED
      BY <1>2, <2>1, <2>2, <2>3, LeftIs
  <1>9. ~SyncFails(s)
    BY <1>1 DEF SyncFails
  <1> QED
    <2>1. \/ sync[s].pc = "idle" \/ UNCHANGED <<row, project>>
          \/ \E n \in Names : SyncDeleteProject(s, n) \/ SyncDeleteRow(s, n)
      BY <1>1, StirringStep
    <2> HIDE DEF Agrees
    <2> QED
      BY <1>4, <1>5, <1>6, <1>7, <1>8, <1>9, <2>1, OwnStep

\* syncGitlabProjects, with all projects on its one page and no one else at
\* work: it leaves a row for every project and a project for every row.
THEOREM Reconciled == Spec => []SyncReconciles
  <1>1. Init => InSync /\ SyncReconciles
    BY DEF Init, InSync, SyncReconciles, SyncAt
  <1>2. TypeOK /\ InSync /\ SyncReconciles /\ [Next]_vars => InSync' /\ SyncReconciles'
    BY InSyncStep
  <1> QED
    BY <1>1, <1>2, TypeCorrect, PTL DEF Spec

----------------------------------------------------------------------------
(* What a destroy call leaves without a project. *)

\* The disjuncts of UnprojectedIsTornDown.
Excused(r) ==
    \/ teardown[r] \in {"queued", "purging"}
    \/ Has(r, {"unsent"})
    \/ r \notin request
    \/ \E d \in Destroys : destroy[d].pc = "send" /\ destroy[d].row = r
    \/ \E q \in 1..(r - 1) : Has(q, {"swept", "purged"})

\* The name that a destroy call works on is still its own row's, or its row is
\* gone and a later one may have the name.
NamesAreOld ==
    \A d \in Destroys : destroy[d].pc \notin {"idle", "ended"} =>
        LET n == destroy[d].name
            r == destroy[d].row IN
        \/ row[n] = r
        \/ Has(r, {"swept", "purged"}) /\ (row[n] # 0 => row[n] > r)

UnprojectedIsExcused ==
    upsets = 0 =>
        \A n \in Names : row[n] # 0 /\ Has(row[n], {"unprojected"}) => Excused(row[n])

\* The row that a step takes from its name was swept or purged in that step.
LEMMA NamesStep ==
  ASSUME TypeOK, Fresh, OneName, [Next]_vars, NEW n \in Names
  PROVE  \/ row'[n] = row[n]
         \/ row[n] = 0 /\ row'[n] = lastRow + 1
         \/ row[n] \in Rows /\ row'[n] = 0 /\ events'[row[n]] \cap {"swept", "purged"} # {}
  <1>0. /\ row \in [Names -> 0..MaxRows] /\ Rows = 1..MaxRows
        /\ events \in [Rows -> SUBSET Events]
    BY DEF TypeOK, Rows
  <1>1. ASSUME NEW m \in Names, CreateRow(m)
        PROVE  row'[n] = row[n] \/ (row[n] = 0 /\ row'[n] = lastRow + 1)
    BY <1>0, <1>1 DEF CreateRow
  <1>2. ASSUME NEW m \in Names, DropRow(m), row[m] # 0,
               Note(row[m], "swept") \/ Note(row[m], "purged")
        PROVE  \/ row'[n] = row[n]
               \/ row[n] \in Rows /\ row'[n] = 0 /\ events'[row[n]] \cap {"swept", "purged"} # {}
    <2>1. row[m] \in Rows /\ (row'[n] = row[n] \/ (n = m /\ row'[n] = 0))
      BY <1>0, <1>2 DEF DropRow
    <2>2. events'[row[m]] \cap {"swept", "purged"} # {}
      BY <1>0, <1>2, <2>1 DEF Note, NoteAll
    <2> QED
      BY <2>1, <2>2
  <1>3. ASSUME NEW r \in Rows, Purge(r)
        PROVE  \/ row'[n] = row[n]
               \/ row[n] \in Rows /\ row'[n] = 0 /\ events'[row[n]] \cap {"swept", "purged"} # {}
    <2>1. CASE UNCHANGED database
      BY <2>1 DEF database
    <2>2. CASE \E m \in NameOf(r) : DropRow(m)
      <3>1. PICK m \in Names : row[m] = r /\ DropRow(m)
        BY <2>2 DEF NameOf
      <3>2. Note(row[m], "purged") /\ row[m] # 0
        BY <1>0, <1>3, <3>1 DEF Purge
      <3> QED
        BY <1>2, <3>1, <3>2
    <2> QED
      BY <1>3, <2>1, <2>2 DEF Purge
  <1>4. ASSUME NEW s \in Syncs, NEW m \in Names, SyncDeleteRow(s, m)
        PROVE  \/ row'[n] = row[n]
               \/ row[n] \in Rows /\ row'[n] = 0 /\ events'[row[n]] \cap {"swept", "purged"} # {}
    <2>1. \/ UNCHANGED database
          \/ row[m] # 0 /\ DropRow(m) /\ Note(row[m], "swept")
      BY <1>4 DEF SyncDeleteRow
    <2> QED
      BY <1>2, <2>1 DEF database
  <1> QED
    BY <1>1, <1>3, <1>4, RowMoves

\* A destroy call goes on with the name and the row that it has read.
LEMMA DestroyGoesOn ==
  ASSUME TypeOK, [Next]_vars, NEW d \in Destroys, destroy'[d].pc \notin {"idle", "ended"}
  PROVE  \/ /\ destroy'[d].name = destroy[d].name /\ destroy'[d].row = destroy[d].row
            /\ destroy[d].pc \notin {"idle", "ended"}
         \/ /\ destroy'[d].name \in Names /\ row[destroy'[d].name] = destroy'[d].row
            /\ UNCHANGED row
  <1>0. destroy \in [Destroys -> DestroyCalls] /\ DestroyAt("ended").pc = "ended"
    BY DEF TypeOK, DestroyCalls, DestroyAt
  <1>1. ASSUME NEW e \in Destroys, DestroyEnds(e) PROVE destroy'[d] = destroy[d]
    BY <1>0, <1>1 DEF DestroyEnds
  <1>2. ASSUME NEW e \in Destroys, DestroyRead(e), ~DestroyEnds(e)
        PROVE  \/ destroy'[d] = destroy[d]
               \/ /\ destroy'[d].name \in Names /\ row[destroy'[d].name] = destroy'[d].row
                  /\ UNCHANGED row
    <2>1. PICK r \in request, n \in Names :
             /\ row[n] = r
             /\ destroy' = [destroy EXCEPT ![e] =
                              [pc |-> "find", name |-> n, row |-> r, project |-> 0]]
      BY <1>2 DEF DestroyRead
    <2>2. UNCHANGED row
      BY <1>2 DEF DestroyRead, database
    <2> QED
      BY <1>0, <2>1, <2>2
  <1>3. ASSUME NEW e \in Destroys, DestroyRemove(e)
        PROVE  \/ destroy'[d] = destroy[d]
               \/ /\ destroy'[d].name = destroy[d].name /\ destroy'[d].row = destroy[d].row
                  /\ destroy[d].pc \notin {"idle", "ended"}
    <2>1. destroy' = [destroy EXCEPT ![e] = [destroy[e] EXCEPT !.pc = "send"]]
      BY <1>0, <1>3 DEF DestroyRemove, DestroyTo
    <2>2. /\ [destroy[e] EXCEPT !.pc = "send"].name = destroy[e].name
          /\ [destroy[e] EXCEPT !.pc = "send"].row = destroy[e].row
      BY <1>0 DEF DestroyCalls
    <2>3. destroy[e].pc = "remove"
      BY <1>3 DEF DestroyRemove
    <2> QED
      BY <1>0, <2>1, <2>2, <2>3
  <1>4. ASSUME NEW e \in Destroys, DestroyFind(e)
        PROVE  \/ destroy'[d] = destroy[d]
               \/ /\ destroy'[d].name = destroy[d].name /\ destroy'[d].row = destroy[d].row
                  /\ destroy[d].pc \notin {"idle", "ended"}
    <2>0. PICK id \in {0, project[destroy[e].name]} :
             destroy' = [destroy EXCEPT ![e].project = id,
                                        ![e].pc = IF id = 0 THEN "send" ELSE "remove"]
      BY <1>4 DEF DestroyFind
    <2> DEFINE pc == IF id = 0 THEN "send" ELSE "remove"
               call == [[destroy[e] EXCEPT !.project = id] EXCEPT !.pc = pc]
    <2>1. destroy' = [destroy EXCEPT ![e] = call] /\ destroy[e].pc = "find"
      BY <1>0, <1>4, <2>0 DEF DestroyFind
    <2>2. call.name = destroy[e].name /\ call.row = destroy[e].row
      BY <1>0 DEF DestroyCalls
    <2> HIDE DEF call
    <2> QED
      BY <1>0, <2>1, <2>2
  <1>5. ASSUME NEW e \in Destroys, DestroySend(e) \/ DestroyFails(e) PROVE DestroyEnds(e)
    BY <1>5 DEF DestroySend, DestroyFails
  <1> QED
    BY <1>1, <1>2, <1>3, <1>4, <1>5, DestroyMoves

LEMMA NamesAreOldStep ==
  ASSUME TypeOK, Fresh, OneName, NamesAreOld, [Next]_vars
  PROVE  NamesAreOld'
  <1> SUFFICES ASSUME NEW d \in Destroys, destroy'[d].pc \notin {"idle", "ended"},
                      NEW n, n = destroy'[d].name, NEW r, r = destroy'[d].row
               PROVE  \/ row'[n] = r
                      \/ Has(r, {"swept", "purged"})' /\ (row'[n] # 0 => row'[n] > r)
    BY DEF NamesAreOld
  <1>1. CASE row[n] = r /\ UNCHANGED row
    BY <1>1
  <1>2. CASE /\ n = destroy[d].name /\ r = destroy[d].row
             /\ destroy[d].pc \notin {"idle", "ended"}
    <2>1. n \in Names /\ r \in Rows /\ r \in 1..lastRow /\ lastRow \in Nat
      BY <1>2 DEF Fresh, TypeOK, Rows
    <2>2. \/ row[n] = r
          \/ Has(r, {"swept", "purged"}) /\ (row[n] # 0 => row[n] > r)
      BY <1>2 DEF NamesAreOld
    <2>3. Has(r, {"swept", "purged"}) => Has(r, {"swept", "purged"})'
      BY <2>1, HasStays
    <2>4. CASE row'[n] = row[n]
      BY <2>2, <2>3, <2>4
    <2>5. CASE row[n] = 0 /\ row'[n] = lastRow + 1
      BY <2>1, <2>2, <2>3, <2>5
    <2>6. CASE row'[n] = 0 /\ events'[row[n]] \cap {"swept", "purged"} # {}
      <3>1. CASE row[n] = r
        BY <2>6, <3>1 DEF Has
      <3> QED
        BY <2>2, <2>3, <2>6, <3>1
    <2> QED
      BY <2>1, <2>4, <2>5, <2>6, NamesStep
  <1> QED
    BY <1>1, <1>2, DestroyGoesOn

\* Only a deletion by hand or the DELETE of a destroy call takes a row's project.
LEMMA UnprojectedBy ==
  ASSUME TypeOK, Fresh, OneName, [Next]_vars, NEW r \in Rows, "unprojected" \in events'[r],
         upsets' = 0
  PROVE  \/ "unprojected" \in events[r]
         \/ \E d \in Destroys :
              /\ DestroyRemove(d) /\ destroy[d].pc = "remove" /\ row[destroy[d].name] = r
              /\ destroy'[d].pc = "send" /\ destroy'[d].row = destroy[d].row
  <1>0. /\ events \in [Rows -> SUBSET Events] /\ upsets \in Nat
        /\ destroy \in [Destroys -> DestroyCalls]
    BY DEF TypeOK, DestroyCalls
  <1>1. ASSUME NEW q, NEW e, Note(q, e), e # "unprojected" \/ q # r
        PROVE  "unprojected" \in events[r]
    BY <1>0, <1>1 DEF Note, NoteAll
  <1>2. ASSUME UNCHANGED events PROVE "unprojected" \in events[r]
    BY <1>2
  <1>3. ASSUME NEW p \in Patches, Approve(p) \/ PatchProject(p) \/ PatchDispatch(p)
        PROVE  "unprojected" \in events[r]
    BY <1>1, <1>2, <1>3 DEF Approve, PatchProject, PatchDispatch
  <1>4. ASSUME NEW q \in Rows, TeardownRuns(q) \/ Purge(q) PROVE "unprojected" \in events[r]
    BY <1>1, <1>2, <1>4, RunNotes DEF Purge
  <1>5. ASSUME NEW s \in Syncs, NEW n \in Names, SyncDeleteRow(s, n)
        PROVE  "unprojected" \in events[r]
    BY <1>1, <1>2, <1>5 DEF SyncDeleteRow
  <1>6. ASSUME NEW s \in Syncs, SyncFetch(s) PROVE "unprojected" \in events[r]
    BY <1>0, <1>6 DEF SyncFetch
  <1>7. ASSUME NEW n \in Names, DeleteProject(n) PROVE FALSE
    BY <1>0, <1>7 DEF DeleteProject, Upset
  <1>8. ASSUME NEW d \in Destroys, DestroySend(d) PROVE "unprojected" \in events[r]
    <2>1. ASSUME NEW E \in SUBSET {"early", "unsent"}, NoteAll(destroy[d].row, E)
          PROVE  "unprojected" \in events[r]
      BY <1>0, <2>1 DEF NoteAll
    <2> QED
      BY <1>2, <1>8, <2>1, SendNotes
  <1>9. ASSUME NEW d \in Destroys, DestroyRemove(d), "unprojected" \notin events[r]
        PROVE  /\ DestroyRemove(d) /\ destroy[d].pc = "remove" /\ row[destroy[d].name] = r
               /\ destroy'[d].pc = "send" /\ destroy'[d].row = destroy[d].row
    <2>1. /\ destroy[d].pc = "remove"
          /\ UNCHANGED events \/ Note(row[destroy[d].name], "unprojected")
      BY <1>9 DEF DestroyRemove, Unproject
    <2>2. destroy' = [destroy EXCEPT ![d] = [destroy[d] EXCEPT !.pc = "send"]]
      BY <1>0, <1>9 DEF DestroyRemove, DestroyTo
    <2>3. /\ [destroy[d] EXCEPT !.pc = "send"].pc = "send"
          /\ [destroy[d] EXCEPT !.pc = "send"].row = destroy[d].row
      BY <1>0 DEF DestroyCalls
    <2> QED
      BY <1>0, <1>1, <1>2, <1>9, <2>1, <2>2, <2>3
  <1> QED
    BY <1>2, <1>3, <1>4, <1>5, <1>6, <1>7, <1>8, <1>9, EventsMoves

\* A row that is due to be torn down stays so, or goes, or loses its request; a
\* call that sends nothing failed, or its row is gone.
LEMMA ExcusedStep ==
  ASSUME TypeOK, Fresh, OneName, [Next]_vars, upsets' = 0, NEW r \in Rows, Live(r), Excused(r)
  PROVE  Excused(r)'
  <1>0. /\ teardown \in [Rows -> {"none", "queued", "purging", "done", "failed"}]
        /\ destroy \in [Destroys -> DestroyCalls] /\ upsets \in Nat /\ Rows = 1..MaxRows
        /\ events \in [Rows -> SUBSET Events]
    BY DEF TypeOK, DestroyCalls, Rows
  <1>1. CASE teardown[r] \in {"queued", "purging"}
    <2>1. teardown'[r] \in {"queued", "purging"} \/ r \notin request'
      BY <1>0, <1>1, TeardownStep, PurgedGoes
    <2> QED
      BY <2>1 DEF Excused
  <1>2. CASE \E q \in 1..(r - 1) : Has(q, {"swept", "purged"})
    <2>1. PICK q \in 1..(r - 1) : Has(q, {"swept", "purged"})
      BY <1>2
    <2>2. Has(q, {"swept", "purged"})'
      BY <1>0, <2>1, HasStays
    <2> QED
      BY <2>2 DEF Excused
  <1>3. ASSUME NEW d \in Destroys, destroy[d].pc = "send", destroy[d].row = r PROVE Excused(r)'
    <2>1. ASSUME NEW e \in Destroys,
                 DestroyRead(e) \/ DestroyFind(e) \/ DestroyRemove(e)
          PROVE  destroy'[d] = destroy[d]
      BY <1>0, <1>3, <2>1 DEF DestroyRead, DestroyFind, DestroyRemove, DestroyTo, DestroyEnds
    <2>2. ASSUME NEW e \in Destroys, DestroySend(e), e # d PROVE destroy'[d] = destroy[d]
      BY <1>0, <1>3, <2>2 DEF DestroySend, DestroyEnds
    <2>3. ASSUME DestroySend(d)
          PROVE  teardown'[r] \in {"queued", "purging"} \/ "unsent" \in events'[r]
      <3>1. "purged" \notin events[r]
        BY DEF OneName, Has
      <3>2. PICK arrives, triggered \in BOOLEAN :
               /\ teardown' = [teardown EXCEPT ![r] =
                                 IF arrives /\ @ # "purging" THEN "queued" ELSE @]
               /\ NoteAll(r, (IF infra[r] \in {"asked", "building"} \/ Approving(r)
                              THEN {"early"} ELSE {})
                             \cup (IF arrives /\ triggered THEN {} ELSE {"unsent"}))
        BY <1>3, <2>3, <3>1 DEF DestroySend
      <3>3. CASE arrives
        BY <1>0, <3>2, <3>3
      <3>4. CASE ~arrives
        BY <1>0, <3>2, <3>4 DEF NoteAll
      <3> QED
        BY <3>3, <3>4
    <2>4. ASSUME NEW e \in Destroys, DestroyFails(e) PROVE FALSE
      BY <1>0, <2>4 DEF DestroyFails, Upset
    <2>5. \/ destroy'[d] = destroy[d]
          \/ teardown'[r] \in {"queued", "purging"} \/ "unsent" \in events'[r]
      BY <2>1, <2>2, <2>3, <2>4, DestroyMoves
    <2> QED
      BY <1>3, <2>5 DEF Excused, Has
  <1>4. CASE Has(r, {"unsent"})
    BY <1>4, HasStays DEF Excused
  <1>5. CASE r \notin request
    <2>1. r # lastRow + 1
      BY DEF Live, Fresh, TypeOK
    <2>2. r \notin request'
      BY <1>5, <2>1, DatabaseStep DEF DropRow, database
    <2> QED
      BY <2>2 DEF Excused
  <1> QED
    BY <1>1, <1>2, <1>3, <1>4, <1>5 DEF Excused

LEMMA UnprojectedIsExcusedStep ==
  ASSUME TypeOK, Fresh, OneName, NamesAreOld, UnprojectedIsExcused, [Next]_vars
  PROVE  UnprojectedIsExcused'
  <1>1. SUFFICES ASSUME upsets' = 0, NEW n \in Names, NEW r, r = row'[n], r # 0,
                        Has(r, {"unprojected"})'
                 PROVE  Excused(r)'
    BY DEF UnprojectedIsExcused
  <1>2. row \in [Names -> 0..MaxRows] /\ Rows = 1..MaxRows /\ lastRow \in Nat /\ upsets = 0
    <2>1. UNCHANGED upsets \/ Upset
      BY DEF Next, vars, CreateRow, PostProject, DeleteProject, RemoveRequest, BuildStarts,
             BuildEnds, TeardownRuns, Purge, Approve, PatchRead, PatchProject, PatchMark,
             PatchDispatch, PatchFails, DestroyRead, DestroyFind, DestroyRemove, DestroySend,
             DestroyFails, SyncFetch, SyncRead, SyncFails, SyncDeleteProject, SyncDeleteRow
    <2> QED
      BY <1>1, <2>1 DEF TypeOK, Rows, Upset
  <1>3. r \in Rows /\ "unprojected" \in events'[r]
    BY <1>1, RowTypes DEF Has, Rows
  <1>4. r <= lastRow
    BY <1>2, <1>3, EventsOfRows
  <1>5. row[n] = r
    BY <1>1, <1>2, <1>4, NamesStep
  <1>6. CASE "unprojected" \in events[r]
    <2>1. Excused(r) /\ Live(r)
      BY <1>1, <1>2, <1>5, <1>6 DEF UnprojectedIsExcused, Has, Live
    <2> QED
      BY <1>1, <1>3, <2>1, ExcusedStep
  <1>7. ASSUME NEW d \in Destroys, DestroyRemove(d), destroy[d].pc = "remove",
               row[destroy[d].name] = r, destroy'[d].pc = "send",
               destroy'[d].row = destroy[d].row
        PROVE  Excused(r)'
    <2>1. \/ destroy[d].row = r
          \/ Has(destroy[d].row, {"swept", "purged"}) /\ r > destroy[d].row
      BY <1>1, <1>7 DEF NamesAreOld
    <2>2. CASE destroy[d].row = r
      BY <1>7, <2>2 DEF Excused
    <2>3. CASE Has(destroy[d].row, {"swept", "purged"}) /\ r > destroy[d].row
      <3>1. destroy[d].row \in 1..(r - 1) /\ destroy[d].row \in Rows
        BY <1>2, <1>3, <1>7, <2>3 DEF Fresh
      <3>2. PICK q \in Rows : q \in 1..(r - 1) /\ Has(q, {"swept", "purged"})
        BY <2>3, <3>1
      <3>3. Has(q, {"swept", "purged"})'
        BY <3>2, HasStays
      <3> QED
        BY <3>2, <3>3 DEF Excused
    <2> QED
      BY <2>1, <2>2, <2>3
  <1> QED
    BY <1>1, <1>3, <1>6, <1>7, UnprojectedBy

\* infrastrutureDestroy with no await that rejects and no deletion by hand: the
\* Created repository whose project it took has a teardown in the queue or under
\* way, unless the unawaited emit or trigger was lost, the request is gone, or the
\* project was taken in place of an earlier repository of that name.
THEOREM UnprojectedGoes == Spec => []UnprojectedIsTornDown
  <1>1. Init => NamesAreOld /\ UnprojectedIsExcused
    BY DEF Init, NamesAreOld, UnprojectedIsExcused, DestroyAt
  <1>2. IInv /\ NamesAreOld /\ UnprojectedIsExcused /\ [Next]_vars
          => NamesAreOld' /\ UnprojectedIsExcused'
    BY NamesAreOldStep, UnprojectedIsExcusedStep DEF IInv
  <1>3. IInv /\ UnprojectedIsExcused => UnprojectedIsTornDown
    <2> SUFFICES ASSUME IInv, UnprojectedIsExcused, NEW n \in Names, row[n] \in created,
                        project[n] = 0, upsets = 0
                 PROVE  Excused(row[n])
      BY DEF UnprojectedIsTornDown, Excused
    <2>1. row[n] # 0 /\ Marked(row[n])
      BY DEF IInv, TypeOK, Rows, Marked
    <2>2. Has(row[n], {"unprojected"})
      BY <2>1 DEF IInv, MarkedHasProject
    <2> QED
      BY <2>1, <2>2 DEF UnprojectedIsExcused
  <1> QED
    BY <1>1, <1>2, <1>3, IInvHolds, PTL DEF Spec
===============================================================================

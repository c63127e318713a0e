-------------------------- MODULE ProvisioningProofs --------------------------
(***************************************************************************)
(* Where a message may be, and what a run may do with it.  A message is    *)
(* never copied, and the one PATCH call that made the GitLab project is    *)
(* the only one that sends it.                                             *)
(***************************************************************************)
EXTENDS Provisioning, SequenceTheorems, FiniteSetTheorems, TLAPS

USE ProvisioningAssumption

PatchCalls == [pc : PatchPcs, req : Requests \cup {NoRequest}, role : BOOLEAN, sent : BOOLEAN]
MainRuns == [pc : RunPcs, dag : Clouds, req : Requests \cup {NoRequest}, tries : 0..1]
ChildRuns == [pc : ChildPcs, tries : 0..1]

\* Calls past createProject, which is passed once per name.
Claims(p) == patch[p].pc \in {"mark", "dispatch"} \/ patch[p].sent

In(s, r) == \E i \in 1..Len(s) : s[i] = r
AtMostOnce(s, r) == \A i, j \in 1..Len(s) : s[i] = r /\ s[j] = r => i = j

Held(r) == \E x \in Runs : run[x].req = r
Dispatched(r) == \E p \in Patches : patch[p].sent /\ patch[p].req = r

SentCalls == {p \in Patches : patch[p].sent}
Started == {x \in Runs : run[x].pc # "unused"}
Served == {x \in Runs : run[x].req # NoRequest}

----------------------------------------------------------------------------
(* The inductive invariant. *)

\* A call that has begun has a request; only an answered call has sent it.
CallsHaveRequests ==
    /\ \A p \in Patches : patch[p].pc # "idle" => patch[p].req \in Requests
    /\ \A p \in Patches : patch[p].sent => patch[p].pc = "answered"
    /\ \A p \in posting : patch[p].sent

\* A run has a request once it has got past the look for its row.
RunsHaveRequests ==
    /\ \A x \in Runs : run[x].pc \in {"unused", "pop"} => run[x].req = NoRequest
    /\ \A x \in Runs : run[x].pc \in {"group", "branch", "done"} => run[x].req \in Requests

\* Provisioning runs are those of a main run of the request's own cloud, and
\* write down what is there, or was until a run for a rival came by.
ChildrenOfOwnCloud ==
    /\ \A x \in Runs, k \in Kinds : child[x][k].pc # "none" =>
         /\ run[x].pc = "done"
         /\ run[x].dag = CloudOf[run[x].req]
         /\ k \in Wanted[run[x].req]
    /\ \A x \in Runs, k \in Kinds :
         child[x][k].pc \in {"write", "done"} =>
             k \in infra[run[x].req] \/ Rivals(run[x].req, k) # {}
    /\ \A r \in Requests : \A k \in recorded[r] :
         k \in Wanted[r] /\ (k \in infra[r] \/ Rivals(r, k) # {})

\* One call per request gets past createProject, and marks before it sends.
OneClaim ==
    /\ \A p, q \in Patches :
         Claims(p) /\ Claims(q) /\ patch[p].req = patch[q].req => p = q
    /\ \A p \in Patches : Claims(p) => patch[p].req \in gitlab
    /\ \A p \in Patches :
         patch[p].pc = "dispatch" \/ patch[p].sent => patch[p].req \in created

\* Its message is in one place, once.
OneMessage ==
    \A r \in Requests \ manual :
        /\ In(sending, r) \/ In(queue, r) \/ Held(r) \/ infra[r] # {} => Dispatched(r)
        /\ AtMostOnce(sending, r) /\ AtMostOnce(queue, r)
        /\ \A x, y \in Runs : run[x].req = r /\ run[y].req = r => x = y
        /\ ~(In(sending, r) /\ In(queue, r))
        /\ ~(In(sending, r) /\ Held(r))
        /\ ~(In(queue, r) /\ Held(r))

\* No message comes from nowhere, and no trigger is lost but by a fault.
MessagesAccounted ==
    /\ IsFiniteSet(Started) /\ IsFiniteSet(SentCalls) /\ IsFiniteSet(manual)
    /\ Len(sending) + Len(queue) + Cardinality(Served)
           <= Cardinality(SentCalls) + Cardinality(manual)
    /\ faults = 0 => \A p \in Patches :
           patch[p].sent /\ patch[p].role => p \in posting \/ run[p].pc # "unused"

IInv ==
    /\ TypeOK /\ CallsHaveRequests /\ RunsHaveRequests /\ ChildrenOfOwnCloud
    /\ OneClaim /\ OneMessage /\ MessagesAccounted

----------------------------------------------------------------------------
(* Messages in a queue. *)

LEMMA AppendIn ==
  ASSUME NEW s \in Seq(Requests), NEW m \in Requests, NEW r \in Requests
  PROVE  /\ Append(s, m) \in Seq(Requests)
         /\ Len(Append(s, m)) = Len(s) + 1
         /\ In(Append(s, m), r) => In(s, r) \/ m = r
         /\ AtMostOnce(s, r) /\ (m = r => ~In(s, r)) => AtMostOnce(Append(s, m), r)
  <1>1. /\ Append(s, m) \in Seq(Requests)
        /\ Len(s) \in Nat /\ Len(Append(s, m)) = Len(s) + 1
        /\ \A i \in 1..Len(s) : Append(s, m)[i] = s[i]
        /\ Append(s, m)[Len(s) + 1] = m
    BY AppendProperties, LenProperties
  <1>2. \A i \in 1..(Len(s) + 1) : i \in 1..Len(s) \/ i = Len(s) + 1
    BY <1>1
  <1> QED
    BY <1>1, <1>2 DEF In, AtMostOnce

LEMMA TailIn ==
  ASSUME NEW s \in Seq(Requests), s # <<>>, NEW r \in Requests
  PROVE  /\ Tail(s) \in Seq(Requests) /\ Head(s) \in Requests
         /\ Len(s) \in Nat /\ Len(Tail(s)) = Len(s) - 1
         /\ In(s, Head(s))
         /\ In(Tail(s), r) => In(s, r)
         /\ AtMostOnce(s, r) => AtMostOnce(Tail(s), r)
         /\ AtMostOnce(s, r) /\ Head(s) = r => ~In(Tail(s), r)
  <1>1. /\ Tail(s) \in Seq(Requests) /\ Head(s) \in Requests
        /\ Len(s) \in Nat \ {0} /\ Len(Tail(s)) = Len(s) - 1
        /\ \A i \in 1..Len(Tail(s)) : Tail(s)[i] = s[i + 1]
        /\ Head(s) = s[1]
    BY HeadTailProperties, EmptySeq
  <1>2. 1 \in 1..Len(s) /\ \A i \in 1..Len(Tail(s)) : i + 1 \in 1..Len(s) /\ i + 1 # 1
    BY <1>1
  <1>3. \A i, j \in 1..Len(Tail(s)) : i + 1 = j + 1 => i = j
    BY <1>1
  <1> QED
    BY <1>1, <1>2, <1>3 DEF In, AtMostOnce

LEMMA EmptyIn ==
  ASSUME NEW r \in Requests
  PROVE  <<>> \in Seq(Requests) /\ Len(<<>>) = 0 /\ ~In(<<>>, r) /\ AtMostOnce(<<>>, r)
  BY EmptySeq DEF In, AtMostOnce

\* An invariant's count of a message: none without it, one with it once.
LEMMA OccurrencesAre ==
  ASSUME NEW s \in Seq(Requests), NEW r \in Requests, AtMostOnce(s, r)
  PROVE  Occurrences(s, r) = IF In(s, r) THEN 1 ELSE 0
  <1>1. DOMAIN s = 1..Len(s)
    BY LenProperties
  <1>2. CASE In(s, r)
    <2>1. PICK i \in 1..Len(s) : s[i] = r
      BY <1>2 DEF In
    <2>2. {j \in DOMAIN s : s[j] = r} = {i}
      BY <1>1, <2>1 DEF AtMostOnce
    <2> QED
      BY <1>2, <2>2, FS_Singleton DEF Occurrences
  <1>3. CASE ~In(s, r)
    <2>1. {j \in DOMAIN s : s[j] = r} = {}
      BY <1>1, <1>3 DEF In
    <2> QED
      BY <1>3, <2>1, FS_EmptySet DEF Occurrences
  <1> QED
    BY <1>2, <1>3

----------------------------------------------------------------------------
(* Which actions move what. *)

LEMMA RowsMoves ==
  [Next]_vars =>
    \/ UNCHANGED rows
    \/ \E r \in Requests : RemoveRequest(r)
  BY DEF Next, System, Environment, Faults, PatchStep, RunStep, ChildStep, vars, database,
         PatchStatus, PatchRead, PatchProject, PatchMark, PatchDispatch, PatchFails,
         TriggerArrives, TriggerFails, BackendCrash, Publish, PublishFails, BrokerRestart,
         QueueByHand, TriggerByHand, Pop, Fetch, ApplyGroup, Branch, RunFails,
         TriggerChild, ChildFetch, ChildApply, ChildWrite, ChildFails

LEMMA StatusMoves ==
  [Next]_vars =>
    \/ UNCHANGED status
    \/ \E p \in Patches : PatchStatus(p)
  BY DEF Next, System, Environment, Faults, PatchStep, RunStep, ChildStep, vars, database,
         PatchRead, PatchProject, PatchMark, PatchDispatch, PatchFails, TriggerArrives,
         TriggerFails, BackendCrash, Publish, PublishFails, BrokerRestart, RemoveRequest,
         QueueByHand, TriggerByHand, Pop, Fetch, ApplyGroup, Branch, RunFails,
         TriggerChild, ChildFetch, ChildApply, ChildWrite, ChildFails

LEMMA CreatedMoves ==
  [Next]_vars =>
    \/ UNCHANGED created
    \/ \E p \in Patches : PatchMark(p)
  BY DEF Next, System, Environment, Faults, PatchStep, RunStep, ChildStep, vars, database,
         PatchStatus, PatchRead, PatchProject, PatchDispatch, PatchFails, TriggerArrives,
         TriggerFails, BackendCrash, Publish, PublishFails, BrokerRestart, RemoveRequest,
         QueueByHand, TriggerByHand, Pop, Fetch, ApplyGroup, Branch, RunFails,
         TriggerChild, ChildFetch, ChildApply, ChildWrite, ChildFails

LEMMA GitlabMoves ==
  [Next]_vars =>
    \/ UNCHANGED gitlab
    \/ \E p \in Patches : PatchProject(p) \/ PatchFails(p)
  BY DEF Next, System, Environment, Faults, PatchStep, RunStep, ChildStep, vars,
         PatchStatus, PatchRead, PatchMark, PatchDispatch, TriggerArrives, TriggerFails,
         BackendCrash, Publish, PublishFails, BrokerRestart, RemoveRequest, QueueByHand,
         TriggerByHand, Pop, Fetch, ApplyGroup, Branch, RunFails, TriggerChild,
         ChildFetch, ChildApply, ChildWrite, ChildFails

LEMMA PatchMoves ==
  [Next]_vars =>
    \/ UNCHANGED patch
    \/ \E p \in Patches : PatchStatus(p) \/ PatchRead(p) \/ PatchProject(p) \/
           PatchMark(p) \/ PatchDispatch(p) \/ PatchFails(p)
    \/ BackendCrash
  BY DEF Next, System, Environment, Faults, PatchStep, RunStep, ChildStep, vars, backend,
         TriggerArrives, TriggerFails, Publish, PublishFails, BrokerRestart,
         RemoveRequest, QueueByHand, TriggerByHand, Pop, Fetch, ApplyGroup, Branch,
         RunFails, TriggerChild, ChildFetch, ChildApply, ChildWrite, ChildFails

LEMMA SendingMoves ==
  [Next]_vars =>
    \/ UNCHANGED sending
    \/ \E p \in Patches : PatchDispatch(p)
    \/ \E r \in Requests : QueueByHand(r)
    \/ BackendCrash \/ Publish \/ PublishFails
  BY DEF Next, System, Environment, Faults, PatchStep, RunStep, ChildStep, vars, backend,
         PatchStatus, PatchRead, PatchProject, PatchMark, PatchFails, TriggerArrives,
         TriggerFails, BrokerRestart, RemoveRequest, TriggerByHand, Pop, Fetch,
         ApplyGroup, Branch, RunFails, TriggerChild, ChildFetch, ChildApply, ChildWrite,
         ChildFails

LEMMA ManualMoves ==
  [Next]_vars =>
    \/ UNCHANGED manual
    \/ \E r \in Requests : QueueByHand(r)
  BY DEF Next, System, Environment, Faults, PatchStep, RunStep, ChildStep, vars,
         PatchStatus, PatchRead, PatchProject, PatchMark, PatchDispatch, PatchFails,
         TriggerArrives, TriggerFails, BackendCrash, Publish, PublishFails, BrokerRestart,
         RemoveRequest, TriggerByHand, Pop, Fetch, ApplyGroup, Branch, RunFails,
         TriggerChild, ChildFetch, ChildApply, ChildWrite, ChildFails

LEMMA PostingMoves ==
  [Next]_vars =>
    \/ UNCHANGED posting
    \/ \E p \in Patches : PatchDispatch(p) \/ TriggerArrives(p) \/ TriggerFails(p)
    \/ BackendCrash
  BY DEF Next, System, Environment, Faults, PatchStep, RunStep, ChildStep, vars, backend,
         PatchStatus, PatchRead, PatchProject, PatchMark, PatchFails, Publish,
         PublishFails, BrokerRestart, RemoveRequest, QueueByHand, TriggerByHand, Pop,
         Fetch, ApplyGroup, Branch, RunFails, TriggerChild, ChildFetch, ChildApply,
         ChildWrite, ChildFails

LEMMA QueueMoves ==
  [Next]_vars =>
    \/ UNCHANGED queue
    \/ \E x \in Runs : Pop(x) \/ RunFails(x)
    \/ Publish \/ BrokerRestart
  BY DEF Next, System, Environment, Faults, PatchStep, RunStep, ChildStep, vars,
         PatchStatus, PatchRead, PatchProject, PatchMark, PatchDispatch, PatchFails,
         TriggerArrives, TriggerFails, BackendCrash, PublishFails, RemoveRequest,
         QueueByHand, TriggerByHand, Fetch, ApplyGroup, Branch, TriggerChild, ChildFetch,
         ChildApply, ChildWrite, ChildFails

LEMMA RunMoves ==
  [Next]_vars =>
    \/ UNCHANGED run
    \/ \E p \in Patches : TriggerArrives(p)
    \/ \E x \in HandRuns : TriggerByHand(x)
    \/ \E x \in Runs : Pop(x) \/ Fetch(x) \/ ApplyGroup(x) \/ Branch(x) \/ RunFails(x)
  BY DEF Next, System, Environment, Faults, PatchStep, RunStep, ChildStep, vars, airflow,
         PatchStatus, PatchRead, PatchProject, PatchMark, PatchDispatch, PatchFails,
         TriggerFails, BackendCrash, Publish, PublishFails, BrokerRestart, RemoveRequest,
         QueueByHand, TriggerChild, ChildFetch, ChildApply, ChildWrite, ChildFails

LEMMA ChildMoves ==
  [Next]_vars =>
    \/ UNCHANGED child
    \/ \E x \in Runs : Branch(x)
    \/ \E x \in Runs, k \in Kinds : TriggerChild(x, k) \/ ChildFetch(x, k) \/
           ChildApply(x, k) \/ ChildWrite(x, k) \/ ChildFails(x, k)
  BY DEF Next, System, Environment, Faults, PatchStep, RunStep, ChildStep, vars, airflow,
         PatchStatus, PatchRead, PatchProject, PatchMark, PatchDispatch, PatchFails,
         TriggerArrives, TriggerFails, BackendCrash, Publish, PublishFails, BrokerRestart,
         RemoveRequest, QueueByHand, TriggerByHand, Pop, Fetch, ApplyGroup, RunFails

LEMMA InfraMoves ==
  [Next]_vars =>
    \/ UNCHANGED infra
    \/ \E x \in Runs : ApplyGroup(x) \/ RunFails(x)
    \/ \E x \in Runs, k \in Kinds : ChildApply(x, k) \/ ChildFails(x, k)
  BY DEF Next, System, Environment, Faults, PatchStep, RunStep, ChildStep, vars, cloud,
         PatchStatus, PatchRead, PatchProject, PatchMark, PatchDispatch, PatchFails,
         TriggerArrives, TriggerFails, BackendCrash, Publish, PublishFails, BrokerRestart,
         RemoveRequest, QueueByHand, TriggerByHand, Pop, Fetch, Branch, TriggerChild,
         ChildFetch, ChildWrite

LEMMA RecordedMoves ==
  [Next]_vars =>
    \/ UNCHANGED recorded
    \/ \E x \in Runs, k \in Kinds : ChildWrite(x, k)
  BY DEF Next, System, Environment, Faults, PatchStep, RunStep, ChildStep, vars, cloud,
         PatchStatus, PatchRead, PatchProject, PatchMark, PatchDispatch, PatchFails,
         TriggerArrives, TriggerFails, BackendCrash, Publish, PublishFails, BrokerRestart,
         RemoveRequest, QueueByHand, TriggerByHand, Pop, Fetch, ApplyGroup, Branch,
         RunFails, TriggerChild, ChildFetch, ChildApply, ChildFails

LEMMA FaultsMove ==
  [Next]_vars => faults' = faults \/ Fault
  BY DEF Next, System, Environment, Faults, PatchStep, RunStep, ChildStep, vars,
         PatchStatus, PatchRead, PatchProject, PatchMark, PatchDispatch, PatchFails,
         TriggerArrives, TriggerFails, BackendCrash, Publish, PublishFails, BrokerRestart,
         RemoveRequest, QueueByHand, TriggerByHand, Pop, Fetch, ApplyGroup, Branch,
         RunFails, TriggerChild, ChildFetch, ChildApply, ChildWrite, ChildFails

----------------------------------------------------------------------------
(* What a step makes of a PATCH call. *)

\* The same call at another point.
Moved(old, pc, sent) == [pc |-> pc, req |-> old.req, role |-> old.role, sent |-> sent]

LEMMA PatchGotoIs ==
  ASSUME TypeOK, NEW p \in Patches, NEW label, PatchGoto(p, label)
  PROVE  patch' = [patch EXCEPT ![p] = Moved(patch[p], label, patch[p].sent)]
  <1>1. patch \in [Patches -> PatchCalls] /\ patch[p] \in PatchCalls
    BY DEF TypeOK, PatchCalls
  <1>2. [patch[p] EXCEPT !.pc = label] = Moved(patch[p], label, patch[p].sent)
    BY <1>1 DEF PatchCalls, Moved
  <1> QED
    BY <1>1, <1>2 DEF PatchGoto

LEMMA PatchDispatchIs ==
  ASSUME TypeOK, NEW p \in Patches, PatchDispatch(p)
  PROVE  patch' = [patch EXCEPT ![p] = Moved(patch[p], "answered", TRUE)]
  BY DEF PatchDispatch, Moved

LEMMA CallStep ==
  ASSUME TypeOK, CallsHaveRequests, [Next]_vars, NEW p \in Patches
  PROVE  \/ patch'[p] = patch[p]
         \/ /\ patch[p].pc \notin {"idle", "answered"}
            /\ patch'[p] = Moved(patch[p], "failed", FALSE)
         \/ /\ PatchStatus(p) /\ patch[p].pc = "idle"
            /\ patch'[p] \in PatchCalls /\ patch'[p].pc \in {"read", "answered"}
            /\ patch'[p].req \in rows /\ ~patch'[p].sent
         \/ /\ PatchRead(p) /\ patch[p].pc = "read"
            /\ patch'[p] = Moved(patch[p], "project", FALSE)
         \/ /\ PatchProject(p) /\ patch[p].pc = "project" /\ patch[p].req \notin gitlab
            /\ patch'[p] = Moved(patch[p], "mark", FALSE)
            /\ gitlab' = gitlab \cup {patch[p].req}
         \/ /\ PatchMark(p) /\ patch[p].pc = "mark"
            /\ patch'[p] = Moved(patch[p], "dispatch", FALSE)
            /\ created' = created \cup {patch[p].req}
         \/ /\ PatchDispatch(p) /\ patch[p].pc = "dispatch"
            /\ patch'[p] = Moved(patch[p], "answered", TRUE)
  <1>0. /\ patch \in [Patches -> PatchCalls]
        /\ patch[p].pc # "answered" => patch[p].sent = FALSE
    BY DEF TypeOK, PatchCalls, CallsHaveRequests
  <1>1. ASSUME NEW q \in Patches, PatchStatus(q) PROVE
           \/ patch'[p] = patch[p]
           \/ /\ q = p /\ patch[p].pc = "idle"
              /\ patch'[p] \in PatchCalls /\ patch'[p].pc \in {"read", "answered"}
              /\ patch'[p].req \in rows /\ ~patch'[p].sent
    <2>1. patch[q].pc = "idle"
      BY <1>1 DEF PatchStatus
    <2>2. PICK r \in rows, s \in Statuses, role \in BOOLEAN :
             patch' = [patch EXCEPT ![q] =
                [pc |-> IF s = "Approved" THEN "read" ELSE "answered",
                 req |-> r, role |-> role, sent |-> FALSE]]
      BY <1>1 DEF PatchStatus
    <2>3. CASE q = p
      <3>1. patch'[p] = [pc |-> IF s = "Approved" THEN "read" ELSE "answered",
                         req |-> r, role |-> role, sent |-> FALSE]
        BY <1>0, <2>2, <2>3
      <3>2. r \in Requests
        BY DEF TypeOK
      <3> QED
        BY <2>1, <2>3, <3>1, <3>2 DEF PatchCalls, PatchPcs
    <2>4. CASE q # p
      BY <1>0, <2>2, <2>4
    <2> QED
      BY <2>3, <2>4
  <1>2. ASSUME NEW q \in Patches, NEW label, PatchGoto(q, label)
        PROVE  patch'[p] = IF q = p THEN Moved(patch[p], label, patch[p].sent) ELSE patch[p]
    BY <1>0, <1>2, PatchGotoIs
  <1>3. ASSUME NEW q \in Patches, PatchRead(q) PROVE
           \/ patch'[p] = patch[p]
           \/ /\ q = p /\ patch[p].pc = "read"
              /\ patch'[p] \in {Moved(patch[p], "project", FALSE), Moved(patch[p], "failed", FALSE)}
    BY <1>0, <1>2, <1>3 DEF PatchRead
  <1>4. ASSUME NEW q \in Patches, PatchProject(q) PROVE
           \/ patch'[p] = patch[p]
           \/ /\ q = p /\ patch[p].pc = "project"
              /\ patch'[p] = Moved(patch[p], "failed", FALSE)
           \/ /\ q = p /\ patch[p].pc = "project" /\ patch[p].req \notin gitlab
              /\ patch'[p] = Moved(patch[p], "mark", FALSE)
              /\ gitlab' = gitlab \cup {patch[p].req}
    BY <1>0, <1>2, <1>4 DEF PatchProject
  <1>5. ASSUME NEW q \in Patches, PatchMark(q) PROVE
           \/ patch'[p] = patch[p]
           \/ /\ q = p /\ patch[p].pc = "mark"
              /\ patch'[p] = Moved(patch[p], "dispatch", FALSE)
              /\ created' = created \cup {patch[p].req}
    BY <1>0, <1>2, <1>5 DEF PatchMark
  <1>6. ASSUME NEW q \in Patches, PatchDispatch(q) PROVE
           \/ patch'[p] = patch[p]
           \/ /\ q = p /\ patch[p].pc = "dispatch"
              /\ patch'[p] = Moved(patch[p], "answered", TRUE)
    <2>1. patch[q].pc = "dispatch"
      BY <1>6 DEF PatchDispatch
    <2> QED
      BY <1>0, <1>6, <2>1, PatchDispatchIs
  <1>7. ASSUME NEW q \in Patches, PatchFails(q) PROVE
           \/ patch'[p] = patch[p]
           \/ /\ patch[p].pc \notin {"idle", "answered"}
              /\ patch'[p] = Moved(patch[p], "failed", FALSE)
    BY <1>0, <1>2, <1>7 DEF PatchFails
  <1>8. ASSUME BackendCrash PROVE
           \/ patch'[p] = patch[p]
           \/ /\ patch[p].pc \notin {"idle", "answered"}
              /\ patch'[p] = Moved(patch[p], "failed", FALSE)
    <2>1. [patch[p] EXCEPT !.pc = "failed"] = Moved(patch[p], "failed", patch[p].sent)
      BY <1>0 DEF PatchCalls, Moved
    <2> QED
      BY <1>0, <1>8, <2>1 DEF BackendCrash
  <1>9. ASSUME NEW q \in Patches, PatchRead(q), patch[p].pc = "read", q = p
        PROVE  PatchRead(p)
    BY <1>9
  <1> QED
    BY <1>1, <1>3, <1>4, <1>5, <1>6, <1>7, <1>8, PatchMoves

----------------------------------------------------------------------------
(* What a step makes of a run, and of what it builds. *)

LEMMA RunStepIs ==
  ASSUME TypeOK, CallsHaveRequests, [Next]_vars, NEW x \in Runs
  PROVE  /\ run'[x] \in MainRuns
         /\ \/ run'[x] = run[x]
            \/ run[x].pc = "unused" /\ run'[x].pc = "pop" /\ run'[x].req = run[x].req
            \/ /\ Pop(x) /\ run[x].pc = "pop" /\ run'[x].pc = "fetch"
               /\ \/ run'[x].req = run[x].req /\ queue' = queue
                  \/ queue # <<>> /\ run'[x].req = Head(queue) /\ queue' = Tail(queue)
            \/ /\ run'[x].dag = run[x].dag /\ run'[x].req = run[x].req
               /\ \/ /\ run[x].pc \notin {"unused", "done", "failed"}
                     /\ run'[x].pc \in {run[x].pc, "failed"}
                  \/ /\ run[x].pc = "fetch" /\ run[x].req \in rows
                     /\ run'[x].pc \in {"group", "branch"}
                  \/ run[x].pc = "group" /\ run'[x].pc = "branch"
                  \/ Branch(x) /\ run[x].pc = "branch" /\ run'[x].pc = "done"
  <1>0. run \in [Runs -> MainRuns]
    BY DEF TypeOK, MainRuns
  <1>1. ASSUME NEW y \in Runs, NEW dag \in Clouds, StartRun(y, dag) PROVE
           /\ run'[x] \in MainRuns
           /\ \/ run'[x] = run[x]
              \/ run[x].pc = "unused" /\ run'[x].pc = "pop" /\ run'[x].req = run[x].req
    BY <1>0, <1>1 DEF StartRun, MainRuns, RunPcs
  <1>2. ASSUME NEW p \in Patches, TriggerArrives(p) PROVE
           /\ run'[x] \in MainRuns
           /\ \/ run'[x] = run[x]
              \/ run[x].pc = "unused" /\ run'[x].pc = "pop" /\ run'[x].req = run[x].req
    <2>1. patch[p].req \in Requests
      BY <1>2 DEF TriggerArrives, CallsHaveRequests
    <2>2. CloudOf[patch[p].req] \in Clouds /\ p \in Runs
      BY <2>1 DEF Runs, ProvisioningAssumption
    <2> QED
      BY <1>1, <1>2, <2>2 DEF TriggerArrives
  <1>3. ASSUME NEW h \in HandRuns, TriggerByHand(h) PROVE
           /\ run'[x] \in MainRuns
           /\ \/ run'[x] = run[x]
              \/ run[x].pc = "unused" /\ run'[x].pc = "pop" /\ run'[x].req = run[x].req
    BY <1>1, <1>3 DEF TriggerByHand, Runs
  <1>4. ASSUME NEW y \in Runs, NEW label \in RunPcs, RunGoto(y, label) PROVE
           /\ run'[x] \in MainRuns
           /\ y = x => run'[x].pc = label /\ run'[x].dag = run[x].dag /\ run'[x].req = run[x].req
           /\ y # x => run'[x] = run[x]
    BY <1>0, <1>4 DEF RunGoto, RunBecomes, MainRuns
  <1>5. ASSUME NEW y \in Runs, Pop(y) PROVE
           /\ run'[x] \in MainRuns
           /\ \/ run'[x] = run[x]
              \/ /\ Pop(x) /\ run[x].pc = "pop" /\ run'[x].pc = "fetch"
                 /\ \/ run'[x].req = run[x].req /\ queue' = queue
                    \/ queue # <<>> /\ run'[x].req = Head(queue) /\ queue' = Tail(queue)
    <2>1. CASE queue = <<>>
      BY <1>4, <1>5, <2>1 DEF Pop, RunPcs
    <2>2. CASE queue # <<>>
      <3>1. Head(queue) \in Requests
        BY <2>2, TailIn DEF TypeOK
      <3>2. /\ run[y].pc = "pop" /\ queue' = Tail(queue)
            /\ RunBecomes(y, "fetch", Head(queue), 0)
        BY <1>5, <2>2 DEF Pop
      <3> QED
        BY <1>0, <1>5, <2>2, <3>1, <3>2 DEF RunBecomes, MainRuns, RunPcs
    <2> QED
      BY <2>1, <2>2
  <1>6. ASSUME NEW y \in Runs, Fetch(y) PROVE
           /\ run'[x] \in MainRuns
           /\ \/ run'[x] = run[x]
              \/ /\ run'[x].dag = run[x].dag /\ run'[x].req = run[x].req
                 /\ run[x].pc = "fetch"
                 /\ \/ run'[x].pc = "failed"
                    \/ run[x].req \in rows /\ run'[x].pc \in {"group", "branch"}
    <2>1. PICK label \in {"failed", "group", "branch"} :
             /\ RunGoto(y, label)
             /\ label = "failed" \/ run[y].req \in rows
      BY <1>6 DEF Fetch
    <2>2. run[y].pc = "fetch" /\ label \in RunPcs
      BY <1>6 DEF Fetch, RunPcs
    <2> QED
      BY <1>4, <2>1, <2>2
  <1>7. ASSUME NEW y \in Runs, ApplyGroup(y) PROVE
           /\ run'[x] \in MainRuns
           /\ \/ run'[x] = run[x]
              \/ /\ run'[x].dag = run[x].dag /\ run'[x].req = run[x].req
                 /\ run[x].pc = "group" /\ run'[x].pc \in {"failed", "branch"}
    <2>1. PICK label \in {"failed", "branch"} : RunGoto(y, label)
      BY <1>7 DEF ApplyGroup
    <2>2. run[y].pc = "group" /\ label \in RunPcs
      BY <1>7 DEF ApplyGroup, RunPcs
    <2> QED
      BY <1>4, <2>1, <2>2
  <1>8. ASSUME NEW y \in Runs, Branch(y) PROVE
           /\ run'[x] \in MainRuns
           /\ \/ run'[x] = run[x]
              \/ /\ run'[x].dag = run[x].dag /\ run'[x].req = run[x].req
                 /\ Branch(x) /\ run[x].pc = "branch" /\ run'[x].pc = "done"
    <2>1. run[y].pc = "branch" /\ RunGoto(y, "done")
      BY <1>8 DEF Branch
    <2> QED
      BY <1>4, <1>8, <2>1 DEF RunPcs
  <1>9. ASSUME NEW y \in Runs, RunFails(y) PROVE
           /\ run'[x] \in MainRuns
           /\ \/ run'[x] = run[x]
              \/ /\ run'[x].dag = run[x].dag /\ run'[x].req = run[x].req
                 /\ run[x].pc \notin {"unused", "done", "failed"}
                 /\ run'[x].pc \in {run[x].pc, "failed"}
    BY <1>0, <1>9 DEF RunFails, RunBecomes, MainRuns, RunPcs
  <1>10. CASE UNCHANGED run
    BY <1>0, <1>10
  <1> QED
    BY <1>2, <1>3, <1>5, <1>6, <1>7, <1>8, <1>9, <1>10, RunMoves

LEMMA ChildStepIs ==
  ASSUME TypeOK, RunsHaveRequests, [Next]_vars, NEW x \in Runs, NEW k \in Kinds
  PROVE  /\ child'[x][k] \in ChildRuns
         /\ \/ child'[x][k] = child[x][k]
            \/ /\ Branch(x) /\ run[x].pc = "branch"
               /\ \/ child'[x][k].pc = "none"
                  \/ /\ child'[x][k].pc = "due"
                     /\ run[x].dag = CloudOf[run[x].req] /\ k \in Wanted[run[x].req]
            \/ /\ child[x][k].pc \in {"due", "fetch", "apply", "write"}
               /\ child'[x][k].pc \in {child[x][k].pc, "failed"}
            \/ /\ child[x][k].pc \in {"due", "fetch"}
               /\ child'[x][k].pc \in {"fetch", "apply", "failed"}
            \/ ChildApply(x, k) /\ child[x][k].pc = "apply" /\ child'[x][k].pc = "write"
            \/ ChildWrite(x, k) /\ child[x][k].pc = "write" /\ child'[x][k].pc = "done"
  <1>0. child \in [Runs -> [Kinds -> ChildRuns]] /\ child[x][k] \in ChildRuns
    BY DEF TypeOK, ChildRuns
  <1>1. ASSUME NEW y \in Runs, Branch(y) PROVE
           /\ child'[x][k] \in ChildRuns
           /\ \/ child'[x][k] = child[x][k]
              \/ /\ Branch(x) /\ run[x].pc = "branch"
                 /\ \/ child'[x][k].pc = "none"
                    \/ /\ child'[x][k].pc = "due"
                       /\ run[x].dag = CloudOf[run[x].req] /\ k \in Wanted[run[x].req]
    <2>1. CASE y = x
      <3>1. child'[x][k] = [pc |-> IF k \in Counted(x) THEN "due" ELSE "none", tries |-> 0]
        BY <1>0, <1>1, <2>1 DEF Branch
      <3>2. k \in Counted(x) => run[x].dag = CloudOf[run[x].req] /\ k \in Wanted[run[x].req]
        BY DEF Counted
      <3>3. Branch(x) /\ run[x].pc = "branch"
        BY <1>1, <2>1 DEF Branch
      <3> QED
        BY <3>1, <3>2, <3>3 DEF ChildRuns, ChildPcs
    <2>2. CASE y # x
      BY <1>0, <1>1, <2>2 DEF Branch
    <2> QED
      BY <2>1, <2>2
  <1>2. ASSUME NEW y \in Runs, NEW j \in Kinds, NEW label \in ChildPcs, ChildGoto(y, j, label)
        PROVE  /\ child'[x][k] \in ChildRuns
               /\ IF y = x /\ j = k THEN child'[x][k].pc = label ELSE child'[x][k] = child[x][k]
    <2>1. child' = [child EXCEPT ![y] = [child[y] EXCEPT ![j] = [pc |-> label, tries |-> 0]]]
      BY <1>0, <1>2 DEF ChildGoto
    <2>2. child'[x] = IF y = x THEN [child[x] EXCEPT ![j] = [pc |-> label, tries |-> 0]]
                      ELSE child[x]
      BY <1>0, <2>1
    <2> QED
      BY <1>0, <2>2 DEF ChildRuns
  <1>3. ASSUME NEW y \in Runs, NEW j \in Kinds, TriggerChild(y, j) PROVE
           /\ child'[x][k] \in ChildRuns
           /\ \/ child'[x][k] = child[x][k]
              \/ child[x][k].pc = "due" /\ child'[x][k].pc = "fetch"
    BY <1>2, <1>3 DEF TriggerChild, ChildPcs
  <1>4. ASSUME NEW y \in Runs, NEW j \in Kinds, ChildFetch(y, j) PROVE
           /\ child'[x][k] \in ChildRuns
           /\ \/ child'[x][k] = child[x][k]
              \/ child[x][k].pc = "fetch" /\ child'[x][k].pc \in {"apply", "failed"}
    <2>1. PICK label \in {"apply", "failed"} : ChildGoto(y, j, label)
      BY <1>4 DEF ChildFetch
    <2>2. child[y][j].pc = "fetch" /\ label \in ChildPcs
      BY <1>4 DEF ChildFetch, ChildPcs
    <2> QED
      BY <1>2, <2>1, <2>2
  <1>5. ASSUME NEW y \in Runs, NEW j \in Kinds, ChildApply(y, j) PROVE
           /\ child'[x][k] \in ChildRuns
           /\ \/ child'[x][k] = child[x][k]
              \/ child[x][k].pc = "apply" /\ child'[x][k].pc = "failed"
              \/ ChildApply(x, k) /\ child[x][k].pc = "apply" /\ child'[x][k].pc = "write"
    <2>1. PICK label \in {"write", "failed"} : ChildGoto(y, j, label)
      BY <1>5 DEF ChildApply
    <2>2. child[y][j].pc = "apply" /\ label \in ChildPcs
      BY <1>5 DEF ChildApply, ChildPcs
    <2>3. CASE y = x /\ j = k
      BY <1>2, <1>5, <2>1, <2>2, <2>3
    <2>4. CASE ~(y = x /\ j = k)
      BY <1>2, <2>1, <2>2, <2>4
    <2> QED
      BY <2>3, <2>4
  <1>6. ASSUME NEW y \in Runs, NEW j \in Kinds, ChildWrite(y, j) PROVE
           /\ child'[x][k] \in ChildRuns
           /\ \/ child'[x][k] = child[x][k]
              \/ ChildWrite(x, k) /\ child[x][k].pc = "write" /\ child'[x][k].pc = "done"
    <2>1. child[y][j].pc = "write" /\ ChildGoto(y, j, "done") /\ "done" \in ChildPcs
      BY <1>6 DEF ChildWrite, ChildPcs
    <2>2. CASE y = x /\ j = k
      BY <1>2, <1>6, <2>1, <2>2
    <2>3. CASE ~(y = x /\ j = k)
      BY <1>2, <2>1, <2>3
    <2> QED
      BY <2>2, <2>3
  <1>7. ASSUME NEW y \in Runs, NEW j \in Kinds, ChildFails(y, j) PROVE
           /\ child'[x][k] \in ChildRuns
           /\ \/ child'[x][k] = child[x][k]
              \/ /\ child[x][k].pc \in {"due", "fetch", "apply", "write"}
                 /\ child'[x][k].pc \in {child[x][k].pc, "failed"}
    <2>1. PICK label \in {child[y][j].pc, "failed"} :
             child' = [child EXCEPT ![y][j] = [pc |-> label, tries |-> 1]]
      BY <1>7 DEF ChildFails
    <2>2. child' = [child EXCEPT ![y] = [child[y] EXCEPT ![j] = [pc |-> label, tries |-> 1]]]
      BY <1>0, <2>1
    <2>3. child'[x] = IF y = x THEN [child[x] EXCEPT ![j] = [pc |-> label, tries |-> 1]]
                      ELSE child[x]
      BY <1>0, <2>2
    <2>4. child[y][j].pc \in {"due", "fetch", "apply", "write"}
      BY <1>7 DEF ChildFails
    <2> QED
      BY <1>0, <2>1, <2>3, <2>4 DEF ChildRuns, ChildPcs
  <1>8. CASE UNCHANGED child
    BY <1>0, <1>8
  <1> QED
    BY <1>1, <1>3, <1>4, <1>5, <1>6, <1>7, <1>8, ChildMoves

\* Sharing a place goes both ways, and sharing one of a kind is sharing the group's.
LEMMA BesideIs ==
  ASSUME NEW r \in Requests, NEW k
  PROVE  /\ Beside(r, k) \subseteq Beside(r, "rg") /\ Rivals(r, k) \subseteq Beside(r, k)
         /\ \A q \in Beside(r, k) : q \in Requests /\ q # r /\ r \in Beside(q, k)
  BY DEF Beside, Rivals

\* Once a rival's run has written its files, it has.
LEMMA RivalsStay ==
  ASSUME TypeOK, CallsHaveRequests, RunsHaveRequests, ChildrenOfOwnCloud, [Next]_vars,
         NEW r \in Requests, NEW k \in Kinds
  PROVE  Rivals(r, k) \subseteq Rivals(r, k)'
  <1>0. k # "rg"
    BY DEF Kinds
  <1>1. ASSUME NEW x \in Runs, Writes(x, k) PROVE Writes(x, k)' /\ run'[x].req = run[x].req
    <2>1. child[x][k].pc \in {"apply", "write", "done", "failed"}
      BY <1>0, <1>1 DEF Writes
    <2>2. run[x].pc = "done"
      BY <2>1 DEF ChildrenOfOwnCloud
    <2>3. run'[x].req = run[x].req
      BY <2>2, RunStepIs
    <2>4. child'[x][k].pc \in {"apply", "write", "done", "failed"}
      <3>1. \/ child'[x][k] = child[x][k]
            \/ /\ child[x][k].pc \in {"apply", "write"}
               /\ child'[x][k].pc \in {child[x][k].pc, "failed"}
            \/ child'[x][k].pc \in {"write", "done"}
        BY <2>1, <2>2, ChildStepIs
      <3> QED
        BY <2>1, <3>1
    <2> QED
      BY <1>0, <2>3, <2>4 DEF Writes
  <1> QED
    BY <1>1 DEF Rivals, Beside

\* Terraform, run for x and a kind k, finds the files of o.
Applies(x, k, o) ==
    /\ o \in {run[x].req} \cup Rivals(run[x].req, k)
    /\ infra' \in {Cleared(run[x].req, k, o), Applied(run[x].req, k, o)}

LEMMA AppliesMoves ==
  ASSUME [Next]_vars
  PROVE  \/ UNCHANGED infra
         \/ \E x \in Runs : /\ run[x].pc = "group" /\ (ApplyGroup(x) \/ RunFails(x))
                            /\ \E o \in Requests \cup {run[x].req} : Applies(x, "rg", o)
         \/ \E x \in Runs, k \in Kinds :
              /\ child[x][k].pc = "apply" /\ (ChildApply(x, k) \/ ChildFails(x, k))
              /\ \E o \in Requests \cup {run[x].req} : Applies(x, k, o)
  <1>0. \A x, k : Rivals(run[x].req, k) \subseteq Requests
    BY DEF Rivals, Beside
  <1>1. ASSUME NEW x \in Runs, ApplyGroup(x) \/ RunFails(x) PROVE
           \/ UNCHANGED infra
           \/ run[x].pc = "group" /\ \E o \in Requests \cup {run[x].req} : Applies(x, "rg", o)
    BY <1>0, <1>1 DEF ApplyGroup, RunFails, Applies
  <1>2. ASSUME NEW x \in Runs, NEW k \in Kinds, ChildApply(x, k) \/ ChildFails(x, k) PROVE
           \/ UNCHANGED infra
           \/ /\ child[x][k].pc = "apply"
              /\ \E o \in Requests \cup {run[x].req} : Applies(x, k, o)
    BY <1>0, <1>2 DEF ChildApply, ChildFails, Applies
  <1> QED
    BY <1>1, <1>2, InfraMoves

\* What an apply makes of infra: it adds k to o, and takes k from those beside.
LEMMA AppliesIs ==
  ASSUME TypeOK, NEW x \in Runs, NEW k \in Kinds \cup {"rg"}, NEW o, run[x].req \in Requests,
         Applies(x, k, o)
  PROVE  /\ infra' \in [Requests -> SUBSET (Kinds \cup {"rg"})]
         /\ o \in Requests /\ \E y \in Runs : run[y].req = o
         /\ infra'[o] \in {infra[o], infra[o] \cup {k}}
         /\ \A q \in Requests \ {o} :
              /\ infra'[q] \in {infra[q], infra[q] \ {k}}
              /\ q \notin Beside(run[x].req, k) \cup {run[x].req} => infra'[q] = infra[q]
  <1>0. infra \in [Requests -> SUBSET (Kinds \cup {"rg"})]
    BY DEF TypeOK
  <1>1. o \in Requests /\ \E y \in Runs : run[y].req = o
    BY DEF Applies, Rivals, Beside
  <1>2. /\ Cleared(run[x].req, k, o) \in [Requests -> SUBSET (Kinds \cup {"rg"})]
        /\ Cleared(run[x].req, k, o)[o] = infra[o]
        /\ \A q \in Requests \ {o} :
             /\ Cleared(run[x].req, k, o)[q] \in {infra[q], infra[q] \ {k}}
             /\ q \notin Beside(run[x].req, k) \cup {run[x].req} =>
                  Cleared(run[x].req, k, o)[q] = infra[q]
    BY <1>0, <1>1 DEF Cleared
  <1>3. /\ Applied(run[x].req, k, o) \in [Requests -> SUBSET (Kinds \cup {"rg"})]
        /\ Applied(run[x].req, k, o)[o] = infra[o] \cup {k}
        /\ \A q \in Requests \ {o} :
             Applied(run[x].req, k, o)[q] = Cleared(run[x].req, k, o)[q]
    BY <1>1, <1>2 DEF Applied
  <1> QED
    BY <1>1, <1>2, <1>3 DEF Applies

\* Only what a run has asked for is built, and what goes makes room for a rival.
LEMMA InfraStep ==
  ASSUME TypeOK, CallsHaveRequests, RunsHaveRequests, ChildrenOfOwnCloud, [Next]_vars
  PROVE  /\ infra' \in [Requests -> SUBSET (Kinds \cup {"rg"})]
         /\ \A r \in Requests :
              infra'[r] # {} => infra[r] # {} \/ \E x \in Runs : run[x].req = r
         /\ \A r \in Requests, k \in Kinds :
              k \in infra[r] => k \in infra'[r] \/ Rivals(r, k) # {}
         /\ \A x \in Runs, k \in Kinds : ChildApply(x, k) /\ child'[x][k].pc = "write" =>
              k \in infra'[run[x].req] \/ Rivals(run[x].req, k) # {}
  <1>1. ASSUME NEW x \in Runs, NEW k \in Kinds \cup {"rg"}, NEW o, run[x].req \in Requests,
               Applies(x, k, o), k \in Kinds => child[x][k].pc = "apply"
        PROVE  /\ infra' \in [Requests -> SUBSET (Kinds \cup {"rg"})]
               /\ \A r \in Requests :
                    infra'[r] # {} => infra[r] # {} \/ \E y \in Runs : run[y].req = r
               /\ \A r \in Requests, j \in Kinds :
                    j \in infra[r] => j \in infra'[r] \/ Rivals(r, j) # {}
    <2>1. /\ infra' \in [Requests -> SUBSET (Kinds \cup {"rg"})]
          /\ \A r \in Requests :
               infra'[r] # {} => infra[r] # {} \/ \E y \in Runs : run[y].req = r
      BY <1>1, AppliesIs
    <2>2. ASSUME NEW r \in Requests, NEW j \in Kinds, j \in infra[r], j \notin infra'[r]
          PROVE  Rivals(r, j) # {}
      <3>1. j = k /\ r # o /\ r \in Beside(run[x].req, k) \cup {run[x].req}
        BY <1>1, <2>2, AppliesIs
      <3>2. CASE r = run[x].req
        BY <1>1, <3>1, <3>2 DEF Applies
      <3>3. CASE r \in Beside(run[x].req, k)
        <4>1. run[x].req \in Beside(r, k)
          BY <1>1, <3>3, BesideIs
        <4>2. Writes(x, k)
          BY <1>1, <2>2, <3>1 DEF Writes, Kinds
        <4> QED
          BY <3>1, <4>1, <4>2 DEF Rivals
      <3> QED
        BY <3>1, <3>2, <3>3
    <2> QED
      BY <2>1, <2>2
  <1>2. \/ UNCHANGED infra
        \/ \E x \in Runs, k \in Kinds \cup {"rg"} :
             /\ run[x].req \in Requests /\ (k \in Kinds => child[x][k].pc = "apply")
             /\ \E o \in Requests : Applies(x, k, o)
    <2>1. ASSUME NEW x \in Runs, run[x].pc = "group" PROVE run[x].req \in Requests
      BY <2>1 DEF RunsHaveRequests
    <2>2. ASSUME NEW x \in Runs, NEW k \in Kinds, child[x][k].pc = "apply"
          PROVE  run[x].req \in Requests
      BY <2>2 DEF RunsHaveRequests, ChildrenOfOwnCloud
    <2>3. "rg" \notin Kinds
      BY DEF Kinds
    <2> QED
      BY <2>1, <2>2, <2>3, AppliesMoves
  <1>3. ASSUME NEW x \in Runs, NEW k \in Kinds, ChildApply(x, k), child'[x][k].pc = "write"
        PROVE  k \in infra'[run[x].req] \/ Rivals(run[x].req, k) # {}
    <2>1. child[x][k].pc = "apply" /\ run[x].req \in Requests
      BY <1>3 DEF ChildApply, ChildrenOfOwnCloud, RunsHaveRequests
    <2>2. ~ChildGoto(x, k, "failed")
      <3>1. child \in [Runs -> [Kinds -> ChildRuns]]
        BY DEF TypeOK, ChildRuns
      <3>2. ChildGoto(x, k, "failed") => child'[x][k].pc = "failed"
        BY <3>1 DEF ChildGoto
      <3> QED
        BY <1>3, <3>2
    <2>3. PICK o \in {run[x].req} \cup Rivals(run[x].req, k) : infra' = Applied(run[x].req, k, o)
      BY <1>3, <2>2 DEF ChildApply
    <2>4. CASE o = run[x].req
      BY <2>1, <2>3, <2>4 DEF Applied, Cleared
    <2> QED
      BY <2>3, <2>4
  <1>4. CASE UNCHANGED infra
    BY <1>3, <1>4 DEF TypeOK
  <1> QED
    BY <1>1, <1>2, <1>3, <1>4

LEMMA RecordedStep ==
  ASSUME TypeOK, RunsHaveRequests, ChildrenOfOwnCloud, [Next]_vars, NEW r \in Requests
  PROVE  /\ recorded' \in [Requests -> SUBSET Kinds]
         /\ \/ recorded'[r] = recorded[r]
            \/ \E x \in Runs, k \in Kinds :
                 /\ child[x][k].pc = "write" /\ run[x].req = r
                 /\ recorded'[r] = recorded[r] \cup {k}
  <1>1. ASSUME NEW x \in Runs, NEW k \in Kinds, ChildWrite(x, k) PROVE
          /\ recorded' \in [Requests -> SUBSET Kinds]
          /\ \/ recorded'[r] = recorded[r]
             \/ /\ child[x][k].pc = "write" /\ run[x].req = r
                /\ recorded'[r] = recorded[r] \cup {k}
    <2>1. /\ recorded' = [recorded EXCEPT ![run[x].req] = @ \cup {k}]
          /\ child[x][k].pc = "write"
      BY <1>1 DEF ChildWrite
    <2>2. run[x].req \in Requests
      BY <2>1 DEF ChildrenOfOwnCloud, RunsHaveRequests
    <2> QED
      BY <2>1, <2>2 DEF TypeOK
  <1> QED
    BY <1>1, RecordedMoves DEF TypeOK

----------------------------------------------------------------------------
(* Types. *)

LEMMA PatchTypes ==
  ASSUME TypeOK, CallsHaveRequests, [Next]_vars
  PROVE  patch' \in [Patches -> PatchCalls]
  <1>0. patch \in [Patches -> PatchCalls] /\ rows \subseteq Requests
    BY DEF TypeOK, PatchCalls
  <1>1. ASSUME NEW p \in Patches PROVE patch'[p] \in PatchCalls
    <2>1. patch[p] \in PatchCalls
      BY <1>0
    <2>2. \A pc \in PatchPcs, sent \in BOOLEAN : Moved(patch[p], pc, sent) \in PatchCalls
      BY <2>1 DEF Moved, PatchCalls
    <2> QED
      BY <2>1, <2>2, CallStep DEF PatchPcs
  <1>2. ASSUME NEW p \in Patches, NEW label, PatchGoto(p, label)
        PROVE  patch' = [q \in Patches |-> patch'[q]]
    BY <1>0, <1>2, PatchGotoIs
  <1>3. ASSUME NEW p \in Patches, PatchStatus(p) PROVE patch' = [q \in Patches |-> patch'[q]]
    BY <1>0, <1>3 DEF PatchStatus
  <1>4. ASSUME NEW p \in Patches, PatchDispatch(p) PROVE patch' = [q \in Patches |-> patch'[q]]
    BY <1>0, <1>4, PatchDispatchIs
  <1>5. ASSUME BackendCrash PROVE patch' = [q \in Patches |-> patch'[q]]
    BY <1>5 DEF BackendCrash
  <1>6. ASSUME NEW p \in Patches, PatchRead(p) \/ PatchProject(p) \/ PatchMark(p) \/ PatchFails(p)
        PROVE  \E label : PatchGoto(p, label)
    BY <1>6 DEF PatchRead, PatchProject, PatchMark, PatchFails
  <1>7. CASE UNCHANGED patch
    BY <1>0, <1>7
  <1>8. patch' = [q \in Patches |-> patch'[q]]
    BY <1>2, <1>3, <1>4, <1>5, <1>6, <1>7, PatchMoves
  <1> QED
    BY <1>1, <1>8

LEMMA RunTypes ==
  ASSUME TypeOK, CallsHaveRequests, [Next]_vars
  PROVE  run' \in [Runs -> MainRuns]
  <1>0. run \in [Runs -> MainRuns]
    BY DEF TypeOK, MainRuns
  <1>1. \A x \in Runs : run'[x] \in MainRuns
    BY RunStepIs
  <1>2. ASSUME NEW x \in Runs, NEW pc, NEW req, NEW tries, RunBecomes(x, pc, req, tries)
        PROVE  run' = [y \in Runs |-> run'[y]]
    BY <1>0, <1>2 DEF RunBecomes
  <1>3. ASSUME NEW x \in Runs, NEW dag, StartRun(x, dag) PROVE run' = [y \in Runs |-> run'[y]]
    BY <1>0, <1>3 DEF StartRun
  <1>4. ASSUME NEW x \in Runs,
               Pop(x) \/ Fetch(x) \/ ApplyGroup(x) \/ Branch(x) \/ RunFails(x)
        PROVE  \E pc, req, tries : RunBecomes(x, pc, req, tries)
    BY <1>4 DEF Pop, Fetch, ApplyGroup, Branch, RunFails, RunGoto
  <1>5. CASE UNCHANGED run
    BY <1>0, <1>5
  <1>6. ASSUME NEW p \in Patches, TriggerArrives(p)
        PROVE  \E x \in Runs, dag \in {CloudOf[patch[p].req]} : StartRun(x, dag)
    BY <1>6 DEF TriggerArrives, Runs
  <1>7. ASSUME NEW x \in HandRuns, TriggerByHand(x)
        PROVE  \E y \in Runs, dag \in Clouds : StartRun(y, dag)
    BY <1>7 DEF TriggerByHand, Runs
  <1>8. run' = [y \in Runs |-> run'[y]]
    BY <1>2, <1>3, <1>4, <1>5, <1>6, <1>7, RunMoves
  <1> QED
    BY <1>1, <1>8

LEMMA ChildTypes ==
  ASSUME TypeOK, RunsHaveRequests, [Next]_vars
  PROVE  child' \in [Runs -> [Kinds -> ChildRuns]]
  <1>0. child \in [Runs -> [Kinds -> ChildRuns]]
    BY DEF TypeOK, ChildRuns
  <1>1. \A x \in Runs, k \in Kinds : child'[x][k] \in ChildRuns
    BY ChildStepIs
  <1>2. ASSUME NEW x \in Runs, NEW k \in Kinds, NEW new, child' = [child EXCEPT ![x][k] = new]
        PROVE  child' = [y \in Runs |-> [j \in Kinds |-> child'[y][j]]]
    <2>1. child' = [child EXCEPT ![x] = [child[x] EXCEPT ![k] = new]]
      BY <1>0, <1>2
    <2> QED
      BY <1>0, <2>1
  <1>3. ASSUME NEW x \in Runs, Branch(x)
        PROVE  child' = [y \in Runs |-> [j \in Kinds |-> child'[y][j]]]
    BY <1>0, <1>3 DEF Branch
  <1>4. ASSUME NEW x \in Runs, NEW k \in Kinds,
               \/ TriggerChild(x, k) \/ ChildFetch(x, k) \/ ChildApply(x, k)
               \/ ChildWrite(x, k) \/ ChildFails(x, k)
        PROVE  \E new : child' = [child EXCEPT ![x][k] = new]
    BY <1>4 DEF TriggerChild, ChildFetch, ChildApply, ChildWrite, ChildFails, ChildGoto
  <1>5. CASE UNCHANGED child
    BY <1>0, <1>5
  <1>6. child' = [y \in Runs |-> [j \in Kinds |-> child'[y][j]]]
    BY <1>2, <1>3, <1>4, <1>5, ChildMoves
  <1> QED
    BY <1>1, <1>6

LEMMA MessageTypes ==
  ASSUME TypeOK, CallsHaveRequests, [Next]_vars
  PROVE  /\ sending' \in Seq(Requests) /\ queue' \in Seq(Requests)
         /\ manual' \in SUBSET ByHand /\ posting' \in SUBSET Patches
  <1>0. sending \in Seq(Requests) /\ queue \in Seq(Requests) /\ <<>> \in Seq(Requests)
    BY EmptySeq DEF TypeOK
  <1>1. ASSUME NEW p \in Patches, PatchDispatch(p) PROVE sending' \in Seq(Requests)
    BY <1>0, <1>1, AppendProperties DEF PatchDispatch, CallsHaveRequests
  <1>2. ASSUME NEW r \in Requests, QueueByHand(r)
        PROVE  sending' \in Seq(Requests) /\ manual' \in SUBSET ByHand
    BY <1>0, <1>2, AppendProperties DEF QueueByHand, TypeOK
  <1>3. ASSUME Publish PROVE sending' \in Seq(Requests) /\ queue' \in Seq(Requests)
    <2>1. Head(sending) \in Requests /\ Tail(sending) \in Seq(Requests)
      BY <1>0, <1>3, HeadTailProperties DEF Publish
    <2> QED
      BY <1>0, <1>3, <2>1, AppendProperties DEF Publish
  <1>4. ASSUME PublishFails PROVE sending' \in Seq(Requests)
    BY <1>0, <1>4, HeadTailProperties DEF PublishFails
  <1>5. ASSUME BackendCrash PROVE sending' \in Seq(Requests) /\ posting' \in SUBSET Patches
    BY <1>0, <1>5 DEF BackendCrash
  <1>6. ASSUME BrokerRestart PROVE queue' \in Seq(Requests)
    BY <1>0, <1>6 DEF BrokerRestart
  <1>7. ASSUME NEW x \in Runs, Pop(x) \/ RunFails(x) PROVE queue' \in Seq(Requests)
    <2>1. queue' = queue \/ (queue # <<>> /\ queue' = Tail(queue))
      BY <1>7 DEF Pop, RunFails
    <2> QED
      BY <1>0, <2>1, HeadTailProperties
  <1>8. posting' \in SUBSET Patches
    <2>1. ASSUME NEW p \in Patches, PatchDispatch(p) \/ TriggerArrives(p) \/ TriggerFails(p)
          PROVE  posting' \in SUBSET Patches
      BY <2>1 DEF PatchDispatch, TriggerArrives, TriggerFails, TypeOK
    <2> QED
      BY <1>5, <2>1, PostingMoves DEF TypeOK
  <1>9. sending' \in Seq(Requests)
    BY <1>0, <1>1, <1>2, <1>3, <1>4, <1>5, SendingMoves
  <1>10. queue' \in Seq(Requests)
    BY <1>0, <1>3, <1>6, <1>7, QueueMoves
  <1>11. manual' \in SUBSET ByHand
    BY <1>2, ManualMoves DEF TypeOK
  <1> QED
    BY <1>8, <1>9, <1>10, <1>11

LEMMA TypesStay ==
  ASSUME TypeOK, CallsHaveRequests, RunsHaveRequests, ChildrenOfOwnCloud, [Next]_vars
  PROVE  TypeOK'
  <1>1. rows' \in SUBSET Requests
    BY RowsMoves DEF RemoveRequest, TypeOK
  <1>2. status' \in [Requests -> Statuses]
    <2>1. ASSUME NEW p \in Patches, PatchStatus(p) PROVE status' \in [Requests -> Statuses]
      <3>1. PICK r \in rows, s \in Statuses : status' = [status EXCEPT ![r] = s]
        BY <2>1 DEF PatchStatus
      <3> QED
        BY <3>1 DEF TypeOK
    <2> QED
      BY <2>1, StatusMoves DEF TypeOK
  <1>3. created' \in SUBSET Requests
    BY CreatedMoves DEF PatchMark, TypeOK, CallsHaveRequests
  <1>4. gitlab' \in SUBSET Requests
    BY GitlabMoves DEF PatchProject, PatchFails, TypeOK, CallsHaveRequests
  <1>5. infra' \in [Requests -> SUBSET (Kinds \cup {"rg"})]
    BY InfraStep
  <1>6. recorded' \in [Requests -> SUBSET Kinds]
    <2>1. CASE \E r : r \in Requests
      BY <2>1, RecordedStep
    <2>2. CASE Requests = {}
      <3>1. ASSUME NEW x \in Runs, NEW k \in Kinds PROVE ~ChildWrite(x, k)
        BY <2>2 DEF ChildWrite, ChildrenOfOwnCloud, RunsHaveRequests
      <3> QED
        BY <3>1, RecordedMoves DEF TypeOK
    <2> QED
      BY <2>1, <2>2
  <1>7. faults' \in 0..MaxFaults
    <2>1. faults' = faults \/ Fault
      BY FaultsMove
    <2> QED
      BY <2>1 DEF Fault, TypeOK
  <1> QED
    BY <1>1, <1>2, <1>3, <1>4, <1>5, <1>6, <1>7, PatchTypes, RunTypes, ChildTypes, MessageTypes
    DEF TypeOK, PatchCalls, MainRuns, ChildRuns

----------------------------------------------------------------------------
(* The calls. *)

LEMMA CallFields ==
  ASSUME TypeOK, CallsHaveRequests, [Next]_vars, NEW p \in Patches
  PROVE  \/ patch'[p] = patch[p]
         \/ /\ patch[p].pc = "idle" /\ patch'[p].pc \in {"read", "answered"}
            /\ patch'[p].req \in rows /\ ~patch'[p].sent
         \/ /\ patch'[p].req = patch[p].req /\ patch'[p].role = patch[p].role
            /\ \/ /\ patch[p].pc \notin {"idle", "answered"} /\ patch'[p].pc = "failed"
                  /\ ~patch'[p].sent
               \/ patch[p].pc = "read" /\ patch'[p].pc = "project" /\ ~patch'[p].sent
               \/ /\ PatchProject(p) /\ patch[p].pc = "project" /\ patch[p].req \notin gitlab
                  /\ patch'[p].pc = "mark" /\ ~patch'[p].sent
                  /\ gitlab' = gitlab \cup {patch[p].req}
               \/ /\ patch[p].pc = "mark" /\ patch'[p].pc = "dispatch" /\ ~patch'[p].sent
                  /\ created' = created \cup {patch[p].req}
               \/ /\ PatchDispatch(p) /\ patch[p].pc = "dispatch"
                  /\ patch'[p].pc = "answered" /\ patch'[p].sent
  <1>1. ASSUME NEW pc, patch'[p] = Moved(patch[p], pc, FALSE) PROVE
          /\ patch'[p].pc = pc /\ ~patch'[p].sent
          /\ patch'[p].req = patch[p].req /\ patch'[p].role = patch[p].role
    BY <1>1 DEF Moved
  <1>2. ASSUME NEW pc, patch'[p] = Moved(patch[p], pc, TRUE) PROVE
          /\ patch'[p].pc = pc /\ patch'[p].sent
          /\ patch'[p].req = patch[p].req /\ patch'[p].role = patch[p].role
    BY <1>2 DEF Moved
  <1> QED
    BY <1>1, <1>2, CallStep

LEMMA CallsStay ==
  ASSUME TypeOK, CallsHaveRequests, [Next]_vars
  PROVE  /\ CallsHaveRequests'
         /\ \A p \in Patches : patch[p].sent =>
              patch'[p].sent /\ patch'[p].req = patch[p].req /\ patch'[p].role = patch[p].role
  <1>0. rows \subseteq Requests
    BY DEF TypeOK
  <1>1. ASSUME NEW p \in Patches PROVE
          /\ patch'[p].pc # "idle" => patch'[p].req \in Requests
          /\ patch'[p].sent => patch'[p].pc = "answered"
    BY <1>0, CallFields DEF CallsHaveRequests
  <1>2. ASSUME NEW p \in Patches, patch[p].sent PROVE patch'[p] = patch[p]
    BY <1>2, CallFields DEF CallsHaveRequests
  <1>3. ASSUME NEW p \in Patches, PatchDispatch(p) PROVE \A q \in posting' : patch'[q].sent
    <2>1. patch'[p].sent
      <3>1. patch \in [Patches -> PatchCalls]
        BY DEF TypeOK, PatchCalls
      <3>2. patch'[p] = Moved(patch[p], "answered", TRUE)
        BY <1>3, <3>1, PatchDispatchIs
      <3> QED
        BY <3>2 DEF Moved
    <2>2. posting' \subseteq posting \cup {p}
      BY <1>3 DEF PatchDispatch
    <2> QED
      BY <1>2, <2>1, <2>2 DEF CallsHaveRequests, TypeOK
  <1>4. ASSUME posting' \subseteq posting PROVE \A q \in posting' : patch'[q].sent
    BY <1>2, <1>4 DEF CallsHaveRequests, TypeOK
  <1>5. \A q \in posting' : patch'[q].sent
    <2>1. ASSUME NEW p \in Patches, TriggerArrives(p) \/ TriggerFails(p)
          PROVE  posting' \subseteq posting
      BY <2>1 DEF TriggerArrives, TriggerFails
    <2>2. ASSUME BackendCrash PROVE posting' \subseteq posting
      BY <2>2 DEF BackendCrash
    <2> QED
      BY <1>3, <1>4, <2>1, <2>2, PostingMoves
  <1> QED
    BY <1>1, <1>2, <1>5 DEF CallsHaveRequests

LEMMA RunsStay ==
  ASSUME TypeOK, CallsHaveRequests, RunsHaveRequests, [Next]_vars
  PROVE  RunsHaveRequests'
  <1>0. rows \subseteq Requests
    BY DEF TypeOK
  <1>1. ASSUME NEW x \in Runs PROVE
          /\ run'[x].pc \in {"unused", "pop"} => run'[x].req = NoRequest
          /\ run'[x].pc \in {"group", "branch", "done"} => run'[x].req \in Requests
    BY <1>0, RunStepIs DEF RunsHaveRequests
  <1> QED
    BY <1>1 DEF RunsHaveRequests

LEMMA ChildrenStay ==
  ASSUME TypeOK, CallsHaveRequests, RunsHaveRequests, ChildrenOfOwnCloud, [Next]_vars
  PROVE  ChildrenOfOwnCloud'
  <1>1. ASSUME NEW x \in Runs, run[x].pc = "done"
        PROVE  run'[x] = run[x]
    BY <1>1, RunStepIs
  <1>2. ASSUME NEW x \in Runs, Branch(x)
        PROVE  /\ run'[x].pc = "done" /\ run'[x].dag = run[x].dag /\ run'[x].req = run[x].req
               /\ run[x].req \in Requests
    <2>1. run[x].pc = "branch" /\ RunBecomes(x, "done", run[x].req, 0)
      BY <1>2 DEF Branch, RunGoto
    <2> QED
      BY <2>1 DEF RunBecomes, TypeOK, RunsHaveRequests
  <1>3. ASSUME NEW x \in Runs, NEW k \in Kinds, child'[x][k].pc # "none" PROVE
          /\ run'[x].pc = "done"
          /\ run'[x].dag = CloudOf[run'[x].req]
          /\ k \in Wanted[run'[x].req]
          /\ run[x].req = run'[x].req
          /\ run[x].req \in Requests
    <2>1. CASE child[x][k].pc # "none"
      BY <1>1, <2>1 DEF ChildrenOfOwnCloud, RunsHaveRequests
    <2>2. CASE child[x][k].pc = "none"
      BY <1>2, <1>3, <2>2, ChildStepIs
    <2> QED
      BY <2>1, <2>2
  <1>4. ASSUME NEW x \in Runs, NEW k \in Kinds, child'[x][k].pc \in {"write", "done"}
        PROVE  (k \in infra[run[x].req] \/ Rivals(run[x].req, k) # {})'
    <2>1. run[x].req = run'[x].req /\ run[x].req \in Requests
      BY <1>3, <1>4
    <2>2. child[x][k].pc \in {"write", "done"} \/ (ChildApply(x, k) /\ child'[x][k].pc = "write")
      BY <1>4, ChildStepIs
    <2>3. k \in infra'[run[x].req] \/ Rivals(run[x].req, k) # {}
      BY <2>1, <2>2, InfraStep DEF ChildrenOfOwnCloud
    <2>4. \A r \in Requests : Rivals(r, k) \subseteq Rivals(r, k)'
      BY RivalsStay
    <2> QED
      BY <2>1, <2>3, <2>4 DEF Rivals, Beside, Writes
  <1>5. ASSUME NEW r \in Requests, NEW k \in recorded'[r]
        PROVE  k \in Wanted[r] /\ (k \in infra'[r] \/ Rivals(r, k)' # {})
    <2>1. k \in Kinds
      BY RecordedStep
    <2>2. k \in Wanted[r] /\ (k \in infra[r] \/ Rivals(r, k) # {})
      BY RecordedStep DEF ChildrenOfOwnCloud
    <2> QED
      BY <2>1, <2>2, InfraStep, RivalsStay
  <1> QED
    BY <1>3, <1>4, <1>5 DEF ChildrenOfOwnCloud

\* A call comes to a claim by making the project.
LEMMA ClaimStep ==
  ASSUME TypeOK, CallsHaveRequests, [Next]_vars, NEW p \in Patches, Claims(p)'
  PROVE  /\ patch'[p].req = patch[p].req
         /\ \/ Claims(p)
            \/ /\ PatchProject(p) /\ patch[p].req \notin gitlab
               /\ gitlab' = gitlab \cup {patch[p].req}
  BY CallFields DEF Claims, CallsHaveRequests

LEMMA ClaimsStay ==
  ASSUME TypeOK, CallsHaveRequests, OneClaim, [Next]_vars
  PROVE  OneClaim'
  <1>1. gitlab \subseteq gitlab' /\ created \subseteq created'
    BY GitlabMoves, CreatedMoves DEF PatchProject, PatchFails, PatchMark
  <1>2. ASSUME NEW p \in Patches, NEW q \in Patches, Claims(p)', Claims(q)',
               patch'[p].req = patch'[q].req, p # q
        PROVE  FALSE
    <2>1. patch[p].req = patch[q].req
      BY <1>2, ClaimStep
    <2>2. ASSUME NEW c \in Patches, NEW d \in Patches, c # d, PatchProject(c)
          PROVE  patch'[d] = patch[d]
      BY <2>2, PatchGotoIs DEF PatchProject, TypeOK
    <2>3. ASSUME NEW c \in Patches, NEW d \in Patches, c # d, patch[c].req = patch[d].req,
                 PatchProject(c), patch[c].req \notin gitlab, Claims(d)'
          PROVE  FALSE
      BY <2>2, <2>3 DEF Claims, OneClaim
    <2> QED
      BY <1>2, <2>1, <2>3, ClaimStep DEF OneClaim
  <1>3. ASSUME NEW p \in Patches, Claims(p)' PROVE patch'[p].req \in gitlab'
    BY <1>1, <1>3, ClaimStep DEF OneClaim
  <1>4. ASSUME NEW p \in Patches, patch'[p].pc = "dispatch" \/ patch'[p].sent
        PROVE  patch'[p].req \in created'
    BY <1>1, <1>4, CallFields DEF OneClaim, CallsHaveRequests
  <1> QED
    BY <1>2, <1>3, <1>4 DEF OneClaim

----------------------------------------------------------------------------
(* The messages. *)

\* What losing messages makes of a queue.
Shrinks(s, t) == t \in {s, <<>>} \/ (s # <<>> /\ t = Tail(s))
Keeps == \A x \in Runs : run'[x].req = run[x].req

LEMMA ShrinksIn ==
  ASSUME NEW s \in Seq(Requests), NEW t, Shrinks(s, t)
  PROVE  /\ t \in Seq(Requests) /\ Len(s) \in Nat /\ Len(t) \in Nat /\ Len(t) <= Len(s)
         /\ \A r \in Requests : (In(t, r) => In(s, r)) /\ (AtMostOnce(s, r) => AtMostOnce(t, r))
  <1>1. CASE t = s
    BY <1>1, LenProperties
  <1>2. CASE t = <<>>
    BY <1>2, LenProperties, EmptyIn, EmptySeq
  <1>3. CASE s # <<>> /\ t = Tail(s)
    <2>1. t \in Seq(Requests) /\ Len(s) \in Nat /\ Len(t) = Len(s) - 1
      BY <1>3, HeadTailProperties, LenProperties
    <2>2. Len(t) \in Nat
      BY <2>1, LenProperties
    <2> QED
      BY <1>3, <2>1, <2>2, TailIn
  <1> QED
    BY <1>1, <1>2, <1>3 DEF Shrinks

\* Messages are sent, published, taken or lost, one action at a time.
Lost == Keeps /\ UNCHANGED manual /\ Shrinks(sending, sending') /\ Shrinks(queue, queue')

SentBy(p) ==
    /\ Keeps /\ UNCHANGED <<manual, queue>>
    /\ PatchDispatch(p) /\ sending' = Append(sending, patch[p].req)

SentByHand(r) ==
    /\ Keeps /\ UNCHANGED queue
    /\ r \notin manual /\ manual' = manual \cup {r}
    /\ sending' = Append(sending, r)

Published ==
    /\ Keeps /\ UNCHANGED manual
    /\ sending # <<>>
    /\ queue' = Append(queue, Head(sending)) /\ sending' = Tail(sending)

TakenBy(x) ==
    /\ UNCHANGED <<manual, sending>>
    /\ queue # <<>> /\ queue' = Tail(queue)
    /\ run[x].pc = "pop" /\ run'[x].req = Head(queue)
    /\ \A y \in Runs : y # x => run'[y].req = run[y].req

LEMMA MessageStep ==
  ASSUME TypeOK, CallsHaveRequests, RunsHaveRequests, [Next]_vars
  PROVE  \/ Lost \/ Published
         \/ \E p \in Patches : SentBy(p)
         \/ \E r \in Requests : SentByHand(r)
         \/ \E x \in Runs : TakenBy(x)
  <1>1. ASSUME NEW x \in Runs, run'[x].req # run[x].req
        PROVE  /\ Pop(x) /\ run[x].pc = "pop"
               /\ queue # <<>> /\ run'[x].req = Head(queue) /\ queue' = Tail(queue)
    BY <1>1, RunStepIs
  <1>2. ASSUME NEW x \in Runs, Pop(x) PROVE Lost \/ TakenBy(x)
    <2>1. /\ UNCHANGED <<manual, sending>>
          /\ queue' = queue \/ (queue # <<>> /\ queue' = Tail(queue))
      BY <1>2 DEF Pop, backend
    <2>2. \A y \in Runs : y # x => run'[y] = run[y]
      BY <1>2 DEF Pop, RunGoto, RunBecomes, TypeOK
    <2>3. CASE run'[x].req = run[x].req
      BY <2>1, <2>2, <2>3 DEF Lost, Keeps, Shrinks
    <2>4. CASE run'[x].req # run[x].req
      BY <1>1, <2>1, <2>2, <2>4 DEF TakenBy
    <2> QED
      BY <2>3, <2>4
  <1>3. ASSUME \A x \in Runs : ~Pop(x) PROVE Keeps
    BY <1>1, <1>3 DEF Keeps
  <1>4. ASSUME NEW p \in Patches, PatchDispatch(p), Keeps PROVE SentBy(p)
    BY <1>4 DEF PatchDispatch, SentBy
  <1>5. ASSUME NEW r \in Requests, QueueByHand(r), Keeps PROVE SentByHand(r)
    BY <1>5 DEF QueueByHand, SentByHand
  <1>6. ASSUME Publish, Keeps PROVE Published
    BY <1>6 DEF Publish, Published
  <1>7. ASSUME BackendCrash \/ PublishFails \/ BrokerRestart, Keeps PROVE Lost
    BY <1>7 DEF BackendCrash, PublishFails, BrokerRestart, Lost, Shrinks, backend
  <1>8. ASSUME NEW x \in Runs, RunFails(x), Keeps PROVE Lost
    BY <1>8 DEF RunFails, Lost, Shrinks, backend
  <1>9. ASSUME UNCHANGED <<sending, queue, manual>>, Keeps PROVE Lost
    BY <1>9 DEF Lost, Shrinks
  <1>10. CASE \A x \in Runs : ~Pop(x)
    <2>1. Keeps
      BY <1>3, <1>10
    <2> QED
      BY <1>4, <1>5, <1>6, <1>7, <1>8, <1>9, <1>10, <2>1, SendingMoves, QueueMoves, ManualMoves
  <1>11. CASE \E x \in Runs : Pop(x)
    BY <1>2, <1>11
  <1> QED
    BY <1>10, <1>11

LEMMA MessagesStay ==
  ASSUME TypeOK, CallsHaveRequests, RunsHaveRequests, ChildrenOfOwnCloud, OneClaim,
         OneMessage, [Next]_vars
  PROVE  OneMessage'
  <1> SUFFICES ASSUME NEW r \in Requests \ manual'
               PROVE  /\ In(sending, r)' \/ In(queue, r)' \/ Held(r)' \/ infra'[r] # {}
                            => Dispatched(r)'
                      /\ AtMostOnce(sending, r)' /\ AtMostOnce(queue, r)'
                      /\ \A x, y \in Runs : run'[x].req = r /\ run'[y].req = r => x = y
                      /\ ~(In(sending, r)' /\ In(queue, r)')
                      /\ ~(In(sending, r)' /\ Held(r)')
                      /\ ~(In(queue, r)' /\ Held(r)')
    BY DEF OneMessage
  <1>0. /\ sending \in Seq(Requests) /\ queue \in Seq(Requests)
        /\ r \in Requests /\ r # NoRequest
    BY DEF TypeOK, ProvisioningAssumption
  <1>1. r \notin manual
    BY ManualMoves DEF QueueByHand
  <1>2. /\ In(sending, r) \/ In(queue, r) \/ Held(r) \/ infra[r] # {} => Dispatched(r)
        /\ AtMostOnce(sending, r) /\ AtMostOnce(queue, r)
        /\ \A x, y \in Runs : run[x].req = r /\ run[y].req = r => x = y
        /\ ~(In(sending, r) /\ In(queue, r))
        /\ ~(In(sending, r) /\ Held(r))
        /\ ~(In(queue, r) /\ Held(r))
    BY <1>1 DEF OneMessage
  <1>3. Dispatched(r) => Dispatched(r)'
    BY CallsStay DEF Dispatched
  <1>4. infra'[r] # {} => infra[r] # {} \/ Held(r)
    BY InfraStep DEF Held
  <1>5. Keeps => (Held(r)' <=> Held(r))
    BY DEF Keeps, Held
  <1>6. CASE Lost
    <2>1. (In(sending, r)' => In(sending, r)) /\ AtMostOnce(sending, r)'
      <3>1. (In(sending', r) => In(sending, r)) /\ AtMostOnce(sending', r)
        BY <1>0, <1>2, <1>6, ShrinksIn DEF Lost
      <3> QED
        BY <3>1 DEF In, AtMostOnce
    <2>2. (In(queue, r)' => In(queue, r)) /\ AtMostOnce(queue, r)'
      BY <1>0, <1>2, <1>6, ShrinksIn DEF Lost, In, AtMostOnce
    <2> QED
      BY <1>2, <1>3, <1>4, <1>5, <1>6, <2>1, <2>2 DEF Lost, Keeps
  <1>7. CASE Published
    <2>1. Head(sending) \in Requests
      BY <1>0, <1>7, TailIn DEF Published
    <2>2. /\ In(sending, r)' => In(sending, r)
          /\ AtMostOnce(sending, r)'
          /\ Head(sending) = r => In(sending, r) /\ ~In(sending, r)'
      BY <1>0, <1>2, <1>7, TailIn DEF Published, In, AtMostOnce
    <2>3. /\ In(queue, r)' => In(queue, r) \/ Head(sending) = r
          /\ (Head(sending) = r => ~In(queue, r)) => AtMostOnce(queue, r)'
      BY <1>0, <1>2, <1>7, <2>1, AppendIn DEF Published, In, AtMostOnce
    <2> QED
      BY <1>2, <1>3, <1>4, <1>5, <1>7, <2>2, <2>3 DEF Published, Keeps
  <1>8. ASSUME NEW p \in Patches, SentBy(p) PROVE
             /\ In(sending, r)' => In(sending, r) \/ patch[p].req = r
             /\ AtMostOnce(sending, r)'
             /\ In(queue, r)' <=> In(queue, r)
             /\ AtMostOnce(queue, r)'
             /\ patch[p].req = r =>
                  ~In(sending, r) /\ ~In(queue, r) /\ ~Held(r) /\ Dispatched(r)'
    <2>1. patch[p].pc = "dispatch" /\ patch[p].req \in Requests
      BY <1>8 DEF SentBy, PatchDispatch, CallsHaveRequests
    <2>2. patch'[p].sent /\ patch'[p].req = patch[p].req
      BY <1>8, <2>1, PatchDispatchIs DEF SentBy, Moved, TypeOK
    <2>3. patch[p].req = r => ~Dispatched(r)
      BY <2>1 DEF Dispatched, Claims, OneClaim, CallsHaveRequests
    <2>4. patch[p].req = r => Dispatched(r)'
      BY <2>2 DEF Dispatched
    <2>5. /\ In(sending, r)' => In(sending, r) \/ patch[p].req = r
          /\ (patch[p].req = r => ~In(sending, r)) => AtMostOnce(sending, r)'
      BY <1>0, <1>2, <1>8, <2>1, AppendIn DEF SentBy, In, AtMostOnce
    <2> QED
      BY <1>2, <1>8, <2>3, <2>4, <2>5 DEF SentBy, In, AtMostOnce
  <1>9. CASE \E p \in Patches : SentBy(p)
    BY <1>2, <1>3, <1>4, <1>5, <1>8, <1>9 DEF SentBy, Keeps
  <1>10. CASE \E m \in Requests : SentByHand(m)
    <2>1. PICK m \in Requests : SentByHand(m)
      BY <1>10
    <2>2. m # r
      BY <2>1 DEF SentByHand
    <2>3. (In(sending, r)' => In(sending, r)) /\ AtMostOnce(sending, r)'
      BY <1>0, <1>2, <2>1, <2>2, AppendIn DEF SentByHand, In, AtMostOnce
    <2>4. (In(queue, r)' <=> In(queue, r)) /\ AtMostOnce(queue, r)'
      BY <1>2, <2>1 DEF SentByHand, In, AtMostOnce
    <2> QED
      BY <1>2, <1>3, <1>4, <1>5, <2>1, <2>3, <2>4 DEF SentByHand, Keeps
  <1>11. CASE \E x \in Runs : TakenBy(x)
    <2>1. PICK x \in Runs : TakenBy(x)
      BY <1>11
    <2>2. run[x].req # r
      BY <1>0, <2>1 DEF TakenBy, RunsHaveRequests
    <2>3. Held(r)' => Held(r) \/ Head(queue) = r
      BY <2>1 DEF TakenBy, Held
    <2>4. /\ In(queue, r)' => In(queue, r)
          /\ AtMostOnce(queue, r)'
          /\ Head(queue) = r => In(queue, r) /\ ~In(queue, r)'
      BY <1>0, <1>2, <2>1, TailIn DEF TakenBy, In, AtMostOnce
    <2>5. (In(sending, r)' <=> In(sending, r)) /\ AtMostOnce(sending, r)'
      BY <1>2, <2>1 DEF TakenBy, In, AtMostOnce
    <2>6. \A y, z \in Runs : run'[y].req = r /\ run'[z].req = r => y = z
      <3>1. CASE Head(queue) = r
        BY <1>2, <2>1, <2>4, <3>1 DEF TakenBy, Held
      <3>2. CASE Head(queue) # r
        BY <1>2, <2>1, <3>2 DEF TakenBy
      <3> QED
        BY <3>1, <3>2
    <2> QED
      BY <1>2, <1>3, <1>4, <2>3, <2>4, <2>5, <2>6
  <1> QED
    BY <1>6, <1>7, <1>9, <1>10, <1>11, MessageStep

LEMMA CallsCounted ==
  ASSUME TypeOK, CallsHaveRequests, [Next]_vars
  PROVE  /\ SentCalls \subseteq SentCalls'
         /\ SentCalls' = SentCalls \/ \E p \in Patches : SentCalls' = SentCalls \cup {p}
         /\ \A p \in Patches : PatchDispatch(p) =>
              p \notin SentCalls /\ SentCalls' = SentCalls \cup {p}
  <1>1. SentCalls \subseteq SentCalls'
    BY CallsStay DEF SentCalls
  <1>2. ASSUME NEW p \in Patches, patch'[p].sent, ~patch[p].sent PROVE PatchDispatch(p)
    BY <1>2, CallFields
  <1>3. ASSUME NEW p \in Patches, PatchDispatch(p)
        PROVE  p \notin SentCalls /\ SentCalls' = SentCalls \cup {p}
    <2>1. patch[p].pc = "dispatch" /\ ~patch[p].sent
      BY <1>3 DEF PatchDispatch, CallsHaveRequests
    <2>2. patch \in [Patches -> PatchCalls]
      BY DEF TypeOK, PatchCalls
    <2>3. /\ patch'[p] = Moved(patch[p], "answered", TRUE)
          /\ \A q \in Patches : q # p => patch'[q] = patch[q]
      BY <1>3, <2>2, PatchDispatchIs
    <2>4. patch'[p].sent
      BY <2>3 DEF Moved
    <2> QED
      BY <2>1, <2>3, <2>4 DEF SentCalls
  <1> QED
    BY <1>1, <1>2, <1>3 DEF SentCalls

LEMMA StartsCounted ==
  ASSUME TypeOK, CallsHaveRequests, [Next]_vars, IsFiniteSet(Started)
  PROVE  IsFiniteSet(Started')
  <1>1. ASSUME NEW x \in Runs, NEW dag, StartRun(x, dag) PROVE Started' \subseteq Started \cup {x}
    BY <1>1 DEF StartRun, TypeOK, Started
  <1>2. ASSUME NEW x \in Runs, NEW pc, NEW req, NEW tries, run[x].pc # "unused",
               RunBecomes(x, pc, req, tries)
        PROVE  Started' \subseteq Started
    BY <1>2 DEF RunBecomes, TypeOK, Started
  <1>3. ASSUME NEW x \in Runs,
               Pop(x) \/ Fetch(x) \/ ApplyGroup(x) \/ Branch(x) \/ RunFails(x)
        PROVE  run[x].pc # "unused" /\ \E pc, req, tries : RunBecomes(x, pc, req, tries)
    BY <1>3 DEF Pop, Fetch, ApplyGroup, Branch, RunFails, RunGoto
  <1>4. ASSUME NEW p \in Patches, TriggerArrives(p)
        PROVE  \E x \in Runs, dag \in {CloudOf[patch[p].req]} : StartRun(x, dag)
    BY <1>4 DEF TriggerArrives, Runs
  <1>5. ASSUME NEW x \in HandRuns, TriggerByHand(x)
        PROVE  \E y \in Runs, dag \in Clouds : StartRun(y, dag)
    BY <1>5 DEF TriggerByHand, Runs
  <1>6. Started' \subseteq Started \/ \E x \in Runs : Started' \subseteq Started \cup {x}
    BY <1>1, <1>2, <1>3, <1>4, <1>5, RunMoves DEF Started
  <1> QED
    BY <1>6, FS_AddElement, FS_Subset

LEMMA AccountsStay ==
  ASSUME TypeOK, CallsHaveRequests, RunsHaveRequests, MessagesAccounted, [Next]_vars
  PROVE  MessagesAccounted'
  <1>1. IsFiniteSet(Started') /\ IsFiniteSet(SentCalls') /\ IsFiniteSet(manual')
    <2>1. IsFiniteSet(Started')
      BY StartsCounted DEF MessagesAccounted
    <2>2. IsFiniteSet(SentCalls')
      BY CallsCounted, FS_AddElement DEF MessagesAccounted
    <2>3. IsFiniteSet(manual')
      BY ManualMoves, FS_AddElement DEF MessagesAccounted, QueueByHand
    <2> QED
      BY <2>1, <2>2, <2>3
  <1>2. /\ sending \in Seq(Requests) /\ queue \in Seq(Requests)
        /\ Len(sending) \in Nat /\ Len(queue) \in Nat
    BY LenProperties DEF TypeOK
  <1>3. /\ IsFiniteSet(Served)
        /\ Cardinality(Served) \in Nat
        /\ Cardinality(SentCalls) \in Nat /\ Cardinality(manual) \in Nat
    <2>1. Served \subseteq Started
      BY DEF Served, Started, RunsHaveRequests
    <2> QED
      BY <2>1, FS_Subset, FS_CardinalityType DEF MessagesAccounted
  <1>4. /\ Cardinality(SentCalls') \in Nat
        /\ Cardinality(SentCalls) <= Cardinality(SentCalls')
    BY <1>1, CallsCounted, FS_Subset, FS_CardinalityType
  <1>5. Keeps => Served' = Served
    BY DEF Keeps, Served
  <1>6. Len(sending) + Len(queue) + Cardinality(Served)
           <= Cardinality(SentCalls) + Cardinality(manual)
    BY DEF MessagesAccounted
  <1>7. Len(sending') + Len(queue') + Cardinality(Served')
           <= Cardinality(SentCalls') + Cardinality(manual')
    <2>1. CASE Lost
      <3>1. /\ Len(sending') \in Nat /\ Len(sending') <= Len(sending)
            /\ Len(queue') \in Nat /\ Len(queue') <= Len(queue)
        BY <1>2, <2>1, ShrinksIn DEF Lost
      <3> QED
        BY <1>2, <1>3, <1>4, <1>5, <1>6, <2>1, <3>1 DEF Lost
    <2>2. CASE Published
      <3>1. Head(sending) \in Requests /\ Len(sending') = Len(sending) - 1
        BY <1>2, <2>2, HeadTailProperties DEF Published
      <3>2. Len(queue') = Len(queue) + 1
        BY <1>2, <2>2, <3>1, AppendProperties DEF Published
      <3> QED
        BY <1>2, <1>3, <1>4, <1>5, <1>6, <2>2, <3>1, <3>2 DEF Published
    <2>3. ASSUME NEW p \in Patches, SentBy(p)
          PROVE  Len(sending') + Len(queue') + Cardinality(Served')
                    <= Cardinality(SentCalls') + Cardinality(manual')
      <3>1. Len(sending') = Len(sending) + 1
        BY <1>2, <2>3, AppendProperties DEF SentBy, PatchDispatch, CallsHaveRequests
      <3>2. Cardinality(SentCalls') = Cardinality(SentCalls) + 1
        BY <2>3, CallsCounted, FS_AddElement DEF SentBy, MessagesAccounted
      <3> QED
        BY <1>2, <1>3, <1>5, <1>6, <2>3, <3>1, <3>2 DEF SentBy
    <2>4. ASSUME NEW r \in Requests, SentByHand(r)
          PROVE  Len(sending') + Len(queue') + Cardinality(Served')
                    <= Cardinality(SentCalls') + Cardinality(manual')
      <3>1. Len(sending') = Len(sending) + 1
        BY <1>2, <2>4, AppendProperties DEF SentByHand
      <3>2. Cardinality(manual') = Cardinality(manual) + 1
        BY <2>4, FS_AddElement DEF SentByHand, MessagesAccounted
      <3> QED
        BY <1>2, <1>3, <1>4, <1>5, <1>6, <2>4, <3>1, <3>2 DEF SentByHand
    <2>5. ASSUME NEW x \in Runs, TakenBy(x)
          PROVE  Len(sending') + Len(queue') + Cardinality(Served')
                    <= Cardinality(SentCalls') + Cardinality(manual')
      <3>1. Head(queue) \in Requests /\ Len(queue') = Len(queue) - 1
        BY <1>2, <2>5, HeadTailProperties DEF TakenBy
      <3>2. x \notin Served /\ Served' = Served \cup {x}
        BY <2>5, <3>1 DEF TakenBy, Served, RunsHaveRequests, ProvisioningAssumption
      <3>3. Cardinality(Served') = Cardinality(Served) + 1
        BY <1>3, <3>2, FS_AddElement
      <3> QED
        BY <1>2, <1>3, <1>4, <1>6, <2>5, <3>1, <3>3 DEF TakenBy
    <2> QED
      BY <2>1, <2>2, <2>3, <2>4, <2>5, MessageStep
  <1>8. ASSUME faults' = 0, NEW p \in Patches, patch'[p].sent, patch'[p].role
        PROVE  p \in posting' \/ run'[p].pc # "unused"
    <2>1. ~Fault /\ faults = 0
      <3>1. faults' = faults \/ Fault
        BY FaultsMove
      <3> QED
        BY <1>8, <3>1 DEF Fault, TypeOK
    <2>2. p \in Runs
      BY DEF Runs
    <2>3. run[p].pc # "unused" => run'[p].pc # "unused"
      BY <2>2, RunStepIs
    <2>4. CASE patch[p].sent
      <3>1. patch[p].role
        BY <1>8, <2>4, CallsStay
      <3>2. ASSUME NEW q \in Patches, TriggerArrives(q), p \in posting, p \notin posting'
            PROVE  run'[p].pc # "unused"
        BY <2>2, <3>2 DEF TriggerArrives, StartRun, TypeOK
      <3>3. ASSUME NEW q \in Patches, PatchDispatch(q) PROVE posting \subseteq posting'
        BY <3>3 DEF PatchDispatch
      <3>4. p \in posting => p \in posting' \/ run'[p].pc # "unused"
        BY <2>1, <3>2, <3>3, PostingMoves DEF TriggerFails, BackendCrash
      <3> QED
        BY <2>1, <2>3, <2>4, <3>1, <3>4 DEF MessagesAccounted
    <2>5. CASE ~patch[p].sent
      <3>1. PatchDispatch(p) /\ patch[p].role
        BY <1>8, <2>5, CallFields
      <3> QED
        BY <3>1 DEF PatchDispatch
    <2> QED
      BY <2>4, <2>5
  <1> QED
    BY <1>1, <1>7, <1>8 DEF MessagesAccounted

----------------------------------------------------------------------------
(* The induction, and what follows from it. *)

LEMMA InitHolds == Init => IInv
  <1> SUFFICES ASSUME Init PROVE IInv
    OBVIOUS
  <1>1. TypeOK
    BY EmptySeq DEF Init, TypeOK, Statuses, PatchPcs, RunPcs, ChildPcs, Clouds,
                    ProvisioningAssumption
  <1>2. CallsHaveRequests /\ RunsHaveRequests /\ ChildrenOfOwnCloud
    BY DEF Init, CallsHaveRequests, RunsHaveRequests, ChildrenOfOwnCloud
  <1>3. OneClaim
    BY DEF Init, OneClaim, Claims
  <1>4. OneMessage
    BY EmptyIn DEF Init, OneMessage, Held, ProvisioningAssumption
  <1>5. MessagesAccounted
    <2>1. Started = {} /\ SentCalls = {} /\ Served = {} /\ manual = {}
      BY DEF Init, Started, SentCalls, Served
    <2>2. Len(sending) = 0 /\ Len(queue) = 0 /\ \A p \in Patches : ~patch[p].sent
      BY EmptySeq DEF Init
    <2> QED
      BY <2>1, <2>2, FS_EmptySet DEF MessagesAccounted
  <1> QED
    BY <1>1, <1>2, <1>3, <1>4, <1>5 DEF IInv

LEMMA Induction == IInv /\ [Next]_vars => IInv'
  BY TypesStay, CallsStay, RunsStay, ChildrenStay, ClaimsStay, MessagesStay, AccountsStay DEF IInv

LEMMA Invariance == Spec => []IInv
  BY InitHolds, Induction, PTL DEF Spec

\* The types hold for any number of requests, calls, runs and faults: a main run
\* applies the group of a request and a provisioning run applies a kind only once
\* the task before has found the request (AWS_Resources.py, AZURE_Resource_Group.py).
THEOREM TypeCorrect == Spec => []TypeOK
  BY Invariance, PTL DEF IInv

\* However many PATCH calls approve a request at once or again, it is dispatched
\* at most once, after its project and its mark (updateRequestInfo).
THEOREM DispatchOnce == Spec => []DispatchedOnce
  <1>1. IInv => DispatchedOnce
    <2> SUFFICES ASSUME IInv, NEW r \in Requests \ manual
                 PROVE  /\ Copies(r) <= 1
                        /\ Copies(r) > 0 \/ infra[r] # {} => r \in created /\ r \in gitlab
      BY DEF DispatchedOnce
    <2>1. /\ In(sending, r) \/ In(queue, r) \/ Held(r) \/ infra[r] # {} => Dispatched(r)
          /\ AtMostOnce(sending, r) /\ AtMostOnce(queue, r)
          /\ \A x, y \in Runs : run[x].req = r /\ run[y].req = r => x = y
          /\ ~(In(sending, r) /\ In(queue, r))
          /\ ~(In(sending, r) /\ Held(r))
          /\ ~(In(queue, r) /\ Held(r))
      BY DEF IInv, OneMessage
    <2>2. Dispatched(r) => r \in created /\ r \in gitlab
      BY DEF Dispatched, IInv, OneClaim, Claims
    <2>3. /\ Occurrences(sending, r) = IF In(sending, r) THEN 1 ELSE 0
          /\ Occurrences(queue, r) = IF In(queue, r) THEN 1 ELSE 0
      BY <2>1, OccurrencesAre DEF IInv, TypeOK
    <2>4. Cardinality({x \in Runs : run[x].req = r}) = IF Held(r) THEN 1 ELSE 0
      <3>1. CASE Held(r)
        <4>1. PICK x \in Runs : run[x].req = r
          BY <3>1 DEF Held
        <4>2. {y \in Runs : run[y].req = r} = {x}
          BY <2>1, <4>1
        <4> QED
          BY <3>1, <4>2, FS_Singleton
      <3>2. CASE ~Held(r)
        <4>1. {y \in Runs : run[y].req = r} = {}
          BY <3>2 DEF Held
        <4> QED
          BY <3>2, <4>1, FS_EmptySet
      <3> QED
        BY <3>1, <3>2
    <2> QED
      BY <2>1, <2>2, <2>3, <2>4 DEF Copies
  <1> QED
    BY <1>1, Invariance, PTL

\* No DAG builds for a request of the other cloud, and no terraformState is
\* written for a kind that was not asked for; what it tells of is there, unless a
\* run for another Azure request of the same Resources.name came to its directory.
THEOREM OwnCloud == Spec => []BuiltByOwnCloud
  <1>1. IInv => BuiltByOwnCloud
    BY DEF IInv, ChildrenOfOwnCloud, BuiltByOwnCloud
  <1> QED
    BY <1>1, Invariance, PTL

\* While nothing fails, each message left over has its cause: a run that came too
\* early, a token without a role, or a hand.
THEOREM StrandedOnlyForCause == Spec => []StrandedHasACause
  <1>1. IInv => StrandedHasACause
    <2> SUFFICES ASSUME IInv, faults = 0, sending = <<>>, posting = {},
                        \A x \in Runs : run[x].pc # "pop"
                 PROVE  Len(queue) <=
           Cardinality({x \in Runs : run[x].pc # "unused" /\ run[x].req = NoRequest})
         + Cardinality({p \in Patches : patch[p].sent /\ ~patch[p].role})
         + Cardinality(manual)
      BY DEF StrandedHasACause
    <2> DEFINE Early == {x \in Runs : run[x].pc # "unused" /\ run[x].req = NoRequest}
               Unroled == {p \in Patches : patch[p].sent /\ ~patch[p].role}
               Roled == {p \in Patches : patch[p].sent /\ patch[p].role}
    <2>1. /\ IsFiniteSet(Started) /\ IsFiniteSet(SentCalls) /\ IsFiniteSet(manual)
          /\ Len(sending) + Len(queue) + Cardinality(Served)
                <= Cardinality(SentCalls) + Cardinality(manual)
      BY DEF IInv, MessagesAccounted
    <2>2. Len(sending) = 0 /\ Len(queue) \in Nat
      BY EmptySeq, LenProperties DEF IInv, TypeOK
    <2>3. /\ Unroled \subseteq SentCalls /\ Roled \subseteq SentCalls
          /\ SentCalls = Unroled \cup Roled
      BY DEF SentCalls
    <2>4. /\ Served \subseteq Started /\ Early \subseteq Started
          /\ Started = Served \cup Early
      BY DEF Served, Started, IInv, RunsHaveRequests
    <2>5. Roled \subseteq Started
      BY DEF IInv, MessagesAccounted, Started, Runs
    <2>6. /\ IsFiniteSet(Unroled) /\ IsFiniteSet(Roled) /\ IsFiniteSet(Served) /\ IsFiniteSet(Early)
          /\ Cardinality(Roled) <= Cardinality(Started)
      BY <2>1, <2>3, <2>4, <2>5, FS_Subset
    <2>7. \A A, B : IsFiniteSet(A) /\ IsFiniteSet(B) =>
             Cardinality(A \cup B) <= Cardinality(A) + Cardinality(B)
      <3> SUFFICES ASSUME NEW A, NEW B, IsFiniteSet(A), IsFiniteSet(B)
                   PROVE  Cardinality(A \cup B) <= Cardinality(A) + Cardinality(B)
        OBVIOUS
      <3>1. Cardinality(A \cup B) = Cardinality(A) + Cardinality(B) - Cardinality(A \cap B)
        BY FS_Union
      <3>2. IsFiniteSet(A \cap B)
        BY FS_Intersection
      <3>3. /\ Cardinality(A) \in Nat /\ Cardinality(B) \in Nat
            /\ Cardinality(A \cap B) \in Nat
        BY <3>2, FS_CardinalityType
      <3> QED
        BY <3>1, <3>3
    <2>8. /\ Cardinality(SentCalls) <= Cardinality(Unroled) + Cardinality(Roled)
          /\ Cardinality(Started) <= Cardinality(Served) + Cardinality(Early)
      BY <2>3, <2>4, <2>6, <2>7
    <2>9. /\ Cardinality(Unroled) \in Nat /\ Cardinality(Roled) \in Nat
          /\ Cardinality(Served) \in Nat /\ Cardinality(Early) \in Nat
          /\ Cardinality(SentCalls) \in Nat /\ Cardinality(Started) \in Nat
          /\ Cardinality(manual) \in Nat
      BY <2>1, <2>6, FS_CardinalityType
    <2>10. Len(queue) <= Cardinality(Early) + Cardinality(Unroled) + Cardinality(manual)
      <3> HIDE DEF Early, Unroled, Roled
      <3> QED
        BY <2>1, <2>2, <2>6, <2>8, <2>9
    <2> QED
      BY <2>10
  <1> QED
    BY <1>1, Invariance, PTL

----------------------------------------------------------------------------
(* The dispatch ledger: what its variables are here. *)

Asked == {r \in Own : Dispatched(r)}
Waiting == {r \in Own : In(sending, r) \/ In(queue, r)}
Holder == [x \in Runs |-> IF run[x].req \in Own THEN run[x].req ELSE NoRequest]
Made == [r \in Placed |-> infra[r]]
Noted == [r \in Placed |-> recorded[r]]

LEMMA OwnIs ==
  ASSUME TypeOK
  PROVE  Own \subseteq Requests \ manual /\ NoRequest \notin Own /\ Placed \subseteq Own
  BY DEF Own, Placed, TypeOK, ProvisioningAssumption

\* Nobody shares a place with a request that has one of its own.
LEMMA PlacedIs ==
  ASSUME NEW r \in Placed, NEW k
  PROVE  /\ r \in Requests /\ Beside(r, k) = {} /\ Rivals(r, k) = {}
         /\ \A q \in Requests : r \notin Beside(q, k)
  BY DEF Placed, Own, Beside, Rivals

\* A message that is counted is in one of the two queues.
LEMMA Counting ==
  ASSUME NEW s \in Seq(Requests), NEW q \in Seq(Requests), NEW r \in Requests,
         AtMostOnce(s, r), AtMostOnce(q, r)
  PROVE  Occurrences(s, r) + Occurrences(q, r) > 0 <=> In(s, r) \/ In(q, r)
  BY OccurrencesAre

\* Only PatchDispatch asks for a request.
LEMMA AskedStep ==
  ASSUME TypeOK, CallsHaveRequests, [Next]_vars, \A p \in Patches : ~PatchDispatch(p)
  PROVE  Asked' = Asked
  <1>1. ASSUME NEW p \in Patches
        PROVE  patch'[p].sent = patch[p].sent /\ (patch[p].sent => patch'[p].req = patch[p].req)
    <2>1. patch[p].sent => patch[p].pc = "answered"
      BY DEF CallsHaveRequests
    <2>2. patch[p] \in PatchCalls
      BY DEF TypeOK, PatchCalls
    <2>3. patch[p].sent \in BOOLEAN
      BY <2>2 DEF PatchCalls
    <2>4. patch'[p] = patch[p] \/ (patch[p].pc # "answered" /\ patch'[p].sent = FALSE)
      <3>1. \A pc, sent : Moved(patch[p], pc, sent).sent = sent
        BY DEF Moved
      <3>2. \A c \in PatchCalls : ~c.sent => c.sent = FALSE
        BY DEF PatchCalls
      <3> QED
        BY <3>1, <3>2, CallStep
    <2> QED
      BY <2>1, <2>3, <2>4
  <1>2. \A r \in Own : Dispatched(r)' <=> Dispatched(r)
    BY <1>1 DEF Dispatched
  <1> QED
    BY <1>2 DEF Asked, Own

\* A dispatch of one of the ledger's requests asks for it; it is the first.
LEMMA DispatchAsks ==
  ASSUME IInv, [Next]_vars, NEW p \in Patches, PatchDispatch(p)
  PROVE  /\ UNCHANGED <<Holder, Made, Noted>>
         /\ \/ UNCHANGED <<Asked, Waiting>>
            \/ \E r \in Own \ Asked : Asked' = Asked \cup {r} /\ Waiting' = Waiting \cup {r}
  <1> DEFINE m == patch[p].req
  <1>0. /\ patch \in [Patches -> PatchCalls] /\ m \in Requests
        /\ sending \in Seq(Requests) /\ queue \in Seq(Requests)
        /\ patch[p].pc = "dispatch" /\ ~patch[p].sent
    BY DEF IInv, TypeOK, PatchCalls, CallsHaveRequests, PatchDispatch
  <1>1. UNCHANGED <<Holder, Made, Noted>>
    BY DEF PatchDispatch, airflow, cloud, Holder, Made, Noted
  <1>2. /\ queue' = queue /\ sending' = Append(sending, m)
        /\ \A q \in Patches : q # p => patch'[q] = patch[q]
        /\ patch'[p].sent /\ patch'[p].req = m
    BY <1>0 DEF PatchDispatch
  <1>3. \A r \in Own : Dispatched(r)' <=> Dispatched(r) \/ r = m
    BY <1>0, <1>2 DEF Dispatched
  <1>4. \A r \in Own : (In(sending, r) \/ In(queue, r))' <=> In(sending, r) \/ In(queue, r) \/ r = m
    <2>1. /\ Len(sending) \in Nat /\ Len(Append(sending, m)) = Len(sending) + 1
          /\ \A i \in 1..Len(sending) : Append(sending, m)[i] = sending[i]
          /\ Append(sending, m)[Len(sending) + 1] = m
      BY <1>0, AppendProperties, LenProperties
    <2>2. \A r : (\E i \in 1..(Len(sending) + 1) : Append(sending, m)[i] = r)
                   <=> (\E i \in 1..Len(sending) : sending[i] = r) \/ r = m
      <3>1. \A i \in 1..(Len(sending) + 1) : i \in 1..Len(sending) \/ i = Len(sending) + 1
        BY <2>1
      <3>2. Len(sending) + 1 \in 1..(Len(sending) + 1)
        BY <2>1
      <3>3. \A i \in 1..Len(sending) : i \in 1..(Len(sending) + 1)
        BY <2>1
      <3> HIDE DEF m
      <3> QED
        BY <2>1, <3>1, <3>2, <3>3
    <2> QED
      BY <1>2, <2>1, <2>2 DEF In
  <1>5. ~Dispatched(m)
    BY <1>0 DEF IInv, OneClaim, Claims, Dispatched
  <1>6. CASE m \in Own
    BY <1>1, <1>3, <1>4, <1>5, <1>6 DEF Asked, Waiting, Own
  <1>7. CASE m \notin Own
    BY <1>1, <1>3, <1>4, <1>7 DEF Asked, Waiting, Own
  <1> QED
    BY <1>6, <1>7

\* What a step that leaves cloud, calls and requests held alone makes of messages.
LEMMA WaitingStep ==
  ASSUME IInv, [Next]_vars, \A p \in Patches : ~PatchDispatch(p)
  PROVE  \/ UNCHANGED Holder /\ Waiting' \in SUBSET Waiting
         \/ \E x \in Runs, r \in Waiting :
              /\ Holder[x] = NoRequest /\ Holder' = [Holder EXCEPT ![x] = r]
              /\ Waiting' = Waiting \ {r}
  <1>0. /\ sending \in Seq(Requests) /\ queue \in Seq(Requests)
        /\ \A r \in Own : r \in Requests /\ r \notin manual /\ r # NoRequest
    BY OwnIs DEF IInv, TypeOK
  <1>1. \A r \in Own : AtMostOnce(queue, r)
    BY <1>0 DEF IInv, OneMessage
  <1>2. ASSUME Keeps PROVE UNCHANGED Holder
    BY <1>2 DEF Keeps, Holder, Own
  <1>3. CASE Lost
    <2>1. \A r \in Requests : (In(sending', r) => In(sending, r)) /\ (In(queue', r) => In(queue, r))
      BY <1>0, <1>3, ShrinksIn DEF Lost
    <2>2. Waiting' \in SUBSET Waiting
      BY <1>0, <2>1 DEF Waiting, Own, In
    <2> QED
      BY <1>2, <1>3, <2>2 DEF Lost
  <1>4. CASE Published
    <2>1. \A r \in Requests : In(sending', r) => In(sending, r)
      BY <1>0, <1>4, TailIn DEF Published
    <2>2. Head(sending) \in Requests /\ In(sending, Head(sending))
      BY <1>0, <1>4, TailIn DEF Published
    <2>3. \A r \in Requests : In(queue', r) => In(queue, r) \/ In(sending, r)
      BY <1>0, <1>4, <2>2, AppendIn DEF Published
    <2>4. Waiting' \in SUBSET Waiting
      BY <1>0, <2>1, <2>3 DEF Waiting, Own, In
    <2> QED
      BY <1>2, <1>4, <2>4 DEF Published
  <1>5. CASE \E m \in Requests : SentByHand(m)
    <2>1. PICK m \in Requests : SentByHand(m)
      BY <1>5
    <2>2. m \in manual'
      BY <2>1 DEF SentByHand
    <2>3. m \notin Own
      <3>1. manual' \subseteq ByHand
        BY TypesStay DEF IInv, TypeOK
      <3> QED
        BY <2>2, <3>1 DEF Own
    <2>4. \A r \in Own : In(sending', r) => In(sending, r)
      BY <1>0, <2>1, <2>3, AppendIn DEF SentByHand
    <2>5. Waiting' \in SUBSET Waiting
      BY <2>1, <2>4 DEF Waiting, Own, In, SentByHand
    <2> QED
      BY <1>2, <2>1, <2>5 DEF SentByHand
  <1>6. CASE \E x \in Runs : TakenBy(x)
    <2>1. PICK x \in Runs : TakenBy(x)
      BY <1>6
    <2> DEFINE m == Head(queue)
    <2>2. /\ m \in Requests /\ In(queue, m)
          /\ \A r \in Requests : In(queue', r) => In(queue, r)
          /\ \A r \in Own : m = r => ~In(queue', r)
      BY <1>0, <1>1, <2>1, TailIn DEF TakenBy
    <2>3. run[x].req = NoRequest
      BY <2>1 DEF TakenBy, IInv, RunsHaveRequests
    <2>4. sending' = sending /\ run'[x].req = m /\ \A y \in Runs : y # x => run'[y].req = run[y].req
      BY <2>1 DEF TakenBy
    <2>5. CASE m \in Own
      <3>1. m \in Waiting /\ ~In(sending, m)
        BY <1>0, <2>2, <2>5 DEF Waiting, IInv, OneMessage
      <3>2. \A r \in Own : r # m => (In(queue', r) <=> In(queue, r))
        <4>1. /\ Len(queue) \in Nat \ {0} /\ queue' = Tail(queue)
              /\ Len(Tail(queue)) = Len(queue) - 1
              /\ \A i \in 1..Len(Tail(queue)) : Tail(queue)[i] = queue[i + 1]
              /\ m = queue[1]
          BY <1>0, <2>1, HeadTailProperties, EmptySeq, LenProperties DEF TakenBy
        <4>2. ASSUME NEW i \in 1..Len(queue), i # 1
              PROVE  i - 1 \in 1..Len(Tail(queue)) /\ Tail(queue)[i - 1] = queue[i]
          <5>1. i - 1 \in 1..Len(Tail(queue)) /\ (i - 1) + 1 = i
            BY <4>1, <4>2
          <5> QED
            BY <4>1, <5>1
        <4>3. ASSUME NEW r \in Own, r # m, In(queue, r) PROVE In(queue', r)
          <5>1. PICK i \in 1..Len(queue) : queue[i] = r
            BY <4>3 DEF In
          <5>2. i # 1
            BY <4>1, <4>3, <5>1
          <5> QED
            BY <4>1, <4>2, <5>1, <5>2 DEF In
        <4> QED
          BY <1>0, <2>2, <4>3
      <3>3. Waiting' = Waiting \ {m}
        BY <2>2, <2>4, <2>5, <3>1, <3>2 DEF Waiting, Own, In
      <3>4. Holder[x] = NoRequest /\ Holder' = [Holder EXCEPT ![x] = m]
        BY <1>0, <2>3, <2>4, <2>5 DEF Holder, Own
      <3> QED
        BY <3>1, <3>3, <3>4
    <2>6. CASE m \notin Own
      <3>1. UNCHANGED Holder
        BY <1>0, <2>3, <2>4, <2>6 DEF Holder, Own
      <3>2. Waiting' \in SUBSET Waiting
        BY <1>0, <2>2, <2>4 DEF Waiting, Own, In
      <3> QED
        BY <3>1, <3>2
    <2> QED
      BY <2>5, <2>6
  <1> QED
    BY <1>3, <1>4, <1>5, <1>6, MessageStep DEF IInv, SentBy

\* A step that builds does nothing else, and does it for the request that its
\* main run holds, or for none with a place of its own.
LEMMA BuildStep ==
  ASSUME IInv, [Next]_vars, infra' # infra
  PROVE  /\ UNCHANGED <<Asked, Waiting, Holder, Noted>>
         /\ \/ UNCHANGED Made
            \/ \E x \in Runs, k \in Kinds \cup {"rg"} :
                 /\ run[x].req \in Placed
                 /\ k \in Wanted[run[x].req] \cup {"rg"}
                 /\ Made' = [Made EXCEPT ![run[x].req] = @ \cup {k}]
  <1>1. ASSUME NEW x \in Runs, ApplyGroup(x) \/ RunFails(x), run[x].pc = "group"
        PROVE  /\ UNCHANGED <<patch, sending, queue, recorded>>
               /\ run[x].req \in Requests
               /\ \A y \in Runs : run'[y].req = run[y].req
    <2>1. UNCHANGED <<patch, sending, recorded>>
      BY <1>1 DEF ApplyGroup, RunFails, backend
    <2>2. UNCHANGED queue
      <3>1. ApplyGroup(x) => UNCHANGED queue
        BY DEF ApplyGroup
      <3>2. RunFails(x) /\ run[x].pc # "pop" => UNCHANGED queue
        BY DEF RunFails
      <3> QED
        BY <1>1, <3>1, <3>2
    <2>3. \A y \in Runs : run'[y].req = run[y].req
      <3>1. PICK pc, tries : RunBecomes(x, pc, run[x].req, tries)
        BY <1>1 DEF ApplyGroup, RunFails, RunGoto
      <3>2. run \in [Runs -> MainRuns]
        BY DEF IInv, TypeOK, MainRuns
      <3> QED
        BY <3>1, <3>2 DEF RunBecomes
    <2> QED
      BY <1>1, <2>1, <2>2, <2>3 DEF IInv, RunsHaveRequests
  <1>2. ASSUME NEW x \in Runs, NEW k \in Kinds, ChildApply(x, k) \/ ChildFails(x, k),
               child[x][k].pc = "apply"
        PROVE  /\ UNCHANGED <<patch, sending, queue, recorded>>
               /\ run[x].req \in Requests /\ k \in Wanted[run[x].req]
               /\ \A y \in Runs : run'[y].req = run[y].req
    <2>1. UNCHANGED <<patch, sending, queue, recorded, run>>
      BY <1>2 DEF ChildApply, ChildFails, backend
    <2> QED
      BY <1>2, <2>1 DEF IInv, ChildrenOfOwnCloud, RunsHaveRequests
  <1>3. ASSUME UNCHANGED <<patch, sending, queue, recorded>>,
               \A y \in Runs : run'[y].req = run[y].req
        PROVE  UNCHANGED <<Asked, Waiting, Holder, Noted>>
    BY <1>3 DEF Asked, Dispatched, Waiting, In, Holder, Noted, Own, Placed, Beside
  <1>4. ASSUME NEW x \in Runs, NEW k \in Kinds \cup {"rg"}, NEW o, run[x].req \in Requests,
               Applies(x, k, o)
        PROVE  \/ UNCHANGED Made
               \/ /\ run[x].req \in Placed
                  /\ Made' = [Made EXCEPT ![run[x].req] = @ \cup {k}]
    <2>0. TypeOK
      BY DEF IInv
    <2>1. /\ infra' \in [Requests -> SUBSET (Kinds \cup {"rg"})]
          /\ o \in Requests /\ \E y \in Runs : run[y].req = o
          /\ infra'[o] \in {infra[o], infra[o] \cup {k}}
          /\ \A q \in Requests \ {o} :
               /\ infra'[q] \in {infra[q], infra[q] \ {k}}
               /\ q \notin Beside(run[x].req, k) \cup {run[x].req} => infra'[q] = infra[q]
      BY <1>4, <2>0, AppliesIs
    <2>2. o = run[x].req \/ o \in Beside(run[x].req, k)
      BY <1>4 DEF Applies, Rivals
    <2>3. o = run[x].req \/ o \notin Placed
      BY <1>4, <2>2, PlacedIs
    <2>4. \A q \in Placed \ {o} : infra'[q] = infra[q]
      BY <1>4, <2>1, <2>2, PlacedIs
    <2>5. Made' = [r \in Placed |-> infra'[r]]
      BY DEF Made, Placed, Own, Beside
    <2>6. CASE o \notin Placed \/ infra'[o] = infra[o]
      <3>1. \A q \in Placed : infra'[q] = infra[q]
        BY <2>4, <2>6
      <3> QED
        BY <2>5, <3>1 DEF Made
    <2>7. CASE o \in Placed /\ infra'[o] = infra[o] \cup {k}
      BY <2>3, <2>4, <2>5, <2>7 DEF Made
    <2> QED
      BY <2>1, <2>6, <2>7
  <1>5. CASE \E x \in Runs : /\ run[x].pc = "group" /\ (ApplyGroup(x) \/ RunFails(x))
                             /\ \E o \in Requests \cup {run[x].req} : Applies(x, "rg", o)
    BY <1>1, <1>3, <1>4, <1>5
  <1>6. CASE \E x \in Runs, k \in Kinds :
               /\ child[x][k].pc = "apply" /\ (ChildApply(x, k) \/ ChildFails(x, k))
               /\ \E o \in Requests \cup {run[x].req} : Applies(x, k, o)
    BY <1>2, <1>3, <1>4, <1>6
  <1> QED
    BY <1>5, <1>6, AppliesMoves

\* So does one that records, and what it records of such a request has been built.
LEMMA RecordStep ==
  ASSUME IInv, [Next]_vars, recorded' # recorded
  PROVE  /\ UNCHANGED <<Asked, Waiting, Holder, Made>>
         /\ \E x \in Runs, k \in Kinds :
              /\ run[x].req \in Requests
              /\ run[x].req \in Placed => k \in infra[run[x].req] \cap Wanted[run[x].req]
              /\ recorded' = [recorded EXCEPT ![run[x].req] = @ \cup {k}]
  <1>1. PICK x \in Runs, k \in Kinds : ChildWrite(x, k)
    BY RecordedMoves
  <1>2. /\ UNCHANGED <<patch, sending, queue, infra, run>> /\ child[x][k].pc = "write"
        /\ recorded' = [recorded EXCEPT ![run[x].req] = @ \cup {k}]
    BY <1>1 DEF ChildWrite, backend
  <1>3. UNCHANGED <<Asked, Waiting, Holder, Made>>
    BY <1>2 DEF Asked, Dispatched, Waiting, In, Holder, Made, Own, Placed, Beside
  <1>4. run[x].req \in Placed => k \in infra[run[x].req]
    BY <1>2, PlacedIs DEF IInv, ChildrenOfOwnCloud
  <1> QED
    BY <1>2, <1>3, <1>4 DEF IInv, ChildrenOfOwnCloud, RunsHaveRequests

\* A step of Provisioning is a step of the ledger, or none.
LEMMA LedgerStep ==
  ASSUME IInv, [Next]_vars
  PROVE  \/ UNCHANGED <<Asked, Waiting, Holder, Made, Noted>>
         \/ \E r \in Own :
              /\ r \notin Asked /\ Asked' = Asked \cup {r} /\ Waiting' = Waiting \cup {r}
              /\ UNCHANGED <<Holder, Made, Noted>>
         \/ \E x \in Runs, r \in Own :
              /\ Holder[x] = NoRequest /\ r \in Waiting
              /\ Waiting' = Waiting \ {r} /\ Holder' = [Holder EXCEPT ![x] = r]
              /\ UNCHANGED <<Asked, Made, Noted>>
         \/ \E lost \in SUBSET Waiting :
              /\ Waiting' = Waiting \ lost
              /\ UNCHANGED <<Asked, Holder, Made, Noted>>
         \/ \E x \in Runs, k \in Kinds \cup {"rg"} :
              /\ Holder[x] \in Placed
              /\ k \in Wanted[Holder[x]] \cup {"rg"}
              /\ Made' = [Made EXCEPT ![Holder[x]] = @ \cup {k}]
              /\ UNCHANGED <<Asked, Waiting, Holder, Noted>>
         \/ \E x \in Runs, k \in Kinds :
              /\ Holder[x] \in Placed
              /\ k \in Made[Holder[x]] \cap Wanted[Holder[x]]
              /\ Noted' = [Noted EXCEPT ![Holder[x]] = @ \cup {k}]
              /\ UNCHANGED <<Asked, Waiting, Holder, Made>>
  <1>0. /\ infra \in [Requests -> SUBSET (Kinds \cup {"rg"})]
        /\ recorded \in [Requests -> SUBSET Kinds]
        /\ Placed \subseteq Own /\ Own \subseteq Requests
    BY DEF IInv, TypeOK, Own, Placed
  <1>1. CASE infra' # infra
    <2>1. UNCHANGED <<Asked, Waiting, Holder, Noted>>
      BY <1>1, BuildStep
    <2>2. \A x \in Runs : run[x].req \in Placed => Holder[x] = run[x].req
      BY <1>0 DEF Holder
    <2> QED
      BY <1>1, <2>1, <2>2, BuildStep
  <1>2. CASE recorded' # recorded
    <2>1. PICK x \in Runs, k \in Kinds :
            /\ run[x].req \in Requests
            /\ run[x].req \in Placed => k \in infra[run[x].req] \cap Wanted[run[x].req]
            /\ recorded' = [recorded EXCEPT ![run[x].req] = @ \cup {k}]
      BY <1>2, RecordStep
    <2>2. UNCHANGED <<Asked, Waiting, Holder, Made>>
      BY <1>2, RecordStep
    <2>3. CASE run[x].req \in Placed
      <3>1. Holder[x] = run[x].req /\ Made[run[x].req] = infra[run[x].req]
        BY <1>0, <2>3 DEF Holder, Made
      <3>2. Noted' = [Noted EXCEPT ![run[x].req] = @ \cup {k}]
        BY <1>0, <2>1, <2>3 DEF Noted, Own, Placed, Beside
      <3> QED
        BY <2>1, <2>2, <2>3, <3>1, <3>2
    <2>4. CASE run[x].req \notin Placed
      <3>1. Noted' = Noted
        BY <1>0, <2>1, <2>4 DEF Noted, Own, Placed, Beside
      <3> QED
        BY <2>2, <3>1
    <2> QED
      BY <2>3, <2>4
  <1>3. CASE \E p \in Patches : PatchDispatch(p)
    <2>1. Asked \subseteq Own
      BY DEF Asked
    <2> QED
      BY <1>3, <2>1, DispatchAsks
  <1>4. CASE UNCHANGED <<infra, recorded>> /\ \A p \in Patches : ~PatchDispatch(p)
    <2>1. UNCHANGED <<Asked, Made, Noted>>
      BY <1>4, AskedStep DEF IInv, Made, Noted, Own, Placed, Beside
    <2>2. CASE UNCHANGED Holder /\ Waiting' \in SUBSET Waiting
      <3>1. Waiting' = Waiting \ (Waiting \ Waiting')
        BY <2>2
      <3> QED
        BY <2>1, <2>2, <3>1
    <2>3. Waiting \subseteq Own
      BY DEF Waiting
    <2> QED
      BY <1>4, <2>1, <2>2, <2>3, WaitingStep
  <1> QED
    BY <1>1, <1>2, <1>3, <1>4

\* The ledger's `waiting`, which counts.
Messages == {r \in Own : Occurrences(sending, r) + Occurrences(queue, r) > 0}

LEMMA LedgerIs ==
  ASSUME IInv
  PROVE  Messages = Waiting
  BY OwnIs, Counting DEF IInv, TypeOK, OneMessage, Messages, Waiting

\* Provisioning implements the dispatch ledger for every request that no operator
\* queues by hand: a request is asked for once, its message is in one place or
\* lost, and one run takes it.  Where no other request has the Resources.name, only
\* that run builds, and only what is built is recorded.
THEOREM ImplementsLedger == Spec => RefinesDispatch
  <1>1. Init => Dispatch!LedgerInit
    <2> SUFFICES ASSUME Init PROVE Dispatch!LedgerInit
      OBVIOUS
    <2>1. IInv
      BY InitHolds
    <2>2. Waiting = {} /\ Asked = {}
      BY EmptyIn, OwnIs, <2>1 DEF Init, Waiting, Asked, Dispatched, In
    <2>3. Holder = [x \in Runs |-> NoRequest]
      BY OwnIs, <2>1 DEF Init, Holder
    <2>4. Made = [r \in Placed |-> {}] /\ Noted = [r \in Placed |-> {}]
      BY DEF Init, Made, Noted, Own, Placed
    <2> QED
      BY <2>1, <2>2, <2>3, <2>4, LedgerIs
         DEF Dispatch!LedgerInit, Asked, Dispatched, Messages, Holder, Made, Noted
  <1>2. IInv /\ IInv' /\ [Next]_vars => [Dispatch!LedgerNext]_(Dispatch!ledgerVars)
    <2> SUFFICES ASSUME IInv, IInv', [Next]_vars
                 PROVE  \/ Dispatch!LedgerNext
                        \/ UNCHANGED <<Asked, Messages, Holder, Made, Noted>>
      BY DEF Dispatch!ledgerVars, Asked, Dispatched, Messages, Holder, Made, Noted
    <2>1. Messages = Waiting
      BY LedgerIs
    <2>2. Messages' = Waiting'
      <3>1. /\ sending' \in Seq(Requests) /\ queue' \in Seq(Requests)
            /\ \A r \in Own : r \in Requests /\ r \notin manual'
        BY DEF IInv, TypeOK, Own, ProvisioningAssumption
      <3>2. \A r \in Own : AtMostOnce(sending', r) /\ AtMostOnce(queue', r)
        BY <3>1 DEF IInv, OneMessage, AtMostOnce
      <3>3. \A r \in Own :
              Occurrences(sending', r) + Occurrences(queue', r) > 0
                <=> In(sending', r) \/ In(queue', r)
        BY <3>1, <3>2, Counting
      <3> QED
        BY <3>3 DEF Messages, Waiting, Own, In, Occurrences
    <2>3. CASE UNCHANGED <<Asked, Waiting, Holder, Made, Noted>>
      BY <2>1, <2>2, <2>3
    <2>4. ASSUME NEW r \in Own, r \notin Asked, Asked' = Asked \cup {r},
                 Waiting' = Waiting \cup {r}, UNCHANGED <<Holder, Made, Noted>>
          PROVE  Dispatch!LedgerNext
      <3>1. Dispatch!Ask(r)
        BY <2>1, <2>2, <2>4
           DEF Dispatch!Ask, Asked, Dispatched, Messages, Holder, Made, Noted
      <3> QED
        BY <3>1 DEF Dispatch!LedgerNext
    <2>5. ASSUME NEW x \in Runs, NEW r \in Own, Holder[x] = NoRequest, r \in Waiting,
                 Waiting' = Waiting \ {r}, Holder' = [Holder EXCEPT ![x] = r],
                 UNCHANGED <<Asked, Made, Noted>>
          PROVE  Dispatch!LedgerNext
      <3>1. Dispatch!Take(x, r)
        BY <2>1, <2>2, <2>5
           DEF Dispatch!Take, Asked, Dispatched, Messages, Holder, Made, Noted
      <3> QED
        BY <3>1 DEF Dispatch!LedgerNext
    <2>6. ASSUME NEW lost \in SUBSET Waiting, Waiting' = Waiting \ lost,
                 UNCHANGED <<Asked, Holder, Made, Noted>>
          PROVE  Dispatch!LedgerNext
      <3>1. lost \in SUBSET Messages /\ Dispatch!Lose(lost)
        BY <2>1, <2>2, <2>6
           DEF Dispatch!Lose, Asked, Dispatched, Messages, Holder, Made, Noted
      <3> QED
        BY <3>1 DEF Dispatch!LedgerNext, Messages
    <2>7. ASSUME NEW x \in Runs, NEW k \in Kinds \cup {"rg"}, Holder[x] \in Placed,
                 k \in Wanted[Holder[x]] \cup {"rg"},
                 Made' = [Made EXCEPT ![Holder[x]] = @ \cup {k}],
                 UNCHANGED <<Asked, Waiting, Holder, Noted>>
          PROVE  Dispatch!LedgerNext
      <3>1. Dispatch!Build(x, k)
        BY <2>1, <2>2, <2>7
           DEF Dispatch!Build, Asked, Dispatched, Messages, Holder, Made, Noted
      <3> QED
        BY <3>1 DEF Dispatch!LedgerNext
    <2>8. ASSUME NEW x \in Runs, NEW k \in Kinds, Holder[x] \in Placed,
                 k \in Made[Holder[x]] \cap Wanted[Holder[x]],
                 Noted' = [Noted EXCEPT ![Holder[x]] = @ \cup {k}],
                 UNCHANGED <<Asked, Waiting, Holder, Made>>
          PROVE  Dispatch!LedgerNext
      <3>1. Dispatch!Record(x, k)
        BY <2>1, <2>2, <2>8
           DEF Dispatch!Record, Asked, Dispatched, Messages, Holder, Made, Noted
      <3> QED
        BY <3>1 DEF Dispatch!LedgerNext
    <2> QED
      BY <2>3, <2>4, <2>5, <2>6, <2>7, <2>8, LedgerStep
  <1> QED
    BY <1>1, <1>2, Invariance, PTL DEF Spec, RefinesDispatch, Dispatch!LedgerSpec

\* Whatever approvals, retries and faults do: a request whose message was lost is
\* never sent or taken again.
THEOREM LossesAreFinal == Spec => Dispatch!LossIsFinal
  <1>1. [Dispatch!LedgerNext]_(Dispatch!ledgerVars) =>
          [Dispatch!LostStayLost]_(Dispatch!ledgerVars)
    BY DEF Dispatch!LostStayLost, Dispatch!LedgerNext, Dispatch!ledgerVars, Dispatch!Ask,
           Dispatch!Take, Dispatch!Lose, Dispatch!Build, Dispatch!Record, Dispatch!Nowhere
  <1> QED
    BY <1>1, ImplementsLedger, PTL DEF RefinesDispatch, Dispatch!LedgerSpec, Dispatch!LossIsFinal
=============================================================================

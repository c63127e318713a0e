--------------------------- MODULE DestroyDagProofs ---------------------------
(***************************************************************************)
(* What the trigger rules of the destroy DAGs guarantee.  A task that ran  *)
(* still meets its rule, because an end state never changes while its run  *)
(* goes on; so from a task that is running one can read off what the tasks *)
(* before it have done, on to which resources are gone.                    *)
(***************************************************************************)
EXTENDS DestroyDag, SequenceTheorems, TLAPS

USE DestroyAssumption

Ran == {"running", "retry", "success", "failed"}

----------------------------------------------------------------------------
(* The inductive invariant. *)

\* Every state that a task is in has the reason its rule gives.
RanByRule == \A t \in Tasks : state[t] \in Ran => A!RuleMet(t)

BrokenByRule == \A t \in Tasks : state[t] = "upstream_failed" => A!Some(t, A!Broken)

SkippedByRule ==
    \A t \in Tasks : state[t] = "skipped" =>
        \/ Rule[t] = "all_success" /\ A!Some(t, {"skipped"})
        \/ /\ Rule[t] = "none_failed_min_one_success"
           /\ Upstream[t] # {} /\ A!Every(t, {"skipped"})
        \/ t \in Kinds \ Chosen /\ state["branch"] = "success"

\* A run that has found its request has something to destroy, of its own cloud.
GotIsOwn ==
    /\ state["get_repository_name"] = "success" => got \in Requests
    /\ state["branch"] = "success" => CloudOf[got] = Dag /\ Wanted[got] # {}

\* A successful destroy has left nothing of its kind, and nothing is ever built.
DestroyedIsGone ==
    /\ \A r \in Requests : infra[r] \subseteq Built(r)
    /\ \A k \in Destroys : state[k] = "success" => got \in Requests /\ k \notin infra[got]

\* The statements of the purge go one by one, in attempts of its own.
Purging ==
    /\ purge # "request" => state["delete"] = "running" /\ got \in Requests
    /\ purge # "request" => got \notin request
    /\ purge \in {"resources", "instances", "config"} => got \notin repository
    /\ purge \in {"instances", "config"} => got \notin resources
    /\ state["delete"] = "success" =>
         got \in Requests /\ got \notin config \cup vms \cup resources \cup repository \cup request

\* An attempt is only made while there is one left.
TriesLeft ==
    \A t \in Tasks : state[t] \in {"none", "running", "retry"} => tries[t] <= Retries[t]

\* Every run has its call.
TriggersSent == triggers <= sends

IInv ==
    /\ TypeOK /\ TriesLeft /\ TriggersSent
    /\ RanByRule /\ BrokenByRule /\ SkippedByRule
    /\ GotIsOwn /\ DestroyedIsGone /\ Purging

----------------------------------------------------------------------------
(* The two DAGs. *)

LEMMA Wiring ==
  /\ {"get_request_id", "get_repository_name", "branch", "cleanup", "delete"} \subseteq Tasks
  /\ Kinds \subseteq Destroys /\ Destroys \subseteq Tasks
  /\ "rg" \in Tasks <=> Dag = "AZURE"
  /\ Tasks = {"get_request_id", "get_repository_name", "branch", "cleanup", "delete"} \cup Destroys
  /\ Upstream["get_request_id"] = {}
  /\ Upstream["get_repository_name"] = {"get_request_id"}
  /\ Upstream["branch"] = {"get_repository_name"}
  /\ \A k \in Kinds : Upstream[k] = {"branch"} /\ Rule[k] = "all_success"
  /\ Dag = "AZURE" => Upstream["rg"] = Kinds /\ Rule["rg"] = "none_failed_min_one_success"
  /\ Dag = "AZURE" => Upstream["cleanup"] = {"rg"} /\ Rule["cleanup"] = "all_done"
  /\ Dag = "AWS" =>
       Upstream["cleanup"] = Kinds /\ Rule["cleanup"] = "none_failed_min_one_success"
  /\ Upstream["delete"] = {"cleanup"} /\ Rule["delete"] = "all_done"
  /\ \A t \in {"get_request_id", "get_repository_name", "branch"} : Rule[t] = "all_success"
  BY DEF Tasks, Destroys, Kinds, Upstream, Rule, Clouds

LEMMA WiringTypes ==
  /\ Upstream \in [Tasks -> SUBSET Tasks]
  /\ Rule \in [Tasks -> {"all_success", "none_failed_min_one_success", "all_done"}]
  /\ Retries \in [Tasks -> {1, 3}]
  <1>1. \A t \in Tasks : Upstream[t] \in SUBSET Tasks
    <2> SUFFICES ASSUME NEW t \in Tasks PROVE Upstream[t] \in SUBSET Tasks
      OBVIOUS
    <2>1. t \in Destroys => t \in Kinds \/ (t = "rg" /\ Dag = "AZURE")
      BY DEF Destroys
    <2>2. /\ Kinds \in SUBSET Tasks /\ {"get_request_id"} \in SUBSET Tasks
          /\ {"get_repository_name"} \in SUBSET Tasks /\ {"branch"} \in SUBSET Tasks
          /\ {"cleanup"} \in SUBSET Tasks /\ {} \in SUBSET Tasks
          /\ (Dag = "AZURE" => {"rg"} \in SUBSET Tasks)
      BY Wiring
    <2>3. CASE t \in Kinds
      BY <2>2, <2>3, Wiring
    <2>4. CASE t \in {"get_request_id", "get_repository_name", "branch", "delete"}
      BY <2>2, <2>4, Wiring
    <2>5. CASE t \in {"rg", "cleanup"}
      BY <2>1, <2>2, <2>5, Wiring DEF Clouds
    <2> QED
      BY <2>1, <2>3, <2>4, <2>5, Wiring
  <1> QED
    BY <1>1 DEF Upstream, Rule, Retries

----------------------------------------------------------------------------
(* What a step makes of the tasks. *)

Turn(t, label) == state' = [state EXCEPT ![t] = label]

\* The attempt that a task succeeds by.
SucceedsBy(t) ==
    \/ t = "get_request_id" /\ GetRequestId
    \/ t = "get_repository_name" /\ got \in request
    \/ t \in Destroys /\ t \in Directory /\ infra' = [infra EXCEPT ![got] = @ \ {t}]
    \/ t = "cleanup"
    \/ t = "delete" /\ DeleteConfig /\ got \notin vms

Scheduled(t) ==
    \/ state[t] = "none" /\ A!RuleMet(t) /\ Turn(t, "running")
    \/ state[t] = "none" /\ A!RuleBroken(t) /\ Turn(t, "upstream_failed")
    \/ state[t] = "none" /\ A!RuleSkipped(t) /\ Turn(t, "skipped")
    \/ state[t] = "retry" /\ Turn(t, "running")

Tried(t) ==
    /\ state[t] = "running"
    /\ \/ Turn(t, "success") /\ SucceedsBy(t)
       \/ Turn(t, "retry") \/ Turn(t, "failed")

Branched ==
    /\ state["branch"] = "running"
    /\ got \in request /\ Chosen # {}
    /\ state' = [u \in Tasks |-> IF u = "branch" THEN "success"
                                 ELSE IF u \in Kinds \ Chosen THEN "skipped" ELSE state[u]]

LEMMA StateStep ==
  [Next]_vars =>
    \/ UNCHANGED state
    \/ StartRun
    \/ \E t \in Tasks : Scheduled(t) /\ UNCHANGED <<got, infra, tfdir, purge, tables>>
    \/ \E t \in Tasks : Tried(t)
    \/ Branched /\ UNCHANGED <<got, infra, tfdir, purge, tables>>
  <1>1. ASSUME NEW t, state[t] = "running", A!AttemptFails(t)
        PROVE  Turn(t, "retry") \/ Turn(t, "failed")
    BY <1>1 DEF A!AttemptFails, Turn
  <1>2. ASSUME NEW t, A!Succeed(t) PROVE state[t] = "running" /\ Turn(t, "success")
    BY <1>2 DEF A!Succeed, A!Enter, Turn
  <1>3. ASSUME Schedule
        PROVE  \E t \in Tasks : Scheduled(t) /\ UNCHANGED <<got, infra, tfdir, purge, tables>>
    BY <1>3 DEF Schedule, A!Scheduler, A!Schedule, A!BreakDown, A!SkipDown, A!Retry, A!Enter,
               Scheduled, Turn
  <1>4. ASSUME GetRequestId PROVE Tried("get_request_id")
    BY <1>2, <1>4 DEF GetRequestId, Tried, SucceedsBy
  <1>5. ASSUME GetRepositoryName PROVE Tried("get_repository_name")
    BY <1>1, <1>2, <1>5 DEF GetRepositoryName, Running, Tried, SucceedsBy
  <1>6. ASSUME BranchResources
        PROVE  Tried("branch") \/ (Branched /\ UNCHANGED <<got, infra, tfdir, purge, tables>>)
    BY <1>1, <1>6 DEF BranchResources, Running, Tried, Branched, A!SucceedSkipping, elsewhere
  <1>7. ASSUME NEW k \in Destroys, TerraformDestroy(k) PROVE Tried(k)
    BY <1>1, <1>2, <1>7 DEF TerraformDestroy, Running, Tried, SucceedsBy
  <1>8. ASSUME CleanupDirectory PROVE Tried("cleanup")
    BY <1>2, <1>8 DEF CleanupDirectory, Tried, SucceedsBy
  <1>9. ASSUME DeleteRequest \/ DeleteRepository \/ DeleteResources \/ DeleteInstances
        PROVE  UNCHANGED state \/ Tried("delete")
    BY <1>1, <1>9 DEF DeleteRequest, DeleteRepository, DeleteResources, DeleteInstances,
                     Deleting, Running, Then, GiveUp, dagVars, Tried
  <1>10. ASSUME DeleteConfig PROVE Tried("delete")
    BY <1>1, <1>2, <1>10 DEF DeleteConfig, Deleting, Running, GiveUp, Tried, SucceedsBy
  <1>11. ASSUME NEW t \in Tasks, AttemptDies(t) PROVE Tried(t)
    BY <1>1, <1>11 DEF AttemptDies, Running, Tried
  <1>12. ASSUME NEW r \in Requests, SendDestroy(r) \/ RemoveRequest(r) PROVE UNCHANGED state
    BY <1>12 DEF SendDestroy, RemoveRequest, dagVars
  <1>13. ASSUME OtherDagPops \/ EndRun \/ UNCHANGED vars PROVE UNCHANGED state
    BY <1>13 DEF OtherDagPops, EndRun, vars, dagVars
  <1> QED
    BY <1>3, <1>4, <1>5, <1>6, <1>7, <1>8, <1>9, <1>10, <1>11, <1>12, <1>13, Wiring
    DEF Next, Attempt

----------------------------------------------------------------------------
(* What the rules say of one task. *)

\* A task with one task before it and rule all_success.
LEMMA AfterOne ==
  ASSUME RanByRule, BrokenByRule, SkippedByRule, NEW t \in Tasks, NEW u \in Tasks,
         Upstream[t] = {u}, Rule[t] = "all_success"
  PROVE  /\ state[t] \in Ran => state[u] = "success"
         /\ state[t] = "upstream_failed" => state[u] \in A!Broken
         /\ state[t] = "skipped" =>
              state[u] = "skipped" \/ (t \in Kinds \ Chosen /\ state["branch"] = "success")
  BY DEF RanByRule, BrokenByRule, SkippedByRule, A!RuleMet, A!Every, A!Some

\* Before the branch nothing is skipped.
LEMMA NotSkipped ==
  ASSUME RanByRule, BrokenByRule, SkippedByRule
  PROVE  \A t \in {"get_request_id", "get_repository_name", "branch"} : state[t] # "skipped"
  <1>1. state["get_request_id"] # "skipped"
    BY Wiring DEF SkippedByRule, A!Some, Kinds
  <1>2. state["get_repository_name"] # "skipped"
    BY <1>1, Wiring, AfterOne DEF Kinds
  <1>3. state["branch"] # "skipped"
    BY <1>2, Wiring, AfterOne DEF Kinds
  <1> QED
    BY <1>1, <1>2, <1>3

\* Nothing happens to a kind before the branch has ended, ...
LEMMA KindsWait ==
  ASSUME TypeOK, RanByRule, BrokenByRule, SkippedByRule, NEW k \in Kinds
  PROVE  /\ state["branch"] \in {"none", "running", "retry"} => state[k] = "none"
         /\ state[k] \in Ran => state["branch"] = "success"
         /\ state[k] = "skipped" => state["branch"] = "success" /\ k \notin Chosen
  <1>1. state[k] \in Ran \cup {"none", "upstream_failed", "skipped"}
    BY Wiring DEF TypeOK, A!DagTypeOK, A!States, A!Done, Ran
  <1>2. /\ state[k] \in Ran => state["branch"] = "success"
        /\ state[k] = "upstream_failed" => state["branch"] \in A!Broken
        /\ state[k] = "skipped" =>
             state["branch"] = "skipped" \/ (k \in Kinds \ Chosen /\ state["branch"] = "success")
    BY Wiring, AfterOne
  <1> QED
    BY <1>1, <1>2, NotSkipped DEF A!Broken

\* ... and nothing at all before there is a request.
LEMMA AllWait ==
  ASSUME TypeOK, RanByRule, BrokenByRule, SkippedByRule, state["get_request_id"] \notin A!Done
  PROVE  \A t \in Tasks : t # "get_request_id" => state[t] = "none"
  <1>0. \A t \in Tasks : state[t] \in Ran \cup {"none", "upstream_failed", "skipped"}
    BY DEF TypeOK, A!DagTypeOK, A!States, A!Done, Ran
  <1>1. state["get_repository_name"] = "none"
    BY <1>0, Wiring, AfterOne, NotSkipped DEF A!Done, A!Broken
  <1>2. state["branch"] = "none"
    BY <1>0, <1>1, Wiring, AfterOne, NotSkipped DEF A!Broken
  <1>3. \A k \in Kinds : state[k] = "none"
    BY <1>2, KindsWait
  <1>4. ASSUME NEW t \in Tasks, Upstream[t] # {},
               \A u \in Upstream[t] : state[u] = "none", t \notin Kinds
        PROVE  state[t] = "none"
    <2>1. ~A!RuleMet(t)
      BY <1>4, WiringTypes DEF A!RuleMet, A!Every, A!Some, A!Done
    <2>2. state[t] # "upstream_failed"
      BY <1>4 DEF BrokenByRule, A!Some, A!Broken
    <2>3. state[t] # "skipped"
      BY <1>4 DEF SkippedByRule, A!Some, A!Every
    <2> QED
      BY <1>0, <2>1, <2>2, <2>3 DEF RanByRule
  <1>5. Dag = "AZURE" => state["rg"] = "none"
    BY <1>3, <1>4, Wiring DEF Kinds
  <1>6. state["cleanup"] = "none"
    BY <1>3, <1>4, <1>5, Wiring DEF Kinds, Clouds
  <1>7. state["delete"] = "none"
    BY <1>4, <1>6, Wiring DEF Kinds
  <1> QED
    BY <1>1, <1>2, <1>3, <1>5, <1>6, <1>7, Wiring DEF Destroys

----------------------------------------------------------------------------
(* The rules hold. *)

LEMMA StateTypes ==
  ASSUME TypeOK, [Next]_vars
  PROVE  state' \in [Tasks -> A!States]
  <1>0. /\ state \in [Tasks -> A!States]
        /\ {"none", "running", "retry", "success", "failed", "skipped", "upstream_failed"}
              \subseteq A!States
    BY DEF TypeOK, A!DagTypeOK, A!States, A!Done
  <1>1. ASSUME StartRun PROVE state' \in [Tasks -> A!States]
    BY <1>0, <1>1 DEF StartRun, A!Renew
  <1>2. ASSUME NEW t \in Tasks, Scheduled(t) \/ Tried(t) PROVE state' \in [Tasks -> A!States]
    BY <1>0, <1>2 DEF Scheduled, Tried, Turn
  <1>3. ASSUME Branched PROVE state' \in [Tasks -> A!States]
    BY <1>0, <1>3 DEF Branched
  <1> QED
    BY <1>0, <1>1, <1>2, <1>3, StateStep

\* Within a run an end state is the end.
LEMMA EndsStay ==
  ASSUME TypeOK, RanByRule, BrokenByRule, SkippedByRule, [Next]_vars, ~StartRun,
         NEW u \in Tasks, state[u] \in A!Done
  PROVE  state'[u] = state[u]
  <1>0. state \in [Tasks -> A!States]
    BY DEF TypeOK, A!DagTypeOK
  <1>1. ASSUME NEW t \in Tasks, Scheduled(t) \/ Tried(t) PROVE state'[u] = state[u]
    BY <1>0, <1>1 DEF Scheduled, Tried, Turn, A!Done
  <1>2. ASSUME Branched PROVE state'[u] = state[u]
    <2>1. u # "branch" /\ u \notin Kinds
      BY <1>2, KindsWait DEF Branched, A!Done
    <2> QED
      BY <1>0, <1>2, <2>1 DEF Branched
  <1> QED
    BY <1>1, <1>2, StateStep

LEMMA GotStep ==
  ASSUME TypeOK, RanByRule, BrokenByRule, SkippedByRule, [Next]_vars, ~StartRun
  PROVE  \/ got' = got
         \/ /\ GetRequestId /\ got' \in Requests \cup {NoRequest}
            /\ \A t \in Tasks : t # "get_request_id" => state[t] = "none" /\ state'[t] = "none"
  <1>1. ASSUME GetRequestId
        PROVE  /\ got' \in Requests \cup {NoRequest}
               /\ \A t \in Tasks :
                    t # "get_request_id" => state[t] = "none" /\ state'[t] = "none"
    <2>1. state["get_request_id"] = "running"
      BY <1>1 DEF GetRequestId, Running
    <2>2. \A t \in Tasks : t # "get_request_id" => state[t] = "none"
      BY <2>1, AllWait DEF A!Done
    <2>3. \A t \in Tasks : t # "get_request_id" => state'[t] = state[t]
      BY <1>1 DEF GetRequestId, A!Succeed, A!Enter, TypeOK, A!DagTypeOK
    <2>4. got' \in Requests \cup {NoRequest}
      BY <1>1, HeadTailProperties DEF GetRequestId, TypeOK
    <2> QED
      BY <2>2, <2>3, <2>4
  <1>2. got' = got \/ GetRequestId
    BY DEF Next, Attempt, vars, SendDestroy, RemoveRequest, OtherDagPops, StartRun, EndRun,
           Schedule, GetRepositoryName, BranchResources, TerraformDestroy, CleanupDirectory,
           DeleteRequest, DeleteRepository, DeleteResources, DeleteInstances, DeleteConfig,
           AttemptDies, beside
  <1> QED
    BY <1>1, <1>2

LEMMA RulesStay ==
  ASSUME TypeOK, RanByRule, BrokenByRule, SkippedByRule, [Next]_vars
  PROVE  RanByRule' /\ BrokenByRule' /\ SkippedByRule'
  <1>0. state \in [Tasks -> A!States]
    BY DEF TypeOK, A!DagTypeOK
  <1>1. CASE StartRun
    <2>1. \A t \in Tasks : state'[t] = "none"
      BY <1>1 DEF StartRun, A!Renew
    <2> QED
      BY <2>1 DEF RanByRule, BrokenByRule, SkippedByRule, Ran
  <1>2. CASE ~StartRun
    <2> SUFFICES ASSUME NEW t \in Tasks
                 PROVE  /\ state'[t] \in Ran => A!RuleMet(t)'
                        /\ state'[t] = "upstream_failed" => A!Some(t, A!Broken)'
                        /\ state'[t] = "skipped" =>
                             \/ Rule[t] = "all_success" /\ A!Some(t, {"skipped"})'
                             \/ /\ Rule[t] = "none_failed_min_one_success"
                                /\ Upstream[t] # {} /\ A!Every(t, {"skipped"})'
                             \/ t \in Kinds \ Chosen' /\ state'["branch"] = "success"
      BY DEF RanByRule, BrokenByRule, SkippedByRule
    <2>0. Upstream[t] \subseteq Tasks
      BY WiringTypes
    <2>1. \A u \in Upstream[t] : state[u] \in A!Done => state'[u] = state[u]
      BY <1>2, <2>0, EndsStay
    <2>2. A!RuleMet(t) => A!RuleMet(t)'
      BY <2>1, WiringTypes DEF A!RuleMet, A!Every, A!Some, A!Done
    <2>3. A!Some(t, A!Broken) => A!Some(t, A!Broken)'
      BY <2>1 DEF A!Some, A!Broken, A!Done
    <2>4. /\ A!Some(t, {"skipped"}) => A!Some(t, {"skipped"})'
          /\ A!Every(t, {"skipped"}) => A!Every(t, {"skipped"})'
      BY <2>1 DEF A!Some, A!Every, A!Done
    <2>5. state["branch"] = "success" => state'["branch"] = "success" /\ Chosen' = Chosen
      <3>1. state["branch"] = "success" => state'["branch"] = "success"
        BY <1>2, EndsStay, Wiring DEF A!Done
      <3>2. state["branch"] = "success" => got' = got
        BY <1>2, GotStep, Wiring
      <3> QED
        BY <3>1, <3>2 DEF Chosen
    <2>6. CASE state'[t] = state[t]
      BY <2>2, <2>3, <2>4, <2>5, <2>6 DEF RanByRule, BrokenByRule, SkippedByRule
    <2>7. ASSUME NEW s \in Tasks, Scheduled(s), state'[t] # state[t]
          PROVE  \/ state'[t] = "running" /\ A!RuleMet(t)
                 \/ state'[t] = "upstream_failed" /\ A!Some(t, A!Broken)
                 \/ /\ state'[t] = "skipped"
                    /\ \/ Rule[t] = "all_success" /\ A!Some(t, {"skipped"})
                       \/ /\ Rule[t] = "none_failed_min_one_success"
                          /\ Upstream[t] # {} /\ A!Every(t, {"skipped"})
      <3>1. s = t
        BY <1>0, <2>7 DEF Scheduled, Turn
      <3>2. \/ state[t] = "none" /\ A!RuleMet(t) /\ state'[t] = "running"
            \/ state[t] = "none" /\ A!RuleBroken(t) /\ state'[t] = "upstream_failed"
            \/ state[t] = "none" /\ A!RuleSkipped(t) /\ state'[t] = "skipped"
            \/ state[t] = "retry" /\ state'[t] = "running"
        BY <1>0, <2>7, <3>1 DEF Scheduled, Turn
      <3> QED
        BY <3>2 DEF A!RuleBroken, A!RuleSkipped, RanByRule, Ran
    <2>8. ASSUME NEW s \in Tasks, Tried(s), state'[t] # state[t]
          PROVE  state'[t] \in Ran /\ state[t] = "running"
      BY <1>0, <2>8 DEF Tried, Turn, Ran
    <2>9. CASE Branched /\ state'[t] # state[t] /\ UNCHANGED <<got, infra, tfdir, purge, tables>>
      <3>1. \/ t = "branch" /\ state'[t] = "success" /\ state[t] = "running"
            \/ /\ t \in Kinds \ Chosen /\ state'[t] = "skipped"
               /\ state'["branch"] = "success" /\ Chosen' = Chosen
        BY <1>0, <2>9, Wiring DEF Branched, Chosen
      <3> QED
        BY <2>2, <3>1 DEF RanByRule, Ran
    <2> QED
      BY <1>2, <2>2, <2>3, <2>4, <2>6, <2>7, <2>8, <2>9, StateStep DEF RanByRule, Ran
  <1> QED
    BY <1>1, <1>2

----------------------------------------------------------------------------
(* The request, what is destroyed of it, and the purge of its rows. *)

LEMMA OwnStays ==
  ASSUME TypeOK, RanByRule, BrokenByRule, SkippedByRule, GotIsOwn, [Next]_vars
  PROVE  GotIsOwn'
  <1>0. state \in [Tasks -> A!States] /\ request \subseteq Requests
    BY DEF TypeOK, A!DagTypeOK, S!SchemaTypeOK
  <1>1. CASE StartRun
    BY <1>1, Wiring DEF StartRun, A!Renew, GotIsOwn
  <1>2. CASE ~StartRun
    <2>1. ASSUME state'["get_repository_name"] = "success" PROVE got' \in Requests
      <3>1. CASE state["get_repository_name"] = "success"
        BY <1>2, <2>1, <3>1, GotStep, Wiring DEF GotIsOwn
      <3>2. CASE state["get_repository_name"] # "success"
        <4>1. ASSUME NEW t \in Tasks, Scheduled(t) PROVE FALSE
          BY <1>0, <2>1, <3>2, <4>1, Wiring DEF Scheduled, Turn
        <4>2. ASSUME NEW t \in Tasks, Tried(t) PROVE got \in request
          BY <1>0, <2>1, <3>2, <4>2, Wiring DEF Tried, Turn, SucceedsBy, Kinds, Destroys
        <4>3. ASSUME Branched PROVE got \in request
          BY <4>3 DEF Branched
        <4>4. got \in request
          BY <1>2, <2>1, <3>2, <4>1, <4>2, <4>3, StateStep
        <4>5. got' = got
          BY <1>2, <2>1, GotStep, Wiring
        <4> QED
          BY <1>0, <4>4, <4>5
      <3> QED
        BY <3>1, <3>2
    <2>2. ASSUME state'["branch"] = "success" PROVE CloudOf[got'] = Dag /\ Wanted[got'] # {}
      <3>1. got' = got
        BY <1>2, <2>2, GotStep, Wiring
      <3>2. CASE state["branch"] = "success"
        BY <3>1, <3>2 DEF GotIsOwn
      <3>3. CASE state["branch"] # "success"
        <4>1. ASSUME NEW t \in Tasks, Scheduled(t) \/ Tried(t) PROVE FALSE
          BY <1>0, <2>2, <3>3, <4>1, Wiring DEF Scheduled, Tried, Turn, SucceedsBy, Kinds, Destroys
        <4>2. Chosen # {}
          BY <1>2, <2>2, <3>3, <4>1, StateStep DEF Branched
        <4> QED
          BY <3>1, <4>2 DEF Chosen
      <3> QED
        BY <3>2, <3>3
    <2> QED
      BY <2>1, <2>2 DEF GotIsOwn
  <1> QED
    BY <1>1, <1>2

LEMMA DirectoryIsOwn ==
  ASSUME GotIsOwn, Directory # {}
  PROVE  got \in Requests /\ CloudOf[got] = Dag /\ Directory = tfdir[got]
  BY DEF Directory, GotIsOwn

LEMMA InfraStep ==
  ASSUME TypeOK, GotIsOwn, [Next]_vars
  PROVE  \/ infra' = infra
         \/ \E k \in Destroys :
              /\ got \in Requests /\ state[k] = "running"
              /\ infra' = [infra EXCEPT ![got] = @ \ {k}]
  <1>1. ASSUME NEW k \in Destroys, TerraformDestroy(k) PROVE
          \/ infra' = infra
          \/ got \in Requests /\ state[k] = "running" /\ infra' = [infra EXCEPT ![got] = @ \ {k}]
    BY <1>1, DirectoryIsOwn DEF TerraformDestroy, Running
  <1>2. ASSUME NEW t \in Tasks, AttemptDies(t) PROVE
          \/ infra' = infra
          \/ /\ t \in Destroys /\ got \in Requests /\ state[t] = "running"
             /\ infra' = [infra EXCEPT ![got] = @ \ {t}]
    BY <1>2, DirectoryIsOwn DEF AttemptDies, Running
  <1>3. \/ infra' = infra \/ \E k \in Destroys : TerraformDestroy(k)
        \/ \E t \in Tasks : AttemptDies(t)
    BY DEF Next, Attempt, vars, SendDestroy, RemoveRequest, OtherDagPops, StartRun, EndRun,
           Schedule, GetRequestId, GetRepositoryName, BranchResources, CleanupDirectory,
           DeleteRequest, DeleteRepository, DeleteResources, DeleteInstances, DeleteConfig,
           beside
  <1> QED
    BY <1>1, <1>2, <1>3

LEMMA TfdirStep ==
  ASSUME GotIsOwn, [Next]_vars
  PROVE  \/ tfdir' = tfdir
         \/ /\ state["cleanup"] = "running" /\ got \in Requests /\ CloudOf[got] = Dag
            /\ infra' = infra
            /\ tfdir' = [tfdir EXCEPT ![got] = {}]
  <1>1. ASSUME CleanupDirectory PROVE
          \/ tfdir' = tfdir
          \/ /\ state["cleanup"] = "running" /\ got \in Requests /\ CloudOf[got] = Dag
             /\ infra' = infra
             /\ tfdir' = [tfdir EXCEPT ![got] = {}]
    BY <1>1, DirectoryIsOwn DEF CleanupDirectory, Running
  <1>2. ASSUME NEW t \in Tasks, AttemptDies(t) PROVE
          \/ tfdir' = tfdir
          \/ /\ state["cleanup"] = "running" /\ got \in Requests /\ CloudOf[got] = Dag
             /\ infra' = infra
             /\ tfdir' = [tfdir EXCEPT ![got] = {}]
    BY <1>2, DirectoryIsOwn DEF AttemptDies, Running
  <1> QED
    BY <1>1, <1>2
    DEF Next, Attempt, vars, SendDestroy, RemoveRequest, OtherDagPops, StartRun, EndRun,
        Schedule, GetRequestId, GetRepositoryName, BranchResources, TerraformDestroy,
        DeleteRequest, DeleteRepository, DeleteResources, DeleteInstances, DeleteConfig,
        beside

LEMMA GoneStays ==
  ASSUME TypeOK, RanByRule, BrokenByRule, SkippedByRule, GotIsOwn, DestroyedIsGone, [Next]_vars
  PROVE  /\ DestroyedIsGone'
         /\ infra' \in [Requests -> SUBSET (Kinds \cup {"rg"})]
         /\ \A r \in Requests : infra'[r] \subseteq infra[r]
  <1>0. /\ infra \in [Requests -> SUBSET (Kinds \cup {"rg"})]
        /\ state \in [Tasks -> A!States]
    BY DEF TypeOK, A!DagTypeOK
  <1>1. /\ infra' \in [Requests -> SUBSET (Kinds \cup {"rg"})]
        /\ \A r \in Requests : infra'[r] \subseteq infra[r]
    BY <1>0, InfraStep
  <1>2. \A r \in Requests : infra'[r] \subseteq Built(r)
    BY <1>1 DEF DestroyedIsGone
  <1>3. ASSUME NEW k \in Destroys, state'[k] = "success"
        PROVE  got' \in Requests /\ k \notin infra'[got']
    <2>0. /\ k \in Tasks
          /\ k \notin {"get_request_id", "get_repository_name", "cleanup", "delete", "branch"}
      BY Wiring DEF Destroys, Kinds
    <2>1. ~StartRun
      BY <1>3, <2>0 DEF StartRun, A!Renew
    <2>2. got' = got
      BY <1>3, <2>0, <2>1, GotStep
    <2>3. CASE state[k] = "success"
      BY <1>1, <2>2, <2>3 DEF DestroyedIsGone
    <2>4. CASE state[k] # "success"
      <3>1. ASSUME NEW t \in Tasks, Scheduled(t) PROVE FALSE
        BY <1>0, <1>3, <2>0, <2>4, <3>1 DEF Scheduled, Turn
      <3>2. ASSUME Branched PROVE FALSE
        BY <1>0, <1>3, <2>0, <2>4, <3>2 DEF Branched
      <3>3. ASSUME NEW t \in Tasks, Tried(t)
            PROVE  k \in Directory /\ infra' = [infra EXCEPT ![got] = @ \ {k}]
        BY <1>0, <1>3, <2>0, <2>4, <3>3 DEF Tried, Turn, SucceedsBy
      <3>4. k \in Directory /\ infra' = [infra EXCEPT ![got] = @ \ {k}]
        BY <1>3, <2>1, <2>4, <3>1, <3>2, <3>3, StateStep
      <3> QED
        BY <1>0, <2>2, <3>4, DirectoryIsOwn
    <2> QED
      BY <2>3, <2>4
  <1> QED
    BY <1>1, <1>2, <1>3 DEF DestroyedIsGone

Shrink ==
    /\ config' \subseteq config /\ vms' \subseteq vms /\ resources' \subseteq resources
    /\ repository' \subseteq repository /\ request' \subseteq request

LEMMA TablesShrink ==
  [Next]_vars => Shrink
  <1>1. ASSUME NEW r, \/ S!DropRequest(r) \/ S!DropRepository(r) \/ S!DropResources(r)
                      \/ S!DropVms(r) \/ S!DropConfig(r) \/ UNCHANGED tables
        PROVE  Shrink
    BY <1>1 DEF Shrink, tables, S!DropRequest, S!DropRepository, S!DropResources, S!DropVms,
               S!DropConfig
  <1>2. [Next]_vars =>
          \E r : \/ S!DropRequest(r) \/ S!DropRepository(r) \/ S!DropResources(r)
                 \/ S!DropVms(r) \/ S!DropConfig(r) \/ UNCHANGED tables
    BY DEF Next, Attempt, vars, elsewhere, SendDestroy, RemoveRequest, OtherDagPops, StartRun,
           EndRun, Schedule, GetRequestId, GetRepositoryName, BranchResources,
           TerraformDestroy, CleanupDirectory, DeleteRequest, DeleteRepository,
           DeleteResources, DeleteInstances, DeleteConfig, AttemptDies, GiveUp
  <1> QED
    BY <1>1, <1>2

\* Beside the purge itself, nothing moves it on or ends its task well.
LEMMA PurgeWaits ==
  ASSUME TypeOK, RanByRule, BrokenByRule, SkippedByRule, Purging, [Next]_vars,
         ~StartRun, \A t \in Tasks : ~AttemptDies(t),
         ~(DeleteRequest \/ DeleteRepository \/ DeleteResources \/ DeleteInstances \/ DeleteConfig)
  PROVE  /\ purge' = purge
         /\ state["delete"] = "running" => state'["delete"] = "running" /\ got' = got
         /\ state'["delete"] = "success" => state["delete"] = "success" /\ got' = got
  <1>0. state \in [Tasks -> A!States] /\ "delete" \in Tasks
    BY Wiring DEF TypeOK, A!DagTypeOK
  <1>1. purge' = purge
    BY DEF Next, Attempt, vars, elsewhere, SendDestroy, RemoveRequest, OtherDagPops, EndRun,
           Schedule, GetRequestId, GetRepositoryName, BranchResources, TerraformDestroy,
           CleanupDirectory
  <1>2. ASSUME NEW t \in Tasks, t # "delete", A!Succeed(t) \/ A!AttemptFails(t)
        PROVE  state'["delete"] = state["delete"]
    BY <1>0, <1>2 DEF A!Succeed, A!AttemptFails, A!Enter
  <1>3. ASSUME Schedule
        PROVE  /\ state["delete"] = "running" => state'["delete"] = "running"
               /\ state'["delete"] # "success" \/ state["delete"] = "success"
    BY <1>0, <1>3 DEF Schedule, A!Scheduler, A!Schedule, A!BreakDown, A!SkipDown, A!Retry, A!Enter
  <1>4. ASSUME BranchResources PROVE state'["delete"] = state["delete"]
    BY <1>0, <1>2, <1>4, Wiring DEF BranchResources, A!SucceedSkipping, Kinds
  <1>5. ASSUME GetRequestId \/ GetRepositoryName \/ CleanupDirectory
        PROVE  state'["delete"] = state["delete"]
    BY <1>2, <1>5, Wiring DEF GetRequestId, GetRepositoryName, CleanupDirectory
  <1>6. ASSUME NEW k \in Destroys, TerraformDestroy(k) PROVE state'["delete"] = state["delete"]
    BY <1>2, <1>6, Wiring DEF TerraformDestroy, Destroys, Kinds
  <1>7. ASSUME NEW r \in Requests, SendDestroy(r) \/ RemoveRequest(r)
        PROVE  state'["delete"] = state["delete"]
    BY <1>7 DEF SendDestroy, RemoveRequest, dagVars
  <1>8. ASSUME OtherDagPops \/ EndRun \/ UNCHANGED vars
        PROVE  state'["delete"] = state["delete"]
    BY <1>8 DEF OtherDagPops, EndRun, vars, dagVars
  <1>9. /\ state["delete"] = "running" => state'["delete"] = "running"
        /\ state'["delete"] = "success" => state["delete"] = "success"
    BY <1>3, <1>4, <1>5, <1>6, <1>7, <1>8 DEF Next, Attempt
  <1> QED
    BY <1>0, <1>1, <1>9, GotStep

LEMMA PurgingStays ==
  ASSUME TypeOK, RanByRule, BrokenByRule, SkippedByRule, Purging, [Next]_vars
  PROVE  Purging' /\ purge' \in {"request", "repository", "resources", "instances", "config"}
  <1>0. /\ state \in [Tasks -> A!States] /\ "delete" \in Tasks /\ request \subseteq Requests
        /\ purge \in {"request", "repository", "resources", "instances", "config"}
    BY Wiring DEF TypeOK, A!DagTypeOK, S!SchemaTypeOK
  <1>1. Shrink
    BY TablesShrink
  <1>2. CASE StartRun
    BY <1>2, <1>0 DEF StartRun, A!Renew, Purging
  <1>3. ASSUME NEW t \in Tasks, AttemptDies(t)
        PROVE  Purging' /\ purge' = "request"
    <2>1. purge' = "request" /\ got' = got
      BY <1>3 DEF AttemptDies
    <2>2. state'["delete"] = "success" => state["delete"] = "success"
      BY <1>0, <1>3 DEF AttemptDies, A!AttemptFails
    <2> QED
      BY <1>1, <2>1, <2>2 DEF Purging, Shrink
  <1>4. ASSUME GiveUp, got' = got, state["delete"] = "running"
        PROVE  Purging' /\ purge' = "request"
    <2>1. state'["delete"] # "success"
      BY <1>0, <1>4 DEF GiveUp, A!AttemptFails
    <2> QED
      BY <1>4, <2>1 DEF GiveUp, Purging
  <1>5. CASE DeleteRequest
    <2>1. got' = got /\ state["delete"] = "running"
      BY <1>5 DEF DeleteRequest, beside, Deleting, Running
    <2>2. CASE got \in request
      BY <1>0, <1>5, <2>1, <2>2 DEF DeleteRequest, Then, dagVars, S!DropRequest, Purging
    <2>3. CASE got \notin request
      BY <1>4, <1>5, <2>1, <2>3 DEF DeleteRequest
    <2> QED
      BY <2>2, <2>3
  <1>6. CASE DeleteRepository
    BY <1>0, <1>6 DEF DeleteRepository, beside, Deleting, Running, Then, dagVars,
                     S!DropRepository, Purging
  <1>7. CASE DeleteResources
    <2>1. got' = got /\ state["delete"] = "running" /\ purge = "resources"
      BY <1>7 DEF DeleteResources, beside, Deleting, Running
    <2>2. CASE got \in resources
      BY <1>0, <1>7, <2>1, <2>2 DEF DeleteResources, Then, dagVars, S!DropResources, Purging
    <2>3. CASE got \notin resources
      BY <1>4, <1>7, <2>1, <2>3 DEF DeleteResources
    <2> QED
      BY <2>2, <2>3
  <1>8. CASE DeleteInstances
    <2>1. /\ got' = got /\ state["delete"] = "running" /\ purge = "instances"
          /\ purge' = "config" /\ state' = state
      BY <1>8 DEF DeleteInstances, beside, Deleting, Running, Then, dagVars
    <2> QED
      BY <1>1, <2>1 DEF Purging, Shrink
  <1>9. CASE DeleteConfig
    <2>1. got' = got /\ state["delete"] = "running" /\ purge = "config"
      BY <1>9 DEF DeleteConfig, beside, Deleting, Running
    <2>2. CASE got \in vms
      BY <1>4, <1>9, <2>1, <2>2 DEF DeleteConfig
    <2>3. CASE got \notin vms
      <3>1. S!DropConfig(got) /\ purge' = "request"
        BY <1>9, <2>3 DEF DeleteConfig
      <3>2. got' \notin config' \cup vms' \cup resources' \cup repository' \cup request'
        BY <2>1, <2>3, <3>1 DEF S!DropConfig
      <3> QED
        BY <2>1, <3>1, <3>2 DEF Purging
    <2> QED
      BY <2>2, <2>3
  <1>10. CASE /\ ~StartRun /\ \A t \in Tasks : ~AttemptDies(t)
              /\ ~(DeleteRequest \/ DeleteRepository \/ DeleteResources
                     \/ DeleteInstances \/ DeleteConfig)
    <2>1. /\ purge' = purge
          /\ state["delete"] = "running" => state'["delete"] = "running" /\ got' = got
          /\ state'["delete"] = "success" => state["delete"] = "success" /\ got' = got
      BY <1>10, PurgeWaits
    <2> QED
      BY <1>0, <1>1, <2>1 DEF Purging, Shrink
  <1> QED
    BY <1>2, <1>3, <1>5, <1>6, <1>7, <1>8, <1>9, <1>10

----------------------------------------------------------------------------
(* The invariant is inductive. *)

Pending == {"none", "running", "retry"}

\* Only a failed attempt counts, and no task comes back from its end.
LEMMA TriesStep ==
  ASSUME TypeOK, [Next]_vars
  PROVE  \/ StartRun
         \/ UNCHANGED tries /\ \A t \in Tasks : state'[t] \in Pending => state[t] \in Pending
         \/ \E t \in Tasks : A!AttemptFails(t)
  <1>0. state \in [Tasks -> A!States]
    BY DEF TypeOK, A!DagTypeOK
  <1> DEFINE Kept ==
        UNCHANGED tries /\ \A t \in Tasks : state'[t] \in Pending => state[t] \in Pending
  <1> DEFINE Failed == \E t \in Tasks : A!AttemptFails(t)
  <1>1. ASSUME NEW t \in Tasks, A!Succeed(t) PROVE Kept
    BY <1>0, <1>1 DEF A!Succeed, A!Enter, Pending
  <1>2. ASSUME UNCHANGED dagVars PROVE Kept
    BY <1>2 DEF dagVars
  <1>3. ASSUME Schedule PROVE Kept
    BY <1>0, <1>3 DEF Schedule, A!Scheduler, A!Schedule, A!BreakDown, A!SkipDown, A!Retry,
                     A!Enter, Pending
  <1>4. ASSUME GetRequestId \/ GetRepositoryName \/ CleanupDirectory PROVE Kept \/ Failed
    BY <1>1, <1>4, Wiring DEF GetRequestId, GetRepositoryName, CleanupDirectory
  <1>5. ASSUME BranchResources PROVE Kept \/ Failed
    BY <1>0, <1>5, Wiring DEF BranchResources, A!SucceedSkipping, Pending
  <1>6. ASSUME NEW k \in Destroys, TerraformDestroy(k) PROVE Kept \/ Failed
    BY <1>1, <1>6, Wiring DEF TerraformDestroy
  <1>7. ASSUME DeleteRequest \/ DeleteRepository \/ DeleteResources \/ DeleteInstances
        PROVE  Kept \/ Failed
    BY <1>2, <1>7, Wiring DEF DeleteRequest, DeleteRepository, DeleteResources,
                              DeleteInstances, Then, GiveUp
  <1>8. ASSUME DeleteConfig PROVE Kept \/ Failed
    BY <1>1, <1>8, Wiring DEF DeleteConfig, GiveUp
  <1>9. ASSUME NEW t \in Tasks, AttemptDies(t) PROVE Failed
    BY <1>9 DEF AttemptDies
  <1>10. ASSUME NEW r \in Requests, SendDestroy(r) \/ RemoveRequest(r) PROVE Kept
    BY <1>2, <1>10 DEF SendDestroy, RemoveRequest
  <1>11. ASSUME OtherDagPops \/ EndRun \/ UNCHANGED vars PROVE Kept
    BY <1>2, <1>11 DEF OtherDagPops, EndRun, vars
  <1> QED
    BY <1>3, <1>4, <1>5, <1>6, <1>7, <1>8, <1>9, <1>10, <1>11 DEF Next, Attempt

LEMMA TriesStay ==
  ASSUME TypeOK, TriesLeft, [Next]_vars
  PROVE  A!DagTypeOK' /\ TriesLeft'
  <1>0. /\ state \in [Tasks -> A!States] /\ tries \in [Tasks -> Nat]
        /\ \A t \in Tasks : tries[t] <= Retries[t] + 1
        /\ \A t \in Tasks : state[t] \in Pending => tries[t] <= Retries[t]
        /\ \A t \in Tasks : Retries[t] \in Nat
    BY WiringTypes DEF TypeOK, A!DagTypeOK, TriesLeft, Pending
  <1>1. /\ tries' \in [Tasks -> Nat]
        /\ \A t \in Tasks : tries'[t] <= Retries[t] + 1
        /\ \A t \in Tasks : state'[t] \in Pending => tries'[t] <= Retries[t]
    <2>1. CASE StartRun
      BY <1>0, <2>1 DEF StartRun, A!Renew
    <2>2. CASE /\ UNCHANGED tries
               /\ \A t \in Tasks : state'[t] \in Pending => state[t] \in Pending
      BY <1>0, <2>2
    <2>3. CASE \E t \in Tasks : A!AttemptFails(t)
      <3>1. PICK t \in Tasks : A!AttemptFails(t)
        BY <2>3
      <3>2. /\ state[t] = "running" /\ tries' = [tries EXCEPT ![t] = tries[t] + 1]
            /\ state' = [state EXCEPT ![t] = IF tries[t] < Retries[t] THEN "retry" ELSE "failed"]
        BY <3>1 DEF A!AttemptFails
      <3>3. tries[t] <= Retries[t]
        BY <1>0, <3>2 DEF Pending
      <3>4. tries' \in [Tasks -> Nat] /\ \A u \in Tasks : tries'[u] <= Retries[u] + 1
        BY <1>0, <3>2, <3>3
      <3>5. ASSUME NEW u \in Tasks, state'[u] \in Pending PROVE tries'[u] <= Retries[u]
        <4>1. CASE u = t
          <5>1. tries[t] < Retries[t]
            BY <1>0, <3>2, <3>5, <4>1 DEF Pending
          <5> QED
            BY <1>0, <3>2, <4>1, <5>1
        <4>2. CASE u # t
          BY <1>0, <3>2, <3>5, <4>2
        <4> QED
          BY <4>1, <4>2
      <3> QED
        BY <3>4, <3>5
    <2> QED
      BY <2>1, <2>2, <2>3, TriesStep
  <1> QED
    BY <1>1, StateTypes DEF A!DagTypeOK, TriesLeft, Pending

LEMMA MessagesStay ==
  ASSUME TypeOK, TriggersSent, [Next]_vars
  PROVE  /\ queue' \in Seq(Requests) /\ triggers' \in 0..MaxSends /\ sends' \in 0..MaxSends
         /\ TriggersSent'
  <1>0. queue \in Seq(Requests) /\ triggers \in 0..MaxSends /\ sends \in 0..MaxSends
    BY DEF TypeOK
  <1>1. ASSUME queue # <<>> PROVE Tail(queue) \in Seq(Requests)
    BY <1>0, <1>1, HeadTailProperties
  <1>2. queue' \in Seq(Requests)
    <2>1. ASSUME NEW r \in Requests, SendDestroy(r) PROVE queue' \in Seq(Requests)
      BY <1>0, <2>1, AppendProperties DEF SendDestroy
    <2>2. queue' = queue \/ (queue # <<>> /\ queue' = Tail(queue))
            \/ \E r \in Requests : SendDestroy(r)
      BY DEF Next, Attempt, vars, messages, beside, RemoveRequest, OtherDagPops, StartRun,
             EndRun, Schedule, GetRequestId, GetRepositoryName, BranchResources,
             TerraformDestroy, CleanupDirectory, DeleteRequest, DeleteRepository,
             DeleteResources, DeleteInstances, DeleteConfig, AttemptDies
    <2> QED
      BY <1>0, <1>1, <2>1, <2>2
  <1>3. \/ triggers' = triggers /\ sends' = sends
        \/ triggers > 0 /\ triggers' = triggers - 1 /\ sends' = sends
        \/ sends < MaxSends /\ sends' = sends + 1 /\ triggers' \in {triggers, triggers + 1}
    BY DEF Next, Attempt, vars, messages, elsewhere, beside, SendDestroy, RemoveRequest,
           OtherDagPops, StartRun, EndRun, Schedule, GetRequestId, GetRepositoryName,
           BranchResources, TerraformDestroy, CleanupDirectory, DeleteRequest,
           DeleteRepository, DeleteResources, DeleteInstances, DeleteConfig, AttemptDies
  <1> QED
    BY <1>0, <1>2, <1>3 DEF TriggersSent

LEMMA TypesStay ==
  ASSUME IInv, [Next]_vars
  PROVE  TypeOK'
  <1>1. S!SchemaTypeOK'
    BY TablesShrink DEF IInv, TypeOK, S!SchemaTypeOK, Shrink
  <1>2. A!DagTypeOK'
    BY TriesStay DEF IInv
  <1>3. active' \in BOOLEAN
    BY DEF IInv, TypeOK, Next, Attempt, vars, elsewhere, beside, SendDestroy, RemoveRequest,
           OtherDagPops, StartRun, EndRun, Schedule, GetRequestId, GetRepositoryName,
           BranchResources, TerraformDestroy, CleanupDirectory, DeleteRequest,
           DeleteRepository, DeleteResources, DeleteInstances, DeleteConfig, AttemptDies
  <1>4. got' \in Requests \cup {NoRequest}
    BY GotStep DEF IInv, TypeOK, StartRun
  <1>5. tfdir' \in [Requests -> SUBSET (Kinds \cup {"rg"})]
    BY TfdirStep DEF IInv, TypeOK
  <1>6. faults' \in 0..MaxFaults
    <2>1. faults' = faults \/ (faults < MaxFaults /\ faults' = faults + 1)
      BY DEF Next, Attempt, vars, elsewhere, beside, SendDestroy, RemoveRequest,
             OtherDagPops, StartRun, EndRun, Schedule, GetRequestId, GetRepositoryName,
             BranchResources, TerraformDestroy, CleanupDirectory, DeleteRequest, Fault,
             DeleteRepository, DeleteResources, DeleteInstances, DeleteConfig, AttemptDies
    <2> QED
      BY <2>1 DEF IInv, TypeOK
  <1> QED
    BY <1>1, <1>2, <1>3, <1>4, <1>5, <1>6, MessagesStay, GoneStays, PurgingStays
    DEF IInv, TypeOK

LEMMA InitHolds ==
  Init => IInv
  <1> SUFFICES ASSUME Init PROVE IInv
    OBVIOUS
  <1>0. /\ state = [t \in Tasks |-> "none"] /\ tries = [t \in Tasks |-> 0]
        /\ \A r \in Requests : infra[r] \subseteq Built(r)
        /\ infra \in [Requests -> SUBSET (Kinds \cup {"rg"})]
    BY DEF Init, A!Fresh, Built
  <1>1. \A t \in Tasks : state[t] = "none"
    BY <1>0
  <1>2. TypeOK
    <2>1. A!DagTypeOK
      BY <1>0, WiringTypes DEF A!DagTypeOK, A!States
    <2>2. S!SchemaTypeOK
      BY DEF Init, S!SchemaTypeOK
    <2>3. <<>> \in Seq(Requests)
      BY EmptySeq
    <2>4. /\ queue = <<>> /\ triggers = 0 /\ sends = 0 /\ faults = 0 /\ active = FALSE
          /\ got = NoRequest /\ purge = "request" /\ tfdir = infra
      BY DEF Init
    <2>5. 0 \in 0..MaxSends /\ 0 \in 0..MaxFaults
      OBVIOUS
    <2> QED
      BY <1>0, <2>1, <2>2, <2>3, <2>4, <2>5 DEF TypeOK
  <1>3. TriesLeft
    BY <1>0, WiringTypes DEF TriesLeft
  <1>4. RanByRule /\ BrokenByRule /\ SkippedByRule /\ GotIsOwn /\ DestroyedIsGone
    BY <1>0, <1>1, Wiring DEF RanByRule, BrokenByRule, SkippedByRule, GotIsOwn,
                              DestroyedIsGone, Ran
  <1>5. Purging /\ TriggersSent
    BY <1>1, Wiring DEF Init, Purging, TriggersSent
  <1> QED
    BY <1>2, <1>3, <1>4, <1>5 DEF IInv

LEMMA Induction ==
  IInv /\ [Next]_vars => IInv'
  BY TypesStay, TriesStay, MessagesStay, RulesStay, OwnStays, GoneStays, PurgingStays DEF IInv

LEMMA Invariance ==
  Spec => []IInv
  BY InitHolds, Induction, PTL DEF Spec
----------------------------------------------------------------------------
(* What follows for the resources. *)

LEMMA KindGone ==
  ASSUME IInv, got \in Requests, NEW k \in Kinds, state[k] \in {"success", "skipped"}
  PROVE  k \notin infra[got]
  <1>1. CASE state[k] = "success"
    BY <1>1, Wiring DEF IInv, DestroyedIsGone
  <1>2. CASE state[k] = "skipped"
    <2>1. state["branch"] = "success" /\ k \notin Chosen
      BY <1>2, KindsWait DEF IInv
    <2>2. k \notin Wanted[got]
      BY <2>1 DEF IInv, GotIsOwn, Chosen
    <2> QED
      BY <2>2 DEF IInv, DestroyedIsGone, Built, Kinds
  <1> QED
    BY <1>1, <1>2

\* What starts after the kinds starts when each has been destroyed or not chosen.
LEMMA AfterKinds ==
  ASSUME RanByRule, NEW t \in Tasks, Upstream[t] = Kinds,
         Rule[t] = "none_failed_min_one_success", state[t] \in Ran
  PROVE  \A k \in Kinds : state[k] \in {"success", "skipped"}
  <1>1. A!RuleMet(t)
    BY DEF RanByRule
  <1>2. A!Every(t, {"success", "skipped"})
    BY <1>1 DEF A!RuleMet
  <1> QED
    BY <1>2 DEF A!Every

\* The branch never skips everything.
LEMMA OneChosen ==
  ASSUME IInv
  PROVE  \E k \in Kinds : state[k] # "skipped"
  <1> SUFFICES ASSUME \A k \in Kinds : state[k] = "skipped" PROVE FALSE
    OBVIOUS
  <1>1. state["branch"] = "success" /\ \A k \in Kinds : k \notin Chosen
    BY KindsWait DEF IInv, Kinds
  <1>2. got \in Requests
    <2>1. state["get_repository_name"] = "success"
      BY <1>1, AfterOne, Wiring DEF IInv, Ran
    <2> QED
      BY <2>1 DEF IInv, GotIsOwn
  <1>3. Wanted[got] # {} /\ Wanted[got] \subseteq Kinds /\ Chosen = Wanted[got]
    BY <1>1, <1>2 DEF IInv, GotIsOwn, Chosen
  <1> QED
    BY <1>1, <1>3

\* Where a kind is not even tried, something before it has failed.
LEMMA FailureFound ==
  ASSUME IInv, NEW k \in Kinds, state[k] \in A!Broken
  PROVE  \E t \in Tasks : state[t] = "failed"
  <1> SUFFICES ASSUME \A t \in Tasks : state[t] # "failed" PROVE FALSE
    OBVIOUS
  <1>1. state["branch"] = "upstream_failed"
    BY AfterOne, Wiring DEF IInv, A!Broken
  <1>2. state["get_repository_name"] = "upstream_failed"
    BY <1>1, AfterOne, Wiring DEF IInv, A!Broken
  <1>3. state["get_request_id"] = "upstream_failed"
    BY <1>2, AfterOne, Wiring DEF IInv, A!Broken
  <1> QED
    BY <1>3, Wiring DEF IInv, BrokenByRule, A!Some

\* A run that purges the rows without any task having failed has left nothing.
LEMMA AllGone ==
  ASSUME IInv, state["delete"] = "success", \A t \in Tasks : state[t] # "failed"
  PROVE  infra[got] = {}
  <1>0. got \in Requests
    BY DEF IInv, Purging
  <1>1. /\ state["cleanup"] \in {"success", "skipped", "upstream_failed"}
        /\ \A t \in Tasks : state[t] = "upstream_failed" => A!Some(t, A!Broken)
        /\ \A k \in Kinds : state[k] \notin A!Broken
    <2>1. state["cleanup"] \in A!Done
      BY Wiring DEF IInv, RanByRule, Ran, A!RuleMet, A!Every
    <2> QED
      BY <2>1, FailureFound, Wiring DEF IInv, BrokenByRule, A!Done
  <1>2. \A k \in Kinds : state[k] \in {"success", "skipped"} => k \notin infra[got]
    BY <1>0, KindGone
  <1>3. infra[got] \subseteq Built(got)
    BY <1>0 DEF IInv, DestroyedIsGone
  <1>4. CASE Dag = "AWS"
    <2>1. state["cleanup"] # "upstream_failed"
      BY <1>1, <1>4, Wiring DEF A!Some
    <2>2. state["cleanup"] # "skipped"
      BY <1>4, OneChosen, Wiring DEF IInv, SkippedByRule, A!Every, Kinds
    <2>3. \A k \in Kinds : state[k] \in {"success", "skipped"}
      BY <1>1, <1>4, <2>1, <2>2, AfterKinds, Wiring DEF IInv, Ran
    <2>4. state["branch"] = "success"
      BY <2>3, KindsWait DEF IInv, Kinds, Ran
    <2>5. CloudOf[got] = "AWS"
      BY <1>4, <2>4 DEF IInv, GotIsOwn
    <2> QED
      BY <1>0, <1>2, <1>3, <2>3, <2>5 DEF Built
  <1>5. CASE Dag = "AZURE"
    <2>1. state["rg"] \in A!Done
      <3>1. state["cleanup"] # "skipped"
        BY <1>5, Wiring DEF IInv, SkippedByRule, Kinds
      <3>2. CASE state["cleanup"] = "success"
        BY <1>5, <3>2, Wiring DEF IInv, RanByRule, Ran, A!RuleMet, A!Every
      <3>3. CASE state["cleanup"] = "upstream_failed"
        BY <1>1, <1>5, <3>3, Wiring DEF A!Some, A!Broken, A!Done
      <3> QED
        BY <1>1, <3>1, <3>2, <3>3
    <2>2. state["rg"] # "upstream_failed"
      BY <1>1, <1>5, Wiring DEF A!Some
    <2>3. state["rg"] # "skipped"
      BY <1>5, OneChosen, Wiring DEF IInv, SkippedByRule, A!Every, Kinds
    <2>4. state["rg"] = "success"
      BY <1>5, <2>1, <2>2, <2>3, Wiring DEF A!Done
    <2>5. \A k \in Kinds : state[k] \in {"success", "skipped"}
      BY <1>5, <2>4, AfterKinds, Wiring DEF IInv, Ran
    <2>6. "rg" \notin infra[got]
      BY <1>5, <2>4 DEF IInv, DestroyedIsGone, Destroys
    <2> QED
      BY <1>0, <1>2, <1>3, <2>5, <2>6 DEF Built
  <1> QED
    BY <1>4, <1>5 DEF Clouds

LEMMA KeptStays ==
  ASSUME Dag = "AWS", IInv, StateOutlivesInfra, [Next]_vars
  PROVE  StateOutlivesInfra'
  <1>0. /\ tfdir \in [Requests -> SUBSET (Kinds \cup {"rg"})]
        /\ \A r \in Requests : infra'[r] \subseteq infra[r]
    BY GoneStays DEF IInv, TypeOK
  <1>1. CASE tfdir' = tfdir
    BY <1>0, <1>1 DEF StateOutlivesInfra
  <1>2. CASE /\ state["cleanup"] = "running" /\ got \in Requests /\ CloudOf[got] = Dag
             /\ tfdir' = [tfdir EXCEPT ![got] = {}]
    <2>1. \A k \in Kinds : state[k] \in {"success", "skipped"}
      BY <1>2, AfterKinds, Wiring DEF IInv, Ran
    <2>2. \A k \in Kinds : k \notin infra[got]
      BY <1>2, <2>1, KindGone
    <2>3. infra[got] \subseteq Kinds
      BY <1>2 DEF IInv, DestroyedIsGone, Built
    <2> QED
      BY <1>0, <1>2, <2>2, <2>3 DEF StateOutlivesInfra
  <1> QED
    BY <1>1, <1>2, TfdirStep DEF IInv

----------------------------------------------------------------------------
(* The theorems. *)

\* The states of the tables, of the run and of the queue have their types.
THEOREM TypeCorrect == Spec => []TypeOK
  BY Invariance, PTL DEF IInv

\* If supabase_delete_request succeeds, no row of the request is left, although
\* each of its statements commits by itself and any attempt may die between two.
THEOREM PurgeIsComplete == Spec => []PurgeComplete
  <1>1. IInv => PurgeComplete
    BY DEF IInv, Purging, PurgeComplete
  <1> QED
    BY <1>1, Invariance, PTL

\* AZURE_Destroy starts on the resource group only when no instance is left in it.
THEOREM GroupIsLast == Spec => []GroupLast
  <1>1. IInv => GroupLast
    <2> SUFFICES ASSUME IInv, got \in Requests, "rg" \in Tasks,
                        state["rg"] \in {"running", "retry", "success"}
                 PROVE  infra[got] \cap Kinds = {}
      BY DEF GroupLast
    <2>1. \A k \in Kinds : state[k] \in {"success", "skipped"}
      BY AfterKinds, Wiring DEF IInv, Ran
    <2> QED
      BY <2>1, KindGone
  <1> QED
    BY <1>1, Invariance, PTL

\* Whenever rows are purged under something that is still up in the cloud, a task
\* of the run has failed, and its log is the one that the API shows.
THEOREM LossesShow == Spec => []LossShows
  <1>1. IInv => LossShows
    <2> SUFFICES ASSUME IInv, state["delete"] = "success", infra[got] # {}
                 PROVE  LogTargets # {} /\ \A t \in LogTargets : state[t] = "failed"
      BY DEF LossShows
    <2>1. PICK t \in Tasks : state[t] = "failed"
      BY AllGone
    <2>2. LogTargets = {u \in Tasks : state[u] = "failed"}
      BY <2>1 DEF LogTargets
    <2> QED
      BY <2>1, <2>2
  <1> QED
    BY <1>1, Invariance, PTL

\* AWS_Destroy never removes the terraform state of something that still exists.
THEOREM StateKept == ASSUME Dag = "AWS" PROVE Spec => []StateOutlivesInfra
  <1>1. Init => StateOutlivesInfra
    BY DEF Init, StateOutlivesInfra
  <1>2. IInv /\ StateOutlivesInfra /\ [Next]_vars => StateOutlivesInfra'
    BY KeptStays
  <1> QED
    BY <1>1, <1>2, Invariance, PTL DEF Spec
=============================================================================

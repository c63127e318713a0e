------------------------------ MODULE AirflowDag ------------------------------
(***************************************************************************)
(* One run of an Airflow 2.10 DAG, as far as the DAGs under dags/ rely on  *)
(* it: a task is scheduled when its trigger rule is met, fails for good    *)
(* when its retries are used up, and failures and skips travel downstream  *)
(* at once.  In particular a task whose rule can no longer be met becomes  *)
(* upstream_failed while other upstream tasks are still running; only      *)
(* all_done waits for all of them.  Airflow itself is not in the           *)
(* repository: this module is its documented behaviour.                    *)
(***************************************************************************)
EXTENDS Naturals

CONSTANTS
    Tasks,              \* task ids
    Upstream,           \* the tasks each one is set downstream of (>>)
    Rule,               \* trigger_rule
    Retries             \* retries

VARIABLES
    state,              \* state of each task instance
    tries               \* failed attempts so far

dagVars == <<state, tries>>

Done == {"success", "failed", "skipped", "upstream_failed"}
Broken == {"failed", "upstream_failed"}
States == Done \cup {"none", "running", "retry"}

DagTypeOK ==
    /\ state \in [Tasks -> States]
    /\ tries \in [Tasks -> Nat]
    /\ \A t \in Tasks : tries[t] <= Retries[t] + 1

Fresh ==
    /\ state = [t \in Tasks |-> "none"]
    /\ tries = [t \in Tasks |-> 0]

\* The next run of the same DAG starts with new task instances.
Renew ==
    /\ state' = [t \in Tasks |-> "none"]
    /\ tries' = [t \in Tasks |-> 0]

RunOver == \A t \in Tasks : state[t] \in Done

Some(t, S) == \E u \in Upstream[t] : state[u] \in S
Every(t, S) == \A u \in Upstream[t] : state[u] \in S

\* The trigger rules the DAGs use; a task without upstream tasks runs at once.
RuleMet(t) ==
    CASE Rule[t] = "all_success" -> Every(t, {"success"})
      [] Rule[t] = "none_failed_min_one_success" ->
             Every(t, {"success", "skipped"}) /\ Some(t, {"success"})
      [] Rule[t] = "all_done" -> Every(t, Done)

RuleBroken(t) == Rule[t] # "all_done" /\ Some(t, Broken)

RuleSkipped(t) ==
    /\ ~RuleBroken(t)
    /\ \/ Rule[t] = "all_success" /\ Some(t, {"skipped"})
       \/ /\ Rule[t] = "none_failed_min_one_success"
          /\ Upstream[t] # {} /\ Every(t, {"skipped"})

Enter(t, label) == state' = [state EXCEPT ![t] = label] /\ UNCHANGED tries

Schedule(t) == state[t] = "none" /\ RuleMet(t) /\ Enter(t, "running")
BreakDown(t) == state[t] = "none" /\ RuleBroken(t) /\ Enter(t, "upstream_failed")
SkipDown(t) == state[t] = "none" /\ RuleSkipped(t) /\ Enter(t, "skipped")
Retry(t) == state[t] = "retry" /\ Enter(t, "running")

Succeed(t) == state[t] = "running" /\ Enter(t, "success")

\* A branch skips the tasks right behind it that it did not choose.
SucceedSkipping(t, S) ==
    /\ state[t] = "running"
    /\ state' = [u \in Tasks |-> IF u = t THEN "success"
                                 ELSE IF u \in S THEN "skipped" ELSE state[u]]
    /\ UNCHANGED tries

AttemptFails(t) ==
    /\ state[t] = "running"
    /\ tries' = [tries EXCEPT ![t] = @ + 1]
    /\ state' = [state EXCEPT ![t] = IF tries[t] < Retries[t] THEN "retry" ELSE "failed"]

Scheduler == \E t \in Tasks : Schedule(t) \/ BreakDown(t) \/ SkipDown(t) \/ Retry(t)
=============================================================================

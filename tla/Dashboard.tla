----------------------------- MODULE Dashboard -----------------------------
(***************************************************************************)
(* GET /infrastructure counts requests in eight queries, one await after   *)
(* the other, while requests come, change their status and go.             *)
(***************************************************************************)
EXTENDS Naturals, FiniteSets

CONSTANTS
    Slots,              \* rows of the Request table
    MaxChanges          \* changes of the table while the counts are taken (a bound)

ASSUME DashboardAssumption == IsFiniteSet(Slots) /\ MaxChanges \in Nat

Status == {"Pending", "Approved", "Rejected", "Deleted"}
Clouds == {"AWS", "AZURE"}

\* The counts, in the order of the queries.
Counts == <<"total", "approved", "declined", "pending", "groupsAWS", "groupsAZURE",
            "vmsAZURE", "vmsAWS">>

VARIABLES
    requests,           \* [slot -> status and cloud], for the rows there are
    next,               \* the query to come
    count,
    changes,            \* history: changes since the first query
    deleted             \* history: rows with status Deleted at the first query

dashboard == <<requests, next, count, changes, deleted>>

Row == [status : Status, cloud : Clouds]

DashboardTypeOK ==
    /\ \E live \in SUBSET Slots : requests \in [live -> Row]
    /\ next \in 1..9
    /\ count \in [1..(next - 1) -> Nat]
    /\ changes \in 0..MaxChanges
    /\ deleted \in Nat

DashboardInit ==
    /\ \E live \in SUBSET Slots : requests \in [live -> Row]
    /\ next = 1 /\ count = <<>> /\ changes = 0
    /\ deleted = Cardinality({x \in DOMAIN requests : requests[x].status = "Deleted"})

\* Mutant: what is not Approved is taken for Pending.
OfTwoStates(what) ==
    LET approved == {x \in DOMAIN requests : requests[x].status = "Approved"}
        on(c) == {x \in approved : requests[x].cloud = c} IN
    CASE what = "total" -> DOMAIN requests
      [] what = "approved" -> approved
      [] what = "declined" -> {x \in DOMAIN requests : requests[x].status = "Rejected"}
      [] what = "pending" -> DOMAIN requests \ approved
      [] what \in {"groupsAWS", "vmsAWS"} -> on("AWS")
      [] what \in {"groupsAZURE", "vmsAZURE"} -> on("AZURE")

Of(what) ==
    LET approved == {x \in DOMAIN requests : requests[x].status = "Approved"}
        on(c) == {x \in approved : requests[x].cloud = c} IN
    CASE what = "total" -> DOMAIN requests
      [] what = "approved" -> approved
      [] what = "declined" -> {x \in DOMAIN requests : requests[x].status = "Rejected"}
      [] what = "pending" -> {x \in DOMAIN requests : requests[x].status = "Pending"}
      [] what \in {"groupsAWS", "vmsAWS"} -> on("AWS")
      [] what \in {"groupsAZURE", "vmsAZURE"} -> on("AZURE")

CountNext ==
    /\ next <= 8
    /\ count' = [i \in 1..next |-> IF i = next THEN Cardinality(Of(Counts[next])) ELSE count[i]]
    /\ next' = next + 1
    /\ UNCHANGED <<requests, changes, deleted>>

\* POST /request/..., PATCH /request/:id/status, DELETE /request/:id by others.
RequestChanges ==
    /\ next \in 2..8 /\ changes < MaxChanges
    /\ changes' = changes + 1
    /\ \/ \E x \in Slots \ DOMAIN requests, c \in Clouds :
            requests' = [y \in DOMAIN requests \cup {x} |->
                            IF y = x THEN [status |-> "Pending", cloud |-> c] ELSE requests[y]]
       \/ \E x \in DOMAIN requests, s \in Status :
            /\ s # requests[x].status
            /\ requests' = [requests EXCEPT ![x].status = s]
       \/ \E x \in DOMAIN requests :
            requests' = [y \in DOMAIN requests \ {x} |-> requests[y]]
    /\ UNCHANGED <<next, count, deleted>>

DashboardNext == CountNext \/ RequestChanges

DashboardSpec == DashboardInit /\ [][DashboardNext]_dashboard

\* The distance of two counts.
Apart(m, n) == IF m < n THEN n - m ELSE m - n

\* The three statuses that are counted and the Deleted requests, which no count
\* shows, add up to the total, and the groups and the machines of the two clouds
\* to each other and to what is approved, but for as many as requests changed
\* between the first query and the last: an undisturbed dashboard is
\* consistent, and no change is felt twice in a sum.
CountsDriftByChanges ==
    /\ next > 4 => Apart(count[1], count[2] + count[3] + count[4] + deleted) <= changes
    /\ next > 6 => Apart(count[2], count[5] + count[6]) <= changes
    /\ next > 8 => Apart(count[5] + count[6], count[7] + count[8]) <= changes
=============================================================================

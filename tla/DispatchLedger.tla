---------------------------- MODULE DispatchLedger ----------------------------
(***************************************************************************)
(* What the way from an approval to infrastructure promises, without its   *)
(* calls, its queue or its tasks: a request is asked for at most once, its *)
(* message is in one place or lost, and one run at most takes it.  For the *)
(* requests with a place of their own, only that run builds, and only what *)
(* is built is recorded.  Nothing is promised to arrive.                   *)
(***************************************************************************)
CONSTANTS
    Requests,
    Placed,             \* those whose infrastructure shares its place with no other's
    Runs,               \* the runs that may take a message
    Kinds, Wanted,      \* the kinds of instances, and those of each request
    NoRequest

VARIABLES
    asked,              \* requests whose approval has sent a message
    waiting,            \* requests whose message nobody has taken yet
    held,               \* the request that a run has taken
    built, recorded     \* what exists of a request, and what its rows say

ledgerVars == <<asked, waiting, held, built, recorded>>

LedgerInit ==
    /\ asked = {} /\ waiting = {}
    /\ held = [x \in Runs |-> NoRequest]
    /\ built = [r \in Placed |-> {}]
    /\ recorded = [r \in Placed |-> {}]

Ask(r) ==
    /\ r \notin asked
    /\ asked' = asked \cup {r}
    /\ waiting' = waiting \cup {r}
    /\ UNCHANGED <<held, built, recorded>>

Take(x, r) ==
    /\ held[x] = NoRequest
    /\ r \in waiting
    /\ waiting' = waiting \ {r}
    /\ held' = [held EXCEPT ![x] = r]
    /\ UNCHANGED <<asked, built, recorded>>

\* A restart takes all the messages of a queue along.
Lose(lost) ==
    /\ waiting' = waiting \ lost
    /\ UNCHANGED <<asked, held, built, recorded>>

\* The group of an Azure request, or instances that were asked for.
Build(x, k) ==
    /\ held[x] \in Placed
    /\ k \in Wanted[held[x]] \cup {"rg"}
    /\ built' = [built EXCEPT ![held[x]] = @ \cup {k}]
    /\ UNCHANGED <<asked, waiting, held, recorded>>

Record(x, k) ==
    /\ held[x] \in Placed
    /\ k \in built[held[x]] \cap Wanted[held[x]]
    /\ recorded' = [recorded EXCEPT ![held[x]] = @ \cup {k}]
    /\ UNCHANGED <<asked, waiting, held, built>>

LedgerNext ==
    \/ \E r \in Requests : Ask(r) \/ \E x \in Runs : Take(x, r)
    \/ \E lost \in SUBSET waiting : Lose(lost)
    \/ \E x \in Runs, k \in Kinds \cup {"rg"} : Build(x, k) \/ Record(x, k)

LedgerSpec == LedgerInit /\ [][LedgerNext]_ledgerVars

-----------------------------------------------------------------------------
Nowhere(r) == r \notin waiting /\ \A x \in Runs : held[x] # r

LostStayLost == \A r \in asked : Nowhere(r) => Nowhere(r)'

\* A request whose message was lost is never sent or taken again: neither a
\* second approval nor a retry brings it back.
LossIsFinal == [][LostStayLost]_ledgerVars
=============================================================================

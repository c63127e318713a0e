----------------------------- MODULE NameLedger -----------------------------
(***************************************************************************)
(* What request creation promises, without its tables or its awaits: a     *)
(* repository name is held by at most one create call, only the holder of  *)
(* a name can publish the request for it, withdrawing a published request  *)
(* does not give the name back, and freeing a name withdraws its request.  *)
(***************************************************************************)
CONSTANTS Calls, Names

VARIABLES
    ledger,             \* pairs <<name, call>>: call holds name
    published           \* calls whose request can be seen

ledgerVars == <<ledger, published>>

LedgerTypeOK ==
    /\ ledger \in SUBSET (Names \X Calls)
    /\ published \in SUBSET Calls

LedgerInit ==
    /\ ledger = {}
    /\ published = {}

Holds(c) == \E n \in Names : <<n, c>> \in ledger

Take(n, c) ==
    /\ \A d \in Calls : <<n, d>> \notin ledger
    /\ ~Holds(c)
    /\ ledger' = ledger \cup {<<n, c>>}
    /\ UNCHANGED published

Publish(c) ==
    /\ Holds(c)
    /\ c \notin published
    /\ published' = published \cup {c}
    /\ UNCHANGED ledger

Withdraw(c) ==
    /\ c \in published
    /\ published' = published \ {c}
    /\ UNCHANGED ledger

Free(n, c) ==
    /\ <<n, c>> \in ledger
    /\ ledger' = ledger \ {<<n, c>>}
    /\ published' = published \ {c}

LedgerNext ==
    \E c \in Calls :
        \/ Publish(c)
        \/ Withdraw(c)
        \/ \E n \in Names : Take(n, c) \/ Free(n, c)

LedgerSpec == LedgerInit /\ [][LedgerNext]_ledgerVars

-----------------------------------------------------------------------------
\* A name has one holder and a call one name.
Exclusive ==
    \A p, q \in ledger : p[1] = q[1] \/ p[2] = q[2] => p = q

\* A published request stands on a name its call still holds.
PublishedHold == \A c \in published : Holds(c)
=============================================================================

------------------------------ MODULE Settings ------------------------------
(***************************************************************************)
(* What sessions change besides requests: the policies, one table for each *)
(* cloud and kind of resource, and each user's cloud secrets.  Every       *)
(* handler is a test of the token and one statement.                       *)
(***************************************************************************)
EXTENDS Session, Sequences

CONSTANTS
    AzurePolicies, AwsPolicies,     \* the policy tables
    Values,                         \* what a policy row may say
    Secrets,                        \* rows of CloudResourceSecret
    MaxRows                         \* rows of an Azure policy table (a bound)

ASSUME SettingsAssumption ==
    /\ AzurePolicies \cap AwsPolicies = {}
    /\ Values # {} /\ Nothing \notin Values
    /\ MaxRows \in Nat \ {0}

Policies == AzurePolicies \cup AwsPolicies

VARIABLES
    policy,             \* the rows of a policy table
    secret,             \* whose a secret is, or Nothing where there is no row
    stored,             \* history: what an update stored, until a row is added
    writer              \* history: the id in the token that wrote a secret last

settings == <<policy, secret, stored, writer>>
allVars == <<vars, settings>>

SettingsTypeOK ==
    /\ policy \in [Policies -> Seq(Values)]
    /\ secret \in [Secrets -> Users \cup {Nothing}]
    /\ stored \in [Policies -> Values \cup {Nothing}]
    /\ writer \in [Secrets -> 0..MaxUsers \cup {Nothing}]

\* Every table is seeded with one row.
SettingsInit ==
    /\ \E v \in Values : policy = [p \in Policies |-> <<v>>]
    /\ secret = [s \in Secrets |-> Nothing]
    /\ stored = [p \in Policies |-> Nothing]
    /\ writer = [s \in Secrets |-> Nothing]

----------------------------------------------------------------------------
(* /azure-policy and /aws-policy *)

\* Mutant: any session will do.
AdminsAnyone(b) == access[b] # Nothing

Admins(b) == access[b] # Nothing /\ access[b].role = "Admin"

\* POST /azure-policy/...: one more row, whatever is there.
CreatePolicy(b, p, v) ==
    /\ Admins(b)
    /\ Len(policy[p]) < MaxRows
    /\ policy' = [policy EXCEPT ![p] = Append(@, v)]
    /\ stored' = [stored EXCEPT ![p] = Nothing]
    /\ UNCHANGED <<vars, secret, writer>>

\* Mutant: only the row that getPolicy happened to return.
AllRowsFirst(p, v) == [policy[p] EXCEPT ![1] = v]

\* updateMany without a where: all rows at once.
AllRows(p, v) == [i \in DOMAIN policy[p] |-> v]

UpdatePolicy(b, p, v) ==
    /\ Admins(b)
    /\ policy' = [policy EXCEPT ![p] = AllRows(p, v)]
    /\ stored' = [stored EXCEPT ![p] = v]
    /\ UNCHANGED <<vars, secret, writer>>

\* PATCH /azure-policy/... and PATCH /aws-policy/...
UpdateAzurePolicy(b, p, v) == p \in AzurePolicies /\ UpdatePolicy(b, p, v)
UpdateAwsPolicy(b, p, v) == p \in AwsPolicies /\ UpdatePolicy(b, p, v)

\* findFirst without an order may return any row.
AnyRow(p) == {policy[p][i] : i \in DOMAIN policy[p]}

\* GET /azure-policy/... and GET /aws-policy/..., which look for a cookie only.
GetAzurePolicy(p) == IF p \in AzurePolicies THEN AnyRow(p) ELSE {}
GetAwsPolicy(p) == IF p \in AwsPolicies THEN AnyRow(p) ELSE {}

----------------------------------------------------------------------------
(* /cloud *)

\* POST /cloud/secret; a token without an id has no user to connect.
CreateSecret(b, s) ==
    /\ access[b] # Nothing /\ access[b].id # 0
    /\ secret[s] = Nothing
    /\ secret' = [secret EXCEPT ![s] = access[b].id]
    /\ writer' = [writer EXCEPT ![s] = access[b].id]
    /\ UNCHANGED <<vars, policy, stored>>

\* Mutant: where: { id }
SelectsById(b, s) ==
    /\ access[b] # Nothing /\ access[b].role \in Staff
    /\ secret[s] # Nothing

\* where: { id, userId }
Selects(b, s) ==
    /\ access[b] # Nothing /\ access[b].role \in Staff
    /\ secret[s] # Nothing
    /\ access[b].id \in {0, secret[s]}

\* GET /cloud: any secret of the user's.
GetSecret(b) ==
    IF access[b] = Nothing THEN {}
    ELSE {s \in Secrets : secret[s] # Nothing /\ access[b].id \in {0, secret[s]}}

\* PATCH /cloud/:id.  The body is spread into the row, and nothing takes a userId
\* out of it: the update may hand the secret over to another user.
UpdateSecret(b, s) ==
    /\ Selects(b, s)
    /\ \E u \in {secret[s]} \cup 1..lastUser : secret' = [secret EXCEPT ![s] = u]
    /\ writer' = [writer EXCEPT ![s] = access[b].id]
    /\ UNCHANGED <<vars, policy, stored>>

\* DELETE /cloud/:id
DeleteSecret(b, s) ==
    /\ Selects(b, s)
    /\ secret' = [secret EXCEPT ![s] = Nothing]
    /\ writer' = [writer EXCEPT ![s] = Nothing]
    /\ UNCHANGED <<vars, policy, stored>>

----------------------------------------------------------------------------
SettingsNext ==
    \E b \in Browsers :
        \/ \E p \in AzurePolicies, v \in Values : CreatePolicy(b, p, v)
        \/ \E p \in Policies, v \in Values : UpdateAzurePolicy(b, p, v) \/ UpdateAwsPolicy(b, p, v)
        \/ \E s \in Secrets : CreateSecret(b, s) \/ UpdateSecret(b, s) \/ DeleteSecret(b, s)

AllInit == Init /\ SettingsInit
AllNext == (Next /\ UNCHANGED settings) \/ SettingsNext
AllSpec == AllInit /\ [][AllNext]_allVars

----------------------------------------------------------------------------
(* Properties. *)

\* What an Admin stored is what everyone gets, whichever row the query returns,
\* until another row is created.
UpdatesAreRead ==
    \A p \in Policies : stored[p] # Nothing => GetAzurePolicy(p) \cup GetAwsPolicy(p) = {stored[p]}

\* A secret is rewritten, handed over to another user or deleted only by a
\* session of the user who has it, or of the test login; and the session is of
\* the staff, or of a user who was when its token was signed, an hour ago at most.
SecretsOwn ==
    [][\A s \in Secrets :
        secret[s] # Nothing /\ (secret'[s] # secret[s] \/ writer'[s] # writer[s]) =>
            \E b \in Browsers :
                /\ access[b] # Nothing
                /\ b \notin crossed => who[b] \in {0, secret[s]}
                /\ LET t == access[b] IN
                   t.id = 0 \/ user[t.id].role \in Staff \/ since[t.id] <= t.age]_allVars

\* A policy is changed by a session of the test login, of an Admin, or of a
\* user who was one when the session's token was signed, an hour ago at most.
DemotedAdminsStop ==
    [][\A p \in Policies : policy[p] # policy'[p] =>
        \E b \in Browsers :
            /\ access[b] # Nothing
            /\ LET t == access[b] IN
               t.id = 0 \/ user[t.id].role = "Admin" \/ since[t.id] <= t.age]_allVars
=============================================================================

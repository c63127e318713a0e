------------------------------- MODULE Session -------------------------------
(***************************************************************************)
(* Users, and the two cookies a browser holds.  The access token carries   *)
(* what its user was when it was signed, and the handlers ask the token,   *)
(* never the table.  A refresh (POST /auth/refresh) signs a token from the *)
(* refresh token, which knows an id and nothing else.                      *)
(***************************************************************************)
EXTENDS Naturals

CONSTANTS
    Emails, Browsers, Requests,
    Nothing,            \* no cookie, no e-mail, nobody
    Lifetime,           \* ticks an access token is valid: the code's 1h
    RefreshLifetime,    \* ticks a refresh token is valid: the code's 7d
    MaxUsers            \* users ever made (a bound)

ASSUME SessionAssumption ==
    /\ Lifetime \in Nat \ {0}
    /\ RefreshLifetime \in Nat \ {0}
    /\ MaxUsers \in Nat
    /\ Nothing \notin Emails \cup Nat

Roles == {"Admin", "IT", "Developer"}
Users == 1..MaxUsers

\* The payload: id 0 is the test login's, which signs no id; a role of "none"
\* is a token signed without one.
Tokens == [id : 0..MaxUsers, role : Roles \cup {"none"}, age : 0..(Lifetime - 1)]
RefreshTokens == [id : 0..MaxUsers, age : 0..(RefreshLifetime - 1)]

VARIABLES
    user,               \* the User table
    lastUser,
    owner,              \* ownerId of a request, 0 where there is no request
    access, refresh,    \* the cookies of a browser
    login,              \* the e-mail a callback found no user for
    pending,            \* an access token on its way to a browser
    since,              \* history: ticks since a role was last stored
    who,                \* history: who signed in last
    crossed             \* history: browsers whose session changed under a refresh

cookies == <<access, refresh, pending>>
table == <<user, lastUser>>
vars == <<table, owner, cookies, login, since, who, crossed>>

TypeOK ==
    /\ user \in [Users -> [email : Emails \cup {Nothing}, role : Roles]]
    /\ lastUser \in 0..MaxUsers
    /\ owner \in [Requests -> 0..MaxUsers]
    /\ access \in [Browsers -> Tokens \cup {Nothing}]
    /\ refresh \in [Browsers -> RefreshTokens \cup {Nothing}]
    /\ login \in [Browsers -> Emails \cup {Nothing}]
    /\ pending \in [Browsers -> Tokens \cup {Nothing}]
    /\ since \in [Users -> 0..Lifetime]
    /\ who \in [Browsers -> 0..MaxUsers \cup {Nothing}]
    /\ crossed \in SUBSET Browsers

Init ==
    /\ user = [u \in Users |-> [email |-> Nothing, role |-> "Developer"]]
    /\ lastUser = 0
    /\ owner = [x \in Requests |-> 0]
    /\ access = [b \in Browsers |-> Nothing]
    /\ refresh = [b \in Browsers |-> Nothing]
    /\ login = [b \in Browsers |-> Nothing]
    /\ pending = [b \in Browsers |-> Nothing]
    /\ since = [u \in Users |-> Lifetime]
    /\ who = [b \in Browsers |-> Nothing]
    /\ crossed = {}

HasEmail(e) == {u \in 1..lastUser : user[u].email = e}

\* Mutant: no unique index.
AddUserUnindexed(e, role) ==
    /\ lastUser < MaxUsers
    /\ lastUser' = lastUser + 1
    /\ user' = [user EXCEPT ![lastUser'] = [email |-> e, role |-> role]]
    /\ since' = [since EXCEPT ![lastUser'] = 0]

\* The e-mail is unique; an id is never used again.
AddUser(e, role) ==
    /\ lastUser < MaxUsers /\ HasEmail(e) = {}
    /\ lastUser' = lastUser + 1
    /\ user' = [user EXCEPT ![lastUser'] = [email |-> e, role |-> role]]
    /\ since' = [since EXCEPT ![lastUser'] = 0]

\* Whose session a browser is in from now on.
Becomes(b, whom) ==
    /\ who' = [who EXCEPT ![b] = whom]
    /\ crossed' = IF pending[b] = Nothing THEN crossed \ {b} ELSE crossed \cup {b}

----------------------------------------------------------------------------
(* /auth *)

\* GET /auth/test-login
TestLogin(b) ==
    /\ access' = [access EXCEPT ![b] = [id |-> 0, role |-> "Admin", age |-> 0]]
    /\ refresh' = [refresh EXCEPT ![b] = [id |-> 0, age |-> 0]]
    /\ Becomes(b, 0)
    /\ UNCHANGED <<table, owner, pending, login, since>>

\* GET /auth/azure/callback signs the row it was given by validate.
SignIn(b, u, row) ==
    /\ access' = [access EXCEPT ![b] = [id |-> u, role |-> row.role, age |-> 0]]
    /\ refresh' = [refresh EXCEPT ![b] = [id |-> u, age |-> 0]]
    /\ Becomes(b, u)

\* validate: the row is looked up by e-mail, then made if there was none.
Login(b, e) ==
    /\ login[b] = Nothing
    /\ \/ /\ \E u \in HasEmail(e) : SignIn(b, u, user[u])
          /\ UNCHANGED login
       \/ /\ HasEmail(e) = {}
          /\ login' = [login EXCEPT ![b] = e]
          /\ UNCHANGED <<access, refresh, who, crossed>>
    /\ UNCHANGED <<table, owner, pending, since>>

\* When the e-mail has been taken since, the create throws and nobody is logged in.
FirstLogin(b) ==
    /\ login[b] # Nothing
    /\ login' = [login EXCEPT ![b] = Nothing]
    /\ \/ /\ AddUser(login[b], "Developer")
          /\ SignIn(b, lastUser', user'[lastUser'])
       \/ /\ HasEmail(login[b]) # {}
          /\ UNCHANGED <<table, since, access, refresh, who, crossed>>
    /\ UNCHANGED <<owner, pending>>

\* Mutant: the role is taken over from the old access token.
RefreshWithRole(b) ==
    /\ refresh[b] # Nothing /\ access[b] # Nothing /\ pending[b] = Nothing
    /\ pending' = [pending EXCEPT ![b] = [access[b] EXCEPT !.age = 0]]
    /\ UNCHANGED <<table, owner, access, refresh, login, since, who, crossed>>

\* Mutant: the new token is signed with a subject and no id.
RefreshWithoutId(b) ==
    /\ refresh[b] # Nothing /\ pending[b] = Nothing
    /\ pending' = [pending EXCEPT ![b] = [id |-> 0, role |-> "none", age |-> 0]]
    /\ UNCHANGED <<table, owner, access, refresh, login, since, who, crossed>>

\* POST /auth/refresh, up to the signature
Refresh(b) ==
    /\ refresh[b] # Nothing /\ pending[b] = Nothing
    /\ pending' = [pending EXCEPT ![b] = [id |-> refresh[b].id, role |-> "none", age |-> 0]]
    /\ UNCHANGED <<table, owner, access, refresh, login, since, who, crossed>>

\* The answer reaches the browser, which stores the cookie, or is lost.
RefreshAnswer(b) ==
    /\ pending[b] # Nothing
    /\ \/ access' = [access EXCEPT ![b] = pending[b]]
       \/ UNCHANGED access
    /\ pending' = [pending EXCEPT ![b] = Nothing]
    /\ UNCHANGED <<table, owner, refresh, login, since, who, crossed>>

\* Mutant: the refresh token is left.
LogoutAccessOnly(b) ==
    /\ access' = [access EXCEPT ![b] = Nothing]
    /\ Becomes(b, Nothing)
    /\ UNCHANGED <<table, owner, refresh, pending, login, since>>

\* POST /auth/logout
Logout(b) ==
    /\ access' = [access EXCEPT ![b] = Nothing]
    /\ refresh' = [refresh EXCEPT ![b] = Nothing]
    /\ Becomes(b, Nothing)
    /\ UNCHANGED <<table, owner, pending, login, since>>

----------------------------------------------------------------------------
(* /user *)

\* POST /user; a taken e-mail is a conflict and changes nothing.
CreateUser(e, role) ==
    /\ AddUser(e, role)
    /\ UNCHANGED <<owner, cookies, login, who, crossed>>

Staff == {"Admin", "IT"}

\* GET /user/me looks up the e-mail in the token, which only a callback signs.
Me(t) == IF t.id = 0 \/ t.role = "none" THEN {} ELSE {t.id}

\* PATCH /user/role
UpdateRole(b, u, role) ==
    /\ access[b] # Nothing /\ access[b].role \in Staff
    /\ u \in 1..lastUser
    /\ user' = [user EXCEPT ![u].role = role]
    /\ since' = [since EXCEPT ![u] = 0]
    /\ UNCHANGED <<lastUser, owner, cookies, login, who, crossed>>

----------------------------------------------------------------------------
(* /request *)

\* POST /request/azure or /aws, answered: the owner is the id in the token.
CreateRequest(b, x) ==
    /\ access[b] # Nothing /\ access[b].id # 0
    /\ owner[x] = 0
    /\ owner' = [owner EXCEPT ![x] = access[b].id]
    /\ UNCHANGED <<table, cookies, login, since, who, crossed>>

RemoveRequest(x) ==
    /\ owner[x] # 0
    /\ owner' = [owner EXCEPT ![x] = 0]
    /\ UNCHANGED <<table, cookies, login, since, who, crossed>>

\* The where clause of every read: staff see all; a filter on an id that the
\* token does not have is no filter.
Visible(t, x) == owner[x] # 0 /\ (t.role \in Staff \/ t.id \in {0, owner[x]})

\* The services: requests, one of them by its (unique) display code, the
\* repositories of visible requests, the resources joined with theirs.
ListedRequests(t) == {x \in Requests : Visible(t, x)}
FoundByDisplayCode(t, x) == ListedRequests(t) \cap {x}
ListedRepositories(t) == {x \in ListedRequests(t) : owner[x] # 0}
ListedResources(t) == {x \in Requests : Visible(t, x)}

\* Their handlers: GET /request, /request/displayCode, /repositories, /resource.
FindAllRequests(b) == IF access[b] = Nothing THEN {} ELSE ListedRequests(access[b])
FindByDisplayCode(b, x) == IF access[b] = Nothing THEN {} ELSE FoundByDisplayCode(access[b], x)
FindAllRepositories(b) == IF access[b] = Nothing THEN {} ELSE ListedRepositories(access[b])
FindAllResources(b) == IF access[b] = Nothing THEN {} ELSE ListedResources(access[b])

----------------------------------------------------------------------------
(* A tick: every token is older, and gone when its time is up. *)

\* Mutant: a token is good for one tick too many.
OlderLate(cookie, lifetime) ==
    [b \in Browsers |->
        IF cookie[b] = Nothing \/ cookie[b].age = lifetime THEN Nothing
        ELSE [cookie[b] EXCEPT !.age = @ + 1]]

Older(cookie, lifetime) ==
    [b \in Browsers |->
        IF cookie[b] = Nothing \/ cookie[b].age + 1 = lifetime THEN Nothing
        ELSE [cookie[b] EXCEPT !.age = @ + 1]]

Tick ==
    /\ access' = Older(access, Lifetime)
    /\ pending' = Older(pending, Lifetime)
    /\ refresh' = Older(refresh, RefreshLifetime)
    /\ since' = [u \in Users |-> IF since[u] < Lifetime THEN since[u] + 1 ELSE Lifetime]
    /\ UNCHANGED <<table, owner, login, who, crossed>>

Next ==
    \/ Tick
    \/ \E b \in Browsers :
        \/ TestLogin(b) \/ FirstLogin(b) \/ Refresh(b) \/ RefreshAnswer(b) \/ Logout(b)
        \/ \E e \in Emails : Login(b, e)
        \/ \E u \in Users, role \in Roles : UpdateRole(b, u, role)
        \/ \E x \in Requests : CreateRequest(b, x)
    \/ \E e \in Emails, role \in Roles : CreateUser(e, role)
    \/ \E x \in Requests : RemoveRequest(x)

Spec == Init /\ [][Next]_vars

----------------------------------------------------------------------------
(* Properties. *)

\* One row per e-mail, however many first logins and POST /user run at once.
OneUserPerEmail ==
    \A u, v \in 1..lastUser : user[u].email = user[v].email => u = v

\* A token's role differs from its user's only when it was signed before the
\* role was stored: an hour after a change every session has the new role, or
\* none at all.
DemotionBites ==
    \A b \in Browsers :
        access[b] # Nothing /\ access[b].id # 0 /\ access[b].role # "none"
            => \/ access[b].role = user[access[b].id].role
               \/ since[access[b].id] <= access[b].age

\* A browser's two cookies are of the user who signed in last, as is what
\* /user/me finds, and after a logout there are none, unless the answer to a
\* refresh was under way.
SessionIsOneUser ==
    \A b \in Browsers \ crossed :
        /\ access[b] # Nothing => access[b].id = who[b] /\ Me(access[b]) \subseteq {who[b]}
        /\ refresh[b] # Nothing => refresh[b].id = who[b]

\* A session without a staff role lists the requests of its user, those that
\* another session of the same user made included, and no others; with them
\* their repositories and resources.
OwnListing ==
    \A b \in Browsers \ crossed :
        access[b] # Nothing /\ access[b].role \notin Staff /\ who[b] # 0 =>
            LET own == {x \in Requests : owner[x] = who[b]} IN
            /\ FindAllRequests(b) = own
            /\ FindAllRepositories(b) = own
            /\ FindAllResources(b) = own
            /\ \A x \in Requests : FindByDisplayCode(b, x) = own \cap {x}
=============================================================================

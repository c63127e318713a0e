--------------------------- MODULE SessionProofs ---------------------------
(***************************************************************************)
(* What Session's properties rest on: ids are never used again, so nobody  *)
(* holds a token of a user to come; a token on its way has no role, and    *)
(* is of the user whose session asked for it.                              *)
(***************************************************************************)
EXTENDS Session, TLAPS

USE SessionAssumption

\* Every id that is held anywhere is a row's, or the test login's 0.
KnownIds ==
    /\ \A b \in Browsers :
        /\ access[b] # Nothing => access[b].id <= lastUser
        /\ refresh[b] # Nothing => refresh[b].id <= lastUser
        /\ pending[b] # Nothing => pending[b].id <= lastUser
        /\ who[b] # Nothing => who[b] <= lastUser
    /\ \A x \in Requests : owner[x] <= lastUser

PendingHasNoRole == \A b \in Browsers : pending[b] # Nothing => pending[b].role = "none"

PendingIsOwn ==
    \A b \in Browsers \ crossed : pending[b] # Nothing => pending[b].id = who[b]

IInv ==
    /\ TypeOK
    /\ KnownIds
    /\ PendingHasNoRole
    /\ PendingIsOwn
    /\ OneUserPerEmail
    /\ DemotionBites
    /\ SessionIsOneUser

----------------------------------------------------------------------------
LEMMA InitHolds == Init => IInv
  BY DEF Init, IInv, TypeOK, KnownIds, PendingHasNoRole, PendingIsOwn, OneUserPerEmail,
         DemotionBites, SessionIsOneUser, Users, Tokens, RefreshTokens, Roles

\* The tokens that the handlers sign are tokens.
LEMMA Signed ==
  ASSUME TypeOK, NEW id \in 0..MaxUsers, NEW role \in Roles \cup {"none"}
  PROVE  /\ [id |-> id, role |-> role, age |-> 0] \in Tokens
         /\ [id |-> id, age |-> 0] \in RefreshTokens
  BY DEF Tokens, RefreshTokens

\* A cookie that has not run out is one tick older.
LEMMA OlderType ==
  ASSUME NEW lifetime \in Nat, NEW T, NEW cookie \in [Browsers -> T \cup {Nothing}],
         \A t \in T : t.age \in 0..(lifetime - 1),
         \A t \in T : \A n \in 0..(lifetime - 1) : [t EXCEPT !.age = n] \in T
  PROVE  /\ Older(cookie, lifetime) \in [Browsers -> T \cup {Nothing}]
         /\ \A b \in Browsers : Older(cookie, lifetime)[b] # Nothing =>
                /\ cookie[b] # Nothing
                /\ Older(cookie, lifetime)[b] = [cookie[b] EXCEPT !.age = cookie[b].age + 1]
  <1>1. ASSUME NEW b \in Browsers, cookie[b] # Nothing, cookie[b].age + 1 # lifetime
        PROVE  [cookie[b] EXCEPT !.age = cookie[b].age + 1] \in T
    <2>1. cookie[b] \in T
      BY <1>1
    <2>2. cookie[b].age + 1 \in 0..(lifetime - 1)
      BY <1>1, <2>1
    <2> QED
      BY <2>1, <2>2
  <1> QED
    BY <1>1 DEF Older

LEMMA SignInType ==
  ASSUME TypeOK, NEW b \in Browsers, NEW u \in 0..MaxUsers, NEW row, row.role \in Roles,
         SignIn(b, u, row)
  PROVE  /\ access' \in [Browsers -> Tokens \cup {Nothing}]
         /\ refresh' \in [Browsers -> RefreshTokens \cup {Nothing}]
         /\ who' \in [Browsers -> 0..MaxUsers \cup {Nothing}]
         /\ crossed' \in SUBSET Browsers
  <1>1. /\ [id |-> u, role |-> row.role, age |-> 0] \in Tokens
        /\ [id |-> u, age |-> 0] \in RefreshTokens
    BY Signed
  <1> QED
    BY <1>1 DEF TypeOK, SignIn, Becomes

LEMMA TypeStep == TypeOK /\ [Next]_vars => TypeOK'
  <1> SUFFICES ASSUME TypeOK, [Next]_vars PROVE TypeOK'
    OBVIOUS
  <1> USE DEF TypeOK
  <1>1. CASE Tick
    <2>1. access' \in [Browsers -> Tokens \cup {Nothing}]
      BY <1>1, OlderType DEF Tick, Tokens
    <2>2. pending' \in [Browsers -> Tokens \cup {Nothing}]
      BY <1>1, OlderType DEF Tick, Tokens
    <2>3. refresh' \in [Browsers -> RefreshTokens \cup {Nothing}]
      BY <1>1, OlderType DEF Tick, RefreshTokens
    <2> QED
      BY <1>1, <2>1, <2>2, <2>3 DEF Tick, table
  <1>2. ASSUME NEW b \in Browsers, TestLogin(b) PROVE TypeOK'
    <2>1. /\ [id |-> 0, role |-> "Admin", age |-> 0] \in Tokens
          /\ [id |-> 0, age |-> 0] \in RefreshTokens
      BY Signed, "Admin" \in Roles, 0 \in 0..MaxUsers DEF Roles
    <2> QED
      BY <1>2, <2>1 DEF TestLogin, Becomes, table
  <1>3. ASSUME NEW b \in Browsers, FirstLogin(b) PROVE TypeOK'
    <2>1. login' \in [Browsers -> Emails \cup {Nothing}] /\ UNCHANGED <<owner, pending>>
      BY <1>3 DEF FirstLogin
    <2>2. CASE /\ AddUser(login[b], "Developer")
               /\ SignIn(b, lastUser', user'[lastUser'])
      <3>1. /\ user' \in [Users -> [email : Emails \cup {Nothing}, role : Roles]]
            /\ lastUser' \in Users
            /\ since' \in [Users -> 0..Lifetime]
        BY <2>2 DEF AddUser, Users, Roles
      <3>2. user'[lastUser'].role \in Roles
        BY <3>1
      <3> HIDE DEF TypeOK
      <3>3. /\ access' \in [Browsers -> Tokens \cup {Nothing}]
            /\ refresh' \in [Browsers -> RefreshTokens \cup {Nothing}]
            /\ who' \in [Browsers -> 0..MaxUsers \cup {Nothing}]
            /\ crossed' \in SUBSET Browsers
        BY <2>2, <3>1, <3>2, SignInType DEF Users
      <3> QED
        BY <2>1, <3>1, <3>3 DEF TypeOK, Users
    <2>3. CASE UNCHANGED <<table, since, access, refresh, who, crossed>>
      BY <2>1, <2>3 DEF table
    <2> QED
      BY <1>3, <2>2, <2>3 DEF FirstLogin
  <1>4. ASSUME NEW b \in Browsers, Refresh(b) PROVE TypeOK'
    BY <1>4, Signed DEF Refresh, RefreshTokens, table
  <1>5. ASSUME NEW b \in Browsers, RefreshAnswer(b) PROVE TypeOK'
    BY <1>5 DEF RefreshAnswer, table
  <1>6. ASSUME NEW b \in Browsers, Logout(b) PROVE TypeOK'
    BY <1>6 DEF Logout, Becomes, table
  <1>7. ASSUME NEW b \in Browsers, NEW e \in Emails, Login(b, e) PROVE TypeOK'
    <2>1. UNCHANGED <<user, lastUser, owner, pending, since>>
      BY <1>7 DEF Login, table
    <2>2. ASSUME NEW u \in HasEmail(e), SignIn(b, u, user[u]), UNCHANGED login
          PROVE  TypeOK'
      <3>1. u \in 0..MaxUsers /\ user[u].role \in Roles
        BY DEF HasEmail, Users
      <3> HIDE DEF TypeOK
      <3>2. /\ access' \in [Browsers -> Tokens \cup {Nothing}]
            /\ refresh' \in [Browsers -> RefreshTokens \cup {Nothing}]
            /\ who' \in [Browsers -> 0..MaxUsers \cup {Nothing}]
            /\ crossed' \in SUBSET Browsers
        BY <2>2, <3>1, SignInType
      <3> QED
        BY <2>1, <2>2, <3>2 DEF TypeOK
    <2>3. CASE /\ login' = [login EXCEPT ![b] = e]
               /\ UNCHANGED <<access, refresh, who, crossed>>
      BY <2>1, <2>3
    <2> QED
      BY <1>7, <2>2, <2>3 DEF Login
  <1>8. ASSUME NEW b \in Browsers, NEW u \in Users, NEW role \in Roles, UpdateRole(b, u, role)
        PROVE  TypeOK'
    BY <1>8 DEF UpdateRole, cookies
  <1>9. ASSUME NEW b \in Browsers, NEW x \in Requests, CreateRequest(b, x) PROVE TypeOK'
    BY <1>9 DEF CreateRequest, cookies, table, Tokens
  <1>10. ASSUME NEW e \in Emails, NEW role \in Roles, CreateUser(e, role) PROVE TypeOK'
    BY <1>10 DEF CreateUser, AddUser, cookies, Users
  <1>11. ASSUME NEW x \in Requests, RemoveRequest(x) PROVE TypeOK'
    BY <1>11 DEF RemoveRequest, cookies, table
  <1>12. CASE UNCHANGED vars
    BY <1>12 DEF vars, cookies, table
  <1> QED
    BY <1>1, <1>2, <1>3, <1>4, <1>5, <1>6, <1>7, <1>8, <1>9, <1>10, <1>11, <1>12 DEF Next

\* A row is added under an e-mail that no row has.
LEMMA AddUserKeeps ==
  ASSUME TypeOK, OneUserPerEmail, NEW e \in Emails, NEW role \in Roles, AddUser(e, role)
  PROVE  OneUserPerEmail'
  <1>1. lastUser' = lastUser + 1 /\ lastUser + 1 \in Users /\ lastUser \in Nat
    BY DEF TypeOK, AddUser, Users
  <1>2. user'[lastUser + 1].email = e
    BY <1>1 DEF TypeOK, AddUser
  <1>3. \A u \in 1..lastUser : user'[u] = user[u] /\ user[u].email # e
    <2>1. \A u \in 1..lastUser : u \in Users /\ u # lastUser + 1
      BY <1>1 DEF Users, TypeOK
    <2>2. \A u \in 1..lastUser : user'[u] = user[u]
      BY <1>1, <2>1 DEF TypeOK, AddUser
    <2>3. \A u \in 1..lastUser : user[u].email # e
      BY DEF AddUser, HasEmail
    <2> QED
      BY <2>2, <2>3
  <1>4. \A u \in 1..(lastUser') : u = lastUser + 1 \/ u \in 1..lastUser
    BY <1>1
  <1>5. ASSUME NEW u \in 1..(lastUser'), NEW v \in 1..(lastUser'),
               user'[u].email = user'[v].email
        PROVE  u = v
    <2>1. CASE u \in 1..lastUser /\ v \in 1..lastUser
      BY <1>3, <1>5, <2>1 DEF OneUserPerEmail
    <2>2. CASE u = lastUser + 1 \/ v = lastUser + 1
      BY <1>2, <1>3, <1>4, <1>5, <2>2
    <2> QED
      BY <1>4, <2>1, <2>2
  <1> QED
    BY <1>5 DEF OneUserPerEmail

LEMMA OneUserStep == TypeOK /\ OneUserPerEmail /\ [Next]_vars => OneUserPerEmail'
  <1> SUFFICES ASSUME TypeOK, OneUserPerEmail, [Next]_vars PROVE OneUserPerEmail'
    OBVIOUS
  <1> USE DEF TypeOK, OneUserPerEmail, Users
  <1>1. CASE Tick
    BY <1>1 DEF Tick, table
  <1>2. ASSUME NEW b \in Browsers, TestLogin(b) PROVE OneUserPerEmail'
    BY <1>2 DEF TestLogin, table
  <1>3. ASSUME NEW b \in Browsers, FirstLogin(b) PROVE OneUserPerEmail'
    <2>1. login[b] \in Emails /\ "Developer" \in Roles
      BY <1>3 DEF FirstLogin, Roles
    <2> HIDE DEF TypeOK, OneUserPerEmail
    <2>2. CASE AddUser(login[b], "Developer")
      BY <2>1, <2>2, AddUserKeeps
    <2>3. CASE UNCHANGED table
      BY <2>3 DEF table, OneUserPerEmail
    <2> QED
      BY <1>3, <2>2, <2>3 DEF FirstLogin
  <1>4. ASSUME NEW b \in Browsers, Refresh(b) PROVE OneUserPerEmail'
    BY <1>4 DEF Refresh, table
  <1>5. ASSUME NEW b \in Browsers, RefreshAnswer(b) PROVE OneUserPerEmail'
    BY <1>5 DEF RefreshAnswer, table
  <1>6. ASSUME NEW b \in Browsers, Logout(b) PROVE OneUserPerEmail'
    BY <1>6 DEF Logout, table
  <1>7. ASSUME NEW b \in Browsers, NEW e \in Emails, Login(b, e) PROVE OneUserPerEmail'
    BY <1>7 DEF Login, table
  <1>8. ASSUME NEW b \in Browsers, NEW u \in Users, NEW role \in Roles, UpdateRole(b, u, role)
        PROVE  OneUserPerEmail'
    BY <1>8 DEF UpdateRole
  <1>9. ASSUME NEW b \in Browsers, NEW x \in Requests, CreateRequest(b, x)
        PROVE  OneUserPerEmail'
    BY <1>9 DEF CreateRequest, table
  <1>10. ASSUME NEW e \in Emails, NEW role \in Roles, CreateUser(e, role)
        PROVE  OneUserPerEmail'
    <2> HIDE DEF TypeOK, OneUserPerEmail
    <2> QED
      BY <1>10, AddUserKeeps DEF CreateUser
  <1>11. ASSUME NEW x \in Requests, RemoveRequest(x) PROVE OneUserPerEmail'
    BY <1>11 DEF RemoveRequest, table
  <1>12. CASE UNCHANGED vars
    BY <1>12 DEF vars, table
  <1> QED
    BY <1>1, <1>2, <1>3, <1>4, <1>5, <1>6, <1>7, <1>8, <1>9, <1>10, <1>11, <1>12 DEF Next

\* Ids only grow, and are copied from rows and from cookies.
LEMMA KnownStep == TypeOK /\ KnownIds /\ [Next]_vars => KnownIds'
  <1> SUFFICES ASSUME TypeOK, KnownIds, [Next]_vars PROVE KnownIds'
    OBVIOUS
  <1> USE DEF TypeOK, KnownIds, Tokens, RefreshTokens
  <1>1. CASE Tick
    <2>1. \A b \in Browsers : access'[b] # Nothing => access[b] # Nothing /\ access'[b].id = access[b].id
      BY <1>1 DEF Tick, Older
    <2>2. \A b \in Browsers : pending'[b] # Nothing => pending[b] # Nothing /\ pending'[b].id = pending[b].id
      BY <1>1 DEF Tick, Older
    <2>3. \A b \in Browsers : refresh'[b] # Nothing => refresh[b] # Nothing /\ refresh'[b].id = refresh[b].id
      BY <1>1 DEF Tick, Older
    <2> QED
      BY <1>1, <2>1, <2>2, <2>3 DEF Tick, table
  <1>2. ASSUME NEW b \in Browsers, TestLogin(b) PROVE KnownIds'
    BY <1>2 DEF TestLogin, Becomes, table
  <1>3. ASSUME NEW b \in Browsers, FirstLogin(b) PROVE KnownIds'
    BY <1>3 DEF FirstLogin, AddUser, SignIn, Becomes, table
  <1>4. ASSUME NEW b \in Browsers, Refresh(b) PROVE KnownIds'
    BY <1>4 DEF Refresh, table
  <1>5. ASSUME NEW b \in Browsers, RefreshAnswer(b) PROVE KnownIds'
    BY <1>5 DEF RefreshAnswer, table
  <1>6. ASSUME NEW b \in Browsers, Logout(b) PROVE KnownIds'
    BY <1>6 DEF Logout, Becomes, table
  <1>7. ASSUME NEW b \in Browsers, NEW e \in Emails, Login(b, e) PROVE KnownIds'
    BY <1>7 DEF Login, HasEmail, SignIn, Becomes, table
  <1>8. ASSUME NEW b \in Browsers, NEW u \in Users, NEW role \in Roles, UpdateRole(b, u, role)
        PROVE  KnownIds'
    BY <1>8 DEF UpdateRole, cookies
  <1>9. ASSUME NEW b \in Browsers, NEW x \in Requests, CreateRequest(b, x)
        PROVE  KnownIds'
    BY <1>9 DEF CreateRequest, cookies, table
  <1>10. ASSUME NEW e \in Emails, NEW role \in Roles, CreateUser(e, role) PROVE KnownIds'
    BY <1>10 DEF CreateUser, AddUser, cookies
  <1>11. ASSUME NEW x \in Requests, RemoveRequest(x) PROVE KnownIds'
    BY <1>11 DEF RemoveRequest, cookies, table
  <1>12. CASE UNCHANGED vars
    BY <1>12 DEF vars, cookies, table
  <1> QED
    BY <1>1, <1>2, <1>3, <1>4, <1>5, <1>6, <1>7, <1>8, <1>9, <1>10, <1>11, <1>12 DEF Next


\* What a session is of: its cookies and the token under way, for one browser.
LEMMA OwnStep ==
  TypeOK /\ PendingHasNoRole /\ PendingIsOwn /\ SessionIsOneUser /\ [Next]_vars
    => PendingHasNoRole' /\ PendingIsOwn' /\ SessionIsOneUser'
  <1> DEFINE Own == PendingHasNoRole /\ PendingIsOwn /\ SessionIsOneUser
  <1> SUFFICES ASSUME TypeOK, Own, [Next]_vars PROVE Own'
    OBVIOUS
  <1> USE DEF TypeOK, PendingHasNoRole, PendingIsOwn, SessionIsOneUser, Me, Tokens, RefreshTokens
  <1>1. CASE Tick
    <2>1. \A b \in Browsers : access'[b] # Nothing =>
            /\ access[b] # Nothing
            /\ access'[b].id = access[b].id /\ access'[b].role = access[b].role
      BY <1>1 DEF Tick, Older
    <2>2. \A b \in Browsers : pending'[b] # Nothing =>
            /\ pending[b] # Nothing
            /\ pending'[b].id = pending[b].id /\ pending'[b].role = pending[b].role
      BY <1>1 DEF Tick, Older
    <2>3. \A b \in Browsers : refresh'[b] # Nothing =>
            refresh[b] # Nothing /\ refresh'[b].id = refresh[b].id
      BY <1>1 DEF Tick, Older
    <2> QED
      BY <1>1, <2>1, <2>2, <2>3 DEF Tick
  <1>2. ASSUME NEW b \in Browsers, TestLogin(b) PROVE Own'
    BY <1>2 DEF TestLogin, Becomes
  <1>3. ASSUME NEW b \in Browsers, FirstLogin(b) PROVE Own'
    BY <1>3 DEF FirstLogin, AddUser, SignIn, Becomes, table
  <1>4. ASSUME NEW b \in Browsers, Refresh(b) PROVE Own'
    BY <1>4 DEF Refresh
  <1>5. ASSUME NEW b \in Browsers, RefreshAnswer(b) PROVE Own'
    BY <1>5 DEF RefreshAnswer
  <1>6. ASSUME NEW b \in Browsers, Logout(b) PROVE Own'
    BY <1>6 DEF Logout, Becomes
  <1>7. ASSUME NEW b \in Browsers, NEW e \in Emails, Login(b, e) PROVE Own'
    BY <1>7 DEF Login, HasEmail, SignIn, Becomes
  <1>8. ASSUME NEW b \in Browsers, NEW u \in Users, NEW role \in Roles, UpdateRole(b, u, role)
        PROVE  Own'
    BY <1>8 DEF UpdateRole, cookies
  <1>9. ASSUME NEW b \in Browsers, NEW x \in Requests, CreateRequest(b, x) PROVE Own'
    BY <1>9 DEF CreateRequest, cookies
  <1>10. ASSUME NEW e \in Emails, NEW role \in Roles, CreateUser(e, role) PROVE Own'
    BY <1>10 DEF CreateUser, cookies
  <1>11. ASSUME NEW x \in Requests, RemoveRequest(x) PROVE Own'
    BY <1>11 DEF RemoveRequest, cookies
  <1>12. CASE UNCHANGED vars
    BY <1>12 DEF vars, cookies
  <1> QED
    BY <1>1, <1>2, <1>3, <1>4, <1>5, <1>6, <1>7, <1>8, <1>9, <1>10, <1>11, <1>12 DEF Next

\* A role is stored by UpdateRole and by AddUser, which both start the clock
\* since; a token ages with the clock.
LEMMA DemotionStep ==
  TypeOK /\ KnownIds /\ PendingHasNoRole /\ DemotionBites /\ [Next]_vars => DemotionBites'
  <1> SUFFICES ASSUME TypeOK, KnownIds, PendingHasNoRole, DemotionBites, [Next]_vars
               PROVE  DemotionBites'
    OBVIOUS
  <1> USE DEF TypeOK, DemotionBites, Tokens, Users
  <1>1. CASE Tick
    <2>1. \A b \in Browsers : access'[b] # Nothing =>
            /\ access[b] # Nothing
            /\ access'[b].id = access[b].id /\ access'[b].role = access[b].role
            /\ access'[b].age = access[b].age + 1
      BY <1>1 DEF Tick, Older
    <2>2. ASSUME NEW u \in Users, NEW age \in Nat, since[u] <= age
          PROVE  since'[u] <= age + 1
      <3>1. since'[u] = IF since[u] < Lifetime THEN since[u] + 1 ELSE Lifetime
        BY <1>1 DEF Tick
      <3>2. since[u] \in 0..Lifetime
        OBVIOUS
      <3> QED
        BY <2>2, <3>1, <3>2
    <2>3. ASSUME NEW b \in Browsers, access[b] # Nothing, access[b].id # 0
          PROVE  access[b].id \in Users /\ access[b].age \in Nat
      <3>1. access[b] \in Tokens
        BY <2>3
      <3> QED
        BY <2>3, <3>1
    <2>4. user' = user
      BY <1>1 DEF Tick, table
    <2> HIDE DEF TypeOK
    <2> QED
      BY <2>1, <2>2, <2>3, <2>4
  <1>2. ASSUME NEW b \in Browsers, TestLogin(b) PROVE DemotionBites'
    BY <1>2 DEF TestLogin, table
  <1>3. ASSUME NEW b \in Browsers, FirstLogin(b) PROVE DemotionBites'
    <2>1. CASE /\ AddUser(login[b], "Developer")
               /\ SignIn(b, lastUser', user'[lastUser'])
      <3>1. ASSUME NEW c \in Browsers, access[c] # Nothing, access[c].id # 0
            PROVE  access[c].id \in Users /\ access[c].id <= lastUser
        <4>1. access[c] \in Tokens
          BY <3>1
        <4> QED
          BY <3>1, <4>1 DEF KnownIds
      <3>2. /\ lastUser' = lastUser + 1 /\ lastUser' \in Users
            /\ \A u \in Users : u <= lastUser => user'[u] = user[u] /\ since'[u] = since[u]
        BY <2>1 DEF AddUser
      <3>3. /\ access'[b].id = lastUser' /\ access'[b].role = user'[lastUser'].role
            /\ \A c \in Browsers \ {b} : access'[c] = access[c]
        BY <2>1 DEF SignIn
      <3>4. ASSUME NEW c \in Browsers,
                   access'[c] # Nothing, access'[c].id # 0, access'[c].role # "none"
            PROVE  \/ access'[c].role = user'[access'[c].id].role
                   \/ since'[access'[c].id] <= access'[c].age
        <4>1. CASE c = b
          BY <3>3, <4>1
        <4>2. CASE c # b
          BY <3>1, <3>2, <3>3, <3>4, <4>2
        <4> QED
          BY <4>1, <4>2
      <3> QED
        BY <3>4
    <2>2. CASE UNCHANGED <<table, since, access>>
      BY <2>2 DEF table
    <2> QED
      BY <1>3, <2>1, <2>2 DEF FirstLogin
  <1>4. ASSUME NEW b \in Browsers, Refresh(b) PROVE DemotionBites'
    BY <1>4 DEF Refresh, table
  <1>5. ASSUME NEW b \in Browsers, RefreshAnswer(b) PROVE DemotionBites'
    BY <1>5 DEF RefreshAnswer, PendingHasNoRole, table
  <1>6. ASSUME NEW b \in Browsers, Logout(b) PROVE DemotionBites'
    BY <1>6 DEF Logout, table
  <1>7. ASSUME NEW b \in Browsers, NEW e \in Emails, Login(b, e) PROVE DemotionBites'
    BY <1>7 DEF Login, HasEmail, SignIn, table
  <1>8. ASSUME NEW b \in Browsers, NEW u \in Users, NEW role \in Roles, UpdateRole(b, u, role)
        PROVE  DemotionBites'
    <2>1. /\ access' = access
          /\ \A v \in Users : v # u => user'[v] = user[v] /\ since'[v] = since[v]
          /\ since'[u] = 0
      BY <1>8 DEF UpdateRole, cookies
    <2>2. ASSUME NEW c \in Browsers, access[c] # Nothing, access[c].id # 0
          PROVE  access[c].id \in Users /\ access[c].age >= 0
      <3>1. access[c] \in Tokens
        BY <2>2
      <3> QED
        BY <2>2, <3>1
    <2> QED
      BY <2>1, <2>2
  <1>9. ASSUME NEW b \in Browsers, NEW x \in Requests, CreateRequest(b, x)
        PROVE  DemotionBites'
    BY <1>9 DEF CreateRequest, cookies, table
  <1>10. ASSUME NEW e \in Emails, NEW role \in Roles, CreateUser(e, role)
        PROVE  DemotionBites'
    <2>1. ASSUME NEW c \in Browsers, access[c] # Nothing, access[c].id # 0
          PROVE  access[c].id \in Users /\ access[c].id <= lastUser
      <3>1. access[c] \in Tokens
        BY <2>1
      <3> QED
        BY <2>1, <3>1 DEF KnownIds
    <2>2. /\ lastUser + 1 \in Users
          /\ \A u \in Users : u <= lastUser => user'[u] = user[u] /\ since'[u] = since[u]
      BY <1>10 DEF CreateUser, AddUser
    <2>3. access' = access
      BY <1>10 DEF CreateUser, cookies
    <2> QED
      BY <2>1, <2>2, <2>3
  <1>11. ASSUME NEW x \in Requests, RemoveRequest(x) PROVE DemotionBites'
    BY <1>11 DEF RemoveRequest, cookies, table
  <1>12. CASE UNCHANGED vars
    BY <1>12 DEF vars, cookies, table
  <1> QED
    BY <1>1, <1>2, <1>3, <1>4, <1>5, <1>6, <1>7, <1>8, <1>9, <1>10, <1>11, <1>12 DEF Next

----------------------------------------------------------------------------
LEMMA IInvHolds == Spec => []IInv
  <1>1. IInv /\ [Next]_vars => IInv'
    BY TypeStep, OneUserStep, KnownStep, OwnStep, DemotionStep DEF IInv
  <1> QED
    BY InitHolds, <1>1, PTL DEF Spec

\* Session keeps its types: no user, token or cookie is ever malformed.
THEOREM SessionTypes == Spec => []TypeOK
  BY IInvHolds, PTL DEF IInv

\* However many first logins and POST /user interleave, an e-mail has one row.
THEOREM OneUser == Spec => []OneUserPerEmail
  BY IInvHolds, PTL DEF IInv

\* A stored role has reached every access token within the token's lifetime.
THEOREM Demotion == Spec => []DemotionBites
  BY IInvHolds, PTL DEF IInv

\* Outside the race with a refresh, a browser's cookies are of one user.
THEOREM OneSession == Spec => []SessionIsOneUser
  BY IInvHolds, PTL DEF IInv

\* Outside that race, a session without a staff role lists what its user owns.
THEOREM Listing == Spec => []OwnListing
  <1>1. IInv => OwnListing
    <2> SUFFICES ASSUME IInv,
                        NEW b \in Browsers \ crossed,
                        access[b] # Nothing, access[b].role \notin Staff, who[b] # 0
                 PROVE  \A x \in Requests : Visible(access[b], x) <=> owner[x] = who[b]
      BY DEF OwnListing, FindAllRequests, FindAllRepositories, FindAllResources,
             FindByDisplayCode, ListedRequests, ListedRepositories, ListedResources,
             FoundByDisplayCode
    <2>1. access[b].id = who[b]
      BY DEF IInv, SessionIsOneUser
    <2> QED
      BY <2>1 DEF Visible
  <1> QED
    BY IInvHolds, <1>1, PTL
=============================================================================

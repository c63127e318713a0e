------------------------ MODULE RequestCreationProofs ------------------------
(***************************************************************************)
(* Theorems about RequestCreation, for every set of calls and of names.    *)
(* The invariants of the module are not inductive one by one: they need to *)
(* know which rows a call can have inserted at each of its control points, *)
(* and what a call holds between reading the last code and using the next. *)
(***************************************************************************)
EXTENDS RequestCreation, TLAPS

\* A call has inserted nothing while it is still being validated.
Validating == {"idle", "findOwner", "findRepository", "findCollaborators",
               "createConfig", "refused"}

\* Where a call without a name can be; it has inserted nothing.
Nameless == {"idle", "findOwner", "findRepository", "refused", "failed"}

\* The rows a call can own follow its control point.
RowsFollowPc ==
    \A c \in Calls :
        /\ pc[c] \in Validating => c \notin config
        /\ pc[c] \in {"createResources", "createRepository"} => c \notin repository
        /\ pc[c] \in {"createRepository", "readLast", "createRequest"} => c \in resources
        /\ pc[c] \in {"readLast", "createRequest"} => c \notin request
        /\ name[c] = NoName => c \notin config

\* A call that has got past the look-up of its name, and so every call that owns
\* a row, has a name.
Named ==
    \A c \in Calls :
        \/ name[c] \in Names
        \/ name[c] = NoName /\ pc[c] \in Nameless

\* The clock has passed every Request row, and tells any two apart.
ClockOrders ==
    /\ \A r \in request : createdAt[r] <= clock
    /\ \A q, r \in request : createdAt[q] = createdAt[r] => q = r

\* A held number is the next one, or it has been used up in the meantime.
PendingIsNext ==
    ~raced => \A c \in Calls :
                  pc[c] = "createRequest" =>
                      \/ CodeTaken(pending[c])
                      \/ \E n \in LastNumbers : pending[c] = n + 1

-----------------------------------------------------------------------------
(* Every variable keeps its type: Start, the ten handler steps, Fail and   *)
(* the two deletions assign nothing else.                                  *)
THEOREM TypeCorrect == Spec => []TypeOK
<1> USE DEF TypeOK, SchemaTypeOK
<1>1. Init => TypeOK
  <2> SUFFICES ASSUME Init
               PROVE  TypeOK
    OBVIOUS
  <2>1. SchemaTypeOK
    BY DEF Init, SchemaInit
  <2>2. /\ pc \in [Calls -> Running \cup Ended \cup {"idle"}]
        /\ kind \in [Calls -> Kinds]
        /\ name \in [Calls -> Names \cup {NoName}]
    BY DEF Init, Kinds
  <2>3. /\ pending \in [Calls -> Nat]
        /\ number \in [Calls -> Nat]
        /\ createdAt \in [Calls -> Nat]
        /\ clock \in Nat
        /\ raced \in BOOLEAN
    BY DEF Init
  <2> QED
    BY <2>1, <2>2, <2>3
<1>2. TypeOK /\ [Next]_vars => TypeOK'
  <2> SUFFICES ASSUME TypeOK, [Next]_vars
               PROVE  TypeOK'
    OBVIOUS
  <2> USE DEF Goto, Running, Ended, Kinds, tables, callVars, codeVars
  <2>1. ASSUME NEW c \in Calls, Start(c)
        PROVE  TypeOK'
    BY <2>1 DEF Start, Bodies
  <2>2. ASSUME NEW c \in Calls, FindOwner(c)
        PROVE  TypeOK'
    BY <2>2 DEF FindOwner
  <2>3. ASSUME NEW c \in Calls, FindRepository(c) \/ FindNameless(c)
        PROVE  TypeOK'
    BY <2>3 DEF FindRepository, FindNameless
  <2>4. ASSUME NEW c \in Calls, FindCollaborators(c)
        PROVE  TypeOK'
    BY <2>4 DEF FindCollaborators
  <2>5. ASSUME NEW c \in Calls, CreateConfig(c)
        PROVE  TypeOK'
    BY <2>5 DEF CreateConfig
  <2>6. ASSUME NEW c \in Calls, CreateResources(c)
        PROVE  TypeOK'
    BY <2>6 DEF CreateResources
  <2>7. ASSUME NEW c \in Calls, CreateRepository(c)
        PROVE  TypeOK'
    BY <2>7 DEF CreateRepository
  <2>8. ASSUME NEW c \in Calls, NameCollision(c)
        PROVE  TypeOK'
    BY <2>8 DEF NameCollision
  <2>9. ASSUME NEW c \in Calls, ReadLast(c)
        PROVE  TypeOK'
    BY <2>9 DEF ReadLast, LastNumbers
  <2>10. ASSUME NEW c \in Calls, CreateRequest(c)
         PROVE  TypeOK'
    BY <2>10 DEF CreateRequest
  <2>11. ASSUME NEW c \in Calls, RequestCollision(c)
         PROVE  TypeOK'
    BY <2>11 DEF RequestCollision
  <2>12. ASSUME NEW c \in Calls, Fail(c)
         PROVE  TypeOK'
    BY <2>12 DEF Fail
  <2>13. ASSUME NEW r \in Calls, RemoveRequest(r)
         PROVE  TypeOK'
    BY <2>13 DEF RemoveRequest, DropRequest, Deleted
  <2>14. ASSUME NEW r \in Calls, SyncDeleteRepository(r)
         PROVE  TypeOK'
    BY <2>14 DEF SyncDeleteRepository, DropRepository, Deleted
  <2>15. CASE UNCHANGED vars
    BY <2>15 DEF vars
  <2> QED
    BY <2>1, <2>2, <2>3, <2>4, <2>5, <2>6, <2>7, <2>8, <2>9, <2>10, <2>11,
       <2>12, <2>13, <2>14, <2>15 DEF Next, Step
<1> QED
  BY <1>1, <1>2, PTL DEF Spec
-----------------------------------------------------------------------------
(* The rows and the names.  The conjuncts that do not speak of codes are   *)
(* inductive among themselves.                                             *)
Rows == Referential /\ RowsFollowPc /\ Named /\ NamesUnique

LEMMA RowsInductive ==
    ASSUME TypeOK, Rows, [Next]_vars
    PROVE  Rows'
<1> USE NoNameAssumption
    DEF Rows, Referential, RowsFollowPc, Named, NamesUnique, Nameless,
        TypeOK, SchemaTypeOK, Validating, Goto, tables, codeVars
<1>1. ASSUME NEW c \in Calls, Start(c)
      PROVE  Rows'
  <2>1. PICK k \in Kinds, n \in Names \cup {NoName} :
           /\ name' = [name EXCEPT ![c] = n]
           /\ pc' = [pc EXCEPT ![c] = IF k = "REPOSITORY" THEN "findRepository"
                                                         ELSE "findOwner"]
    BY <1>1 DEF Start, Bodies
  <2>2. pc[c] = "idle" /\ c \notin config /\ UNCHANGED tables
    BY <1>1 DEF Start
  <2>3. /\ \A r \in repository : r # c /\ name'[r] = name[r]
        /\ \A d \in Calls : name'[d] = IF d = c THEN n ELSE name[d]
    BY <2>1, <2>2
  <2>4. /\ pc'[c] \in {"findRepository", "findOwner"}
        /\ \A d \in Calls : d # c => pc'[d] = pc[d]
    BY <2>1
  <2>5. Referential' /\ Named' /\ NamesUnique'
    BY <2>2, <2>3, <2>4
  <2>6. RowsFollowPc'
    BY <2>2, <2>3, <2>4
  <2> QED
    BY <2>5, <2>6
<1>2. ASSUME NEW c \in Calls, FindOwner(c)
      PROVE  Rows'
  BY <1>2 DEF FindOwner
<1>3. ASSUME NEW c \in Calls, FindRepository(c) \/ FindNameless(c)
      PROVE  Rows'
  BY <1>3 DEF FindRepository, FindNameless
<1>4. ASSUME NEW c \in Calls, FindCollaborators(c)
      PROVE  Rows'
  BY <1>4 DEF FindCollaborators
<1>5. ASSUME NEW c \in Calls, CreateConfig(c)
      PROVE  Rows'
  BY <1>5 DEF CreateConfig
<1>6. ASSUME NEW c \in Calls, CreateResources(c)
      PROVE  Rows'
  BY <1>6 DEF CreateResources
<1>7. ASSUME NEW c \in Calls, CreateRepository(c)
      PROVE  Rows'
  <2>1. /\ c \in resources
        /\ \A r \in repository : name[r] # name[c]
        /\ repository' = repository \cup {c}
        /\ UNCHANGED <<config, vms, resources, request, name>>
        /\ pc[c] = "createRepository"
    BY <1>7 DEF CreateRepository, NameTaken
  <2>2. /\ pc'[c] \in {"done", "readLast"}
        /\ \A d \in Calls : d # c => pc'[d] = pc[d]
    BY <1>7 DEF CreateRepository
  <2>3. Referential' /\ NamesUnique'
    BY <2>1
  <2>4. Named'
    BY <2>1, <2>2
  <2>5. RowsFollowPc'
    BY <2>1, <2>2
  <2> QED
    BY <2>3, <2>4, <2>5
<1>8. ASSUME NEW c \in Calls, NameCollision(c)
      PROVE  Rows'
  BY <1>8 DEF NameCollision
<1>9. ASSUME NEW c \in Calls, ReadLast(c)
      PROVE  Rows'
  BY <1>9 DEF ReadLast
<1>10. ASSUME NEW c \in Calls, CreateRequest(c)
       PROVE  Rows'
  <2>1. /\ c \in repository
        /\ request' = request \cup {c}
        /\ UNCHANGED <<config, vms, resources, repository, name>>
        /\ pc[c] = "createRequest"
    BY <1>10 DEF CreateRequest
  <2>2. /\ pc'[c] = "done"
        /\ \A d \in Calls : d # c => pc'[d] = pc[d]
    BY <1>10 DEF CreateRequest
  <2> QED
    BY <2>1, <2>2
<1>11. ASSUME NEW c \in Calls, RequestCollision(c)
       PROVE  Rows'
  BY <1>11 DEF RequestCollision
<1>12. ASSUME NEW c \in Calls, Fail(c)
       PROVE  Rows'
  <2>1. UNCHANGED <<config, vms, resources, repository, request, name>>
    BY <1>12 DEF Fail
  <2>2. /\ pc'[c] = "failed" /\ pc[c] # "idle"
        /\ \A d \in Calls : d # c => pc'[d] = pc[d]
    BY <1>12 DEF Fail, Running
  <2> QED
    BY <2>1, <2>2
<1>13. ASSUME NEW r \in Calls, RemoveRequest(r)
       PROVE  Rows'
  BY <1>13 DEF RemoveRequest, DropRequest, callVars
<1>14. ASSUME NEW r \in Calls, SyncDeleteRepository(r)
       PROVE  Rows'
  BY <1>14 DEF SyncDeleteRepository, DropRepository, callVars
<1>15. CASE UNCHANGED vars
  BY <1>15 DEF vars, callVars
<1> QED
  BY <1>1, <1>2, <1>3, <1>4, <1>5, <1>6, <1>7, <1>8, <1>9, <1>10, <1>11,
     <1>12, <1>13, <1>14, <1>15 DEF Next, Step
-----------------------------------------------------------------------------
(* The display codes.                                                      *)
Codes == ClockOrders /\ DisplayCodesFollowCreation /\ PendingIsNext

\* A step that leaves the Request table and the held numbers alone keeps Codes.
LEMMA CodesUntouched ==
    ASSUME TypeOK, Codes, UNCHANGED <<request, codeVars>>,
           \A c \in Calls : pc'[c] = "createRequest" => pc[c] = "createRequest"
    PROVE  Codes'
BY DEF Codes, ClockOrders, DisplayCodesFollowCreation, PendingIsNext,
       CodeTaken, LastNumbers, Latest, codeVars

\* A deletion either finds no call with a number in hand, and then takes rows
\* out of an ordered table, or it marks the race and nothing is claimed.
LEMMA CodesAfterDeletion ==
    ASSUME TypeOK, Codes, NEW r \in Calls, r \in request,
           request' = request \ {r}, Deleted(r),
           UNCHANGED <<callVars, pending, number, createdAt, clock>>
    PROVE  Codes'
<1> USE DEF TypeOK, SchemaTypeOK, Codes, callVars
<1>1. ClockOrders'
  BY DEF ClockOrders
<1>2. DisplayCodesFollowCreation'
  BY DEF DisplayCodesFollowCreation, Deleted
<1>3. PendingIsNext'
  BY DEF PendingIsNext, Deleted
<1> QED
  BY <1>1, <1>2, <1>3

\* In an ordered table the row findFirst returns has the largest number.
LEMMA LatestIsLargest ==
    ASSUME TypeOK, ClockOrders, DisplayCodesFollowCreation, ~raced,
           NEW n \in LastNumbers, NEW r \in request
    PROVE  number[r] <= n
<1>1. PICK q \in request : Latest(q) /\ n = number[q]
  BY DEF LastNumbers
<1>2. createdAt[r] <= createdAt[q]
  BY <1>1 DEF Latest
<1>3. r \in Calls /\ q \in Calls
  BY DEF TypeOK, SchemaTypeOK
<1>4. createdAt[r] \in Nat /\ createdAt[q] \in Nat /\ number[r] \in Nat /\ number[q] \in Nat
  BY <1>3 DEF TypeOK
<1>5. CASE r = q
  BY <1>1, <1>4, <1>5
<1>6. CASE r # q
  <2>1. createdAt[r] < createdAt[q]
    BY <1>2, <1>4, <1>6 DEF ClockOrders
  <2> QED
    BY <2>1, <1>1, <1>4 DEF DisplayCodesFollowCreation
<1> QED
  BY <1>5, <1>6

\* createRequest: the number is free, so it is the one after the latest row's,
\* and every other call that holds the same number has now lost it.
LEMMA CodesAfterCreate ==
    ASSUME TypeOK, Codes, NEW c \in Calls, c \notin request, CreateRequest(c)
    PROVE  Codes'
<1> USE DEF Codes
<1>1. /\ request' = request \cup {c}
      /\ request \subseteq Calls
      /\ \A d \in Calls : number'[d] = IF d = c THEN pending[c] ELSE number[d]
      /\ \A d \in Calls : createdAt'[d] = IF d = c THEN clock + 1 ELSE createdAt[d]
      /\ clock' = clock + 1
      /\ pending' = pending /\ raced' = raced
      /\ ~CodeTaken(pending[c])
      /\ pc[c] = "createRequest"
      /\ \A d \in Calls : pc'[d] = "createRequest" => d # c /\ pc[d] = "createRequest"
  BY DEF CreateRequest, Goto, TypeOK, SchemaTypeOK
<1>2. /\ clock \in Nat
      /\ \A d \in Calls : createdAt[d] \in Nat /\ number[d] \in Nat /\ pending[d] \in Nat
  BY DEF TypeOK
<1>3. ClockOrders'
  BY <1>1, <1>2 DEF ClockOrders
<1>4. ASSUME ~raced
      PROVE  \A r \in request : number[r] < pending[c]
  <2>1. PICK n \in LastNumbers : pending[c] = n + 1
    BY <1>1, <1>4 DEF PendingIsNext
  <2>2. \A r \in request : number[r] <= n
    BY <1>4, LatestIsLargest
  <2>3. n \in Nat
    BY <1>1, <1>2 DEF LastNumbers
  <2> QED
    BY <2>1, <2>2, <2>3, <1>1, <1>2
<1>5. DisplayCodesFollowCreation'
  <2> SUFFICES ASSUME ~raced', NEW q \in request', NEW r \in request',
                      createdAt'[q] < createdAt'[r]
               PROVE  number'[q] < number'[r]
    BY DEF DisplayCodesFollowCreation
  <2>1. CASE q = c
    <3>1. r # c /\ r \in request
      BY <1>1, <1>2, <2>1
    <3>2. createdAt[r] <= clock
      BY <3>1 DEF ClockOrders
    <3> QED
      BY <3>1, <3>2, <2>1, <1>1, <1>2
  <2>2. CASE q # c /\ r = c
    BY <2>2, <1>1, <1>2, <1>4
  <2>3. CASE q # c /\ r # c
    BY <2>3, <1>1, <1>2 DEF DisplayCodesFollowCreation
  <2> QED
    BY <2>1, <2>2, <2>3
<1>6. PendingIsNext'
  <2> SUFFICES ASSUME ~raced', NEW d \in Calls, pc'[d] = "createRequest"
               PROVE  CodeTaken(pending[d])'
    BY <1>1 DEF PendingIsNext
  <2>1. d # c /\ pc[d] = "createRequest" /\ ~raced
    BY <1>1
  <2>2. CASE CodeTaken(pending[d])
    <3>1. PICK r \in request : number[r] = pending[d]
      BY <2>2 DEF CodeTaken
    <3>2. r \in request' /\ number'[r] = pending'[d]
      BY <3>1, <1>1
    <3> QED
      BY <3>2 DEF CodeTaken
  <2>3. CASE ~CodeTaken(pending[d])
    <3>1. pending[d] = pending[c]
      <4>1. PICK m \in LastNumbers : pending[d] = m + 1
        BY <2>1, <2>3 DEF PendingIsNext
      <4>2. PICK n \in LastNumbers : pending[c] = n + 1
        BY <2>1, <1>1 DEF PendingIsNext
      <4>3. m = n
        BY <1>1, <1>2 DEF LastNumbers, Latest, ClockOrders
      <4> QED
        BY <4>1, <4>2, <4>3
    <3>2. c \in request' /\ number'[c] = pending'[d]
      BY <3>1, <1>1
    <3> QED
      BY <3>2 DEF CodeTaken
  <2> QED
    BY <2>2, <2>3
<1> QED
  BY <1>3, <1>5, <1>6

\* findFirst, then lastNumber + 1: the number held is the next one right now.
LEMMA CodesAfterRead ==
    ASSUME TypeOK, Codes, NEW c \in Calls, ReadLast(c)
    PROVE  Codes'
<1> USE DEF Codes
<1>1. PICK n \in LastNumbers : pending' = [pending EXCEPT ![c] = n + 1]
  BY DEF ReadLast
<1>2. UNCHANGED <<request, number, createdAt, clock, raced>>
  BY DEF ReadLast, tables
<1>3. \A d \in Calls : pc'[d] = "createRequest" => d = c \/ pc[d] = "createRequest"
  BY DEF ReadLast, Goto, TypeOK
<1>4. ClockOrders' /\ DisplayCodesFollowCreation'
  BY <1>2 DEF ClockOrders, DisplayCodesFollowCreation
<1>5. LastNumbers' = LastNumbers
  BY <1>2 DEF LastNumbers, Latest
<1>6. PendingIsNext'
  <2> SUFFICES ASSUME ~raced', NEW d \in Calls, pc'[d] = "createRequest"
               PROVE  \/ CodeTaken(pending[d])'
                      \/ \E m \in LastNumbers : pending'[d] = m + 1
    BY <1>5 DEF PendingIsNext
  <2>1. CASE d = c
    BY <2>1, <1>1 DEF TypeOK
  <2>2. CASE d # c
    <3>1. pending'[d] = pending[d] /\ pc[d] = "createRequest"
      BY <2>2, <1>1, <1>3 DEF TypeOK
    <3> QED
      BY <3>1, <1>2 DEF PendingIsNext, CodeTaken
  <2> QED
    BY <2>1, <2>2
<1> QED
  BY <1>4, <1>6
-----------------------------------------------------------------------------
LEMMA Inductive == Spec => [](Rows /\ Codes)
<1>1. Init => Rows /\ Codes
  BY DEF Init, SchemaInit, Rows, Referential, RowsFollowPc, Named, Nameless, NamesUnique,
         Codes, ClockOrders, DisplayCodesFollowCreation, PendingIsNext
<1>2. TypeOK /\ Rows /\ Codes /\ [Next]_vars => (Rows /\ Codes)'
  <2> SUFFICES ASSUME TypeOK, Rows, Codes, [Next]_vars
               PROVE  Codes'
    BY RowsInductive
  <2> USE DEF Goto, tables
  <2>1. ASSUME NEW c \in Calls, Start(c)
        PROVE  Codes'
    BY <2>1, CodesUntouched DEF Start, TypeOK
  <2>2. ASSUME NEW c \in Calls, FindOwner(c)
        PROVE  Codes'
    BY <2>2, CodesUntouched DEF FindOwner, TypeOK
  <2>3. ASSUME NEW c \in Calls, FindRepository(c) \/ FindNameless(c)
        PROVE  Codes'
    BY <2>3, CodesUntouched DEF FindRepository, FindNameless, TypeOK
  <2>4. ASSUME NEW c \in Calls, FindCollaborators(c)
        PROVE  Codes'
    BY <2>4, CodesUntouched DEF FindCollaborators, TypeOK
  <2>5. ASSUME NEW c \in Calls, CreateConfig(c)
        PROVE  Codes'
    BY <2>5, CodesUntouched DEF CreateConfig, TypeOK
  <2>6. ASSUME NEW c \in Calls, CreateResources(c)
        PROVE  Codes'
    BY <2>6, CodesUntouched DEF CreateResources, TypeOK
  <2>7. ASSUME NEW c \in Calls, CreateRepository(c)
        PROVE  Codes'
    BY <2>7, CodesUntouched DEF CreateRepository, TypeOK
  <2>8. ASSUME NEW c \in Calls, NameCollision(c)
        PROVE  Codes'
    BY <2>8, CodesUntouched DEF NameCollision, TypeOK
  <2>9. ASSUME NEW c \in Calls, ReadLast(c)
        PROVE  Codes'
    BY <2>9, CodesAfterRead
  <2>10. ASSUME NEW c \in Calls, CreateRequest(c)
         PROVE  Codes'
    <3>1. c \notin request
      BY <2>10 DEF CreateRequest, Rows, RowsFollowPc
    <3> QED
      BY <2>10, <3>1, CodesAfterCreate
  <2>11. ASSUME NEW c \in Calls, RequestCollision(c)
         PROVE  Codes'
    BY <2>11, CodesUntouched DEF RequestCollision, TypeOK
  <2>12. ASSUME NEW c \in Calls, Fail(c)
         PROVE  Codes'
    BY <2>12, CodesUntouched DEF Fail, TypeOK
  <2>13. ASSUME NEW r \in Calls, RemoveRequest(r)
         PROVE  Codes'
    BY <2>13, CodesAfterDeletion DEF RemoveRequest, DropRequest
  <2>14. ASSUME NEW r \in Calls, SyncDeleteRepository(r)
         PROVE  Codes'
    <3>1. /\ request' = request \ {r}
          /\ UNCHANGED <<callVars, pending, number, createdAt, clock>>
          /\ Deleted(r)
      BY <2>14 DEF SyncDeleteRepository, DropRepository
    <3>2. CASE r \in request
      BY <3>1, <3>2, CodesAfterDeletion
    <3>3. CASE r \notin request
      BY <3>1, <3>3, CodesUntouched DEF Deleted, callVars, codeVars, TypeOK
    <3> QED
      BY <3>2, <3>3
  <2>15. CASE UNCHANGED vars
    BY <2>15, CodesUntouched DEF vars, callVars
  <2> QED
    BY <2>1, <2>2, <2>3, <2>4, <2>5, <2>6, <2>7, <2>8, <2>9, <2>10, <2>11,
       <2>12, <2>13, <2>14, <2>15 DEF Next, Step
<1> QED
  BY <1>1, <1>2, TypeCorrect, PTL DEF Spec

(* Two calls that looked one name up at the same time never both keep it.  *)
THEOREM OneRepositoryPerName == Spec => []NamesUnique
BY Inductive, PTL DEF Rows

(* A call refused with 400 or 409, or without a name, has left no row.     *)
THEOREM RefusalIsClean == Spec => []RefusedLeavesNothing
<1>1. Rows => RefusedLeavesNothing
  BY DEF Rows, RowsFollowPc, RefusedLeavesNothing, Validating
<1> QED
  BY <1>1, Inductive, PTL

(* As long as no deletion raced a create call, display codes grow with     *)
(* creation time.                                                          *)
THEOREM CodesOrdered == Spec => []DisplayCodesFollowCreation
BY Inductive, PTL DEF Codes

(* And then the code computed from the latest request is free: creation    *)
(* cannot wedge.                                                           *)
THEOREM CreationNeverWedges == Spec => []NextCodeFree
<1>1. TypeOK /\ Codes => NextCodeFree
  <2> SUFFICES ASSUME TypeOK, Codes, ~raced, NEW n \in LastNumbers,
                      NEW r \in request, number[r] = n + 1
               PROVE  FALSE
    BY DEF NextCodeFree, CodeTaken
  <2>1. number[r] <= n
    BY LatestIsLargest DEF Codes
  <2>2. n \in Nat
    BY DEF LastNumbers, TypeOK, SchemaTypeOK
  <2> QED
    BY <2>1, <2>2
<1> QED
  BY <1>1, Inductive, TypeCorrect, PTL
(* Creation implements the name ledger: a Repository row holds its name, a *)
(* Request row publishes it, removeRequest withdraws without giving the    *)
(* name back, and only the GitLab sync frees a name.                       *)
THEOREM ImplementsLedger == Spec => RefinesLedger
<1> DEFINE L == {<<name[c], c>> : c \in repository}
<1>1. Init => Ledger!LedgerInit
  BY DEF Init, SchemaInit, Ledger!LedgerInit
<1>2. TypeOK /\ Rows /\ [Next]_vars => [Ledger!LedgerNext]_(Ledger!ledgerVars)
  <2> SUFFICES ASSUME TypeOK, Rows, [Next]_vars
               PROVE  Ledger!LedgerNext \/ (L' = L /\ request' = request)
    BY DEF Ledger!ledgerVars
  <2>1. ASSUME UNCHANGED <<name, repository, request>>
        PROVE  L' = L /\ request' = request
    BY <2>1
  <2> USE DEF tables, callVars, codeVars
  <2>2. ASSUME NEW c \in Calls, Start(c)
        PROVE  L' = L /\ request' = request
    <3>1. pc[c] = "idle" /\ c \notin repository
      BY <2>2 DEF Start, Rows, RowsFollowPc, Referential, Validating
    <3>2. \A r \in repository : name'[r] = name[r]
      BY <2>2, <3>1 DEF Start, TypeOK, SchemaTypeOK
    <3> QED
      BY <2>2, <3>2 DEF Start
  <2>3. ASSUME NEW c \in Calls, CreateRepository(c)
        PROVE  Ledger!LedgerNext
    <3>1. name[c] \in Names /\ c \notin repository
      BY <2>3 DEF CreateRepository, Rows, RowsFollowPc, Named, Nameless
    <3>2. \A d \in Calls : <<name[c], d>> \notin L
      BY <2>3 DEF CreateRepository, NameTaken
    <3>3. ~Ledger!Holds(c)
      BY <3>1 DEF Ledger!Holds
    <3>4. L' = L \cup {<<name[c], c>>} /\ request' = request
      BY <2>3 DEF CreateRepository
    <3>5. Ledger!Take(name[c], c)
      BY <3>2, <3>3, <3>4 DEF Ledger!Take
    <3> QED
      BY <3>1, <3>5 DEF Ledger!LedgerNext
  <2>4. ASSUME NEW c \in Calls, CreateRequest(c)
        PROVE  Ledger!LedgerNext
    <3>1. name[c] \in Names /\ c \notin request /\ c \in repository
      BY <2>4 DEF CreateRequest, Rows, RowsFollowPc, Named, Nameless
    <3>2. Ledger!Holds(c)
      BY <3>1 DEF Ledger!Holds
    <3>3. L' = L /\ request' = request \cup {c}
      BY <2>4 DEF CreateRequest
    <3>4. Ledger!Publish(c)
      BY <3>1, <3>2, <3>3 DEF Ledger!Publish
    <3> QED
      BY <3>4 DEF Ledger!LedgerNext
  <2>5. ASSUME NEW r \in Calls, RemoveRequest(r)
        PROVE  Ledger!LedgerNext
    <3>1. Ledger!Withdraw(r)
      BY <2>5 DEF RemoveRequest, DropRequest, Ledger!Withdraw
    <3> QED
      BY <3>1 DEF Ledger!LedgerNext
  <2>6. ASSUME NEW r \in Calls, SyncDeleteRepository(r)
        PROVE  Ledger!LedgerNext
    <3>1. /\ r \in repository /\ name' = name
          /\ repository' = repository \ {r} /\ request' = request \ {r}
      BY <2>6 DEF SyncDeleteRepository, DropRepository
    <3>2. name[r] \in Names
      BY <3>1 DEF Rows, RowsFollowPc, Referential, Named, Validating, TypeOK, SchemaTypeOK
    <3>3. <<name[r], r>> \in L /\ L' = L \ {<<name[r], r>>}
      BY <3>1
    <3>4. Ledger!Free(name[r], r)
      BY <3>1, <3>3 DEF Ledger!Free
    <3> QED
      BY <3>2, <3>4 DEF Ledger!LedgerNext
  <2>7. ASSUME NEW c \in Calls,
               \/ FindOwner(c) \/ FindRepository(c) \/ FindNameless(c)
               \/ FindCollaborators(c)
               \/ CreateConfig(c) \/ CreateResources(c) \/ NameCollision(c)
               \/ ReadLast(c) \/ RequestCollision(c) \/ Fail(c)
        PROVE  UNCHANGED <<name, repository, request>>
    BY <2>7 DEF FindOwner, FindRepository, FindNameless, FindCollaborators, CreateConfig,
                CreateResources, NameCollision, ReadLast, RequestCollision, Fail
  <2>8. CASE UNCHANGED vars
    BY <2>1, <2>8 DEF vars
  <2> QED
    BY <2>1, <2>2, <2>3, <2>4, <2>5, <2>6, <2>7, <2>8 DEF Next, Step
<1> QED
  BY <1>1, <1>2, TypeCorrect, Inductive, PTL
     DEF Spec, RefinesLedger, Ledger!LedgerSpec
=============================================================================

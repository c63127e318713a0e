----------------------------- MODULE Catalogue -----------------------------
(***************************************************************************)
(* A client walks a paginated list: Azure sizes (getVmSizesPaginated, by   *)
(* cores, memory and name), AWS instance types (findAws, in no order) or   *)
(* AWS database classes (findAwsDB, by class).  Each page is a query of    *)
(* its own, and a query may order the rows that its orderBy leaves equal   *)
(* as it likes.  The tables are seeded and never change.                   *)
(***************************************************************************)
EXTENDS Naturals, FiniteSets

CONSTANTS
    NumSizes,           \* rows of the table, numbered in the full order
    Class, Engine,      \* their DBInstanceClass and engine
    MaxLimit            \* rows asked for (a bound)

Sizes == 1..NumSizes

ASSUME CatalogueAssumption ==
    /\ NumSizes \in Nat
    /\ Class \in [Sizes -> Nat]
    /\ MaxLimit \in Nat \ {0}
    \* @@unique([engine, DBInstanceClass])
    /\ \A x, y \in Sizes : Class[x] = Class[y] /\ Engine[x] = Engine[y] => x = y

VARIABLES
    list,               \* the endpoint
    limit,
    maxStorage,         \* whether the query has a maxStorageSize
    matching,           \* the rows that the filters leave
    page,               \* the page to ask for; 0 after the last
    seen,               \* how often each row has come
    pages               \* history: pages that came

query == <<list, limit, maxStorage, matching>>
catalogue == <<query, page, seen, pages>>

CatalogueTypeOK ==
    /\ list \in {"azure", "aws", "awsDB"}
    /\ limit \in 1..MaxLimit
    /\ maxStorage \in BOOLEAN
    /\ matching \in SUBSET Sizes
    /\ page \in 0..(NumSizes + 1)
    /\ seen \in [Sizes -> Nat]
    /\ pages \in 0..(NumSizes + 1)

CatalogueInit ==
    /\ list \in {"azure", "aws", "awsDB"} /\ limit \in 1..MaxLimit
    /\ maxStorage \in (IF list = "awsDB" THEN BOOLEAN ELSE {FALSE})
    /\ matching \in SUBSET Sizes
    /\ page = 1 /\ pages = 0
    /\ seen = [x \in Sizes |-> 0]

Total == Cardinality(matching)

TotalPages == (Total + limit - 1) \div limit

\* Mutant: pages are counted from zero.
SkipFromZero == page * limit

Skip == (page - 1) * limit

HasNext == page < TotalPages

\* The orderBy of the query puts x before y.
Before(x, y) ==
    \/ list = "azure" /\ x < y
    \/ list = "awsDB" /\ Class[x] < Class[y]

\* One query, with its offset and its count.
AskPage ==
    /\ page > 0
    /\ \E o \in [1..Total -> matching] :
        LET data == {o[i] : i \in {j \in 1..Total : j > Skip /\ j <= Skip + limit}} IN
        /\ \A i, j \in 1..Total : i < j => o[i] # o[j] /\ ~Before(o[j], o[i])
        /\ seen' = [x \in Sizes |-> IF x \in data THEN seen[x] + 1 ELSE seen[x]]
    /\ page' = IF HasNext THEN page + 1 ELSE 0
    /\ pages' = pages + 1
    /\ UNCHANGED query

\* GET /request/vm-sizes and GET /cloud-providers/azure
GetVmSizesPaginated == list = "azure" /\ AskPage

FindAws == list = "aws" /\ AskPage

\* .lte is set on a filter that was never made: a query with a maxStorageSize fails.
FindAwsDB ==
    /\ list = "awsDB"
    /\ \/ ~maxStorage /\ AskPage
       \/ maxStorage /\ page > 0 /\ page' = 0 /\ UNCHANGED <<query, seen, pages>>

CatalogueNext == GetVmSizesPaginated \/ FindAws \/ FindAwsDB

CatalogueSpec == CatalogueInit /\ [][CatalogueNext]_catalogue

\* The orderBy leaves no two rows of the list equal.
Ordered ==
    \/ list = "azure"
    \/ list = "awsDB" /\ (\A x, y \in matching : Engine[x] = Engine[y])

\* Every row with every time that it came.
Shown == UNION {{x} \X (1..seen[x]) : x \in Sizes}

\* Walking the Azure sizes, or one engine's classes, shows each row once.  The
\* same class of two engines, and AWS instance types, may come twice or never.
\* Whatever the order, the walk ends on the last page with as many rows as the
\* total says, none of them one that the filters leave out.
WalkComplete ==
    page = 0 /\ ~maxStorage =>
        /\ Ordered => \A x \in matching : seen[x] = 1
        /\ pages = IF matching = {} THEN 1 ELSE TotalPages
        /\ Cardinality(Shown) = Total
        /\ \A x \in Sizes : seen[x] > 0 => x \in matching
=============================================================================

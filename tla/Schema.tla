------------------------------- MODULE Schema -------------------------------
(***************************************************************************)
(* The four tables that together make up one infrastructure request, and   *)
(* the foreign keys between them (prisma/schema.prisma):                   *)
(*                                                                         *)
(*    Request --> Repository --> Resources --> ResourceConfig              *)
(*       \-----------------------^                                         *)
(*                                                                         *)
(* plus the AwsVMInstance rows, the only child table whose foreign key     *)
(* refuses (RESTRICT) instead of cascading.  A row is named by the create  *)
(* call that inserted it: a call inserts at most one row in each table, so *)
(* this is the uuid of the row up to renaming.                             *)
(***************************************************************************)
CONSTANT Calls          \* create calls, and the rows they insert

VARIABLES
    config,             \* ResourceConfig rows
    vms,                \* ResourceConfig rows that AwsVMInstance rows point to
    resources,          \* Resources rows
    repository,         \* Repository rows
    request             \* Request rows

tables == <<config, vms, resources, repository, request>>

SchemaTypeOK ==
    /\ config \in SUBSET Calls
    /\ vms \in SUBSET Calls
    /\ resources \in SUBSET Calls
    /\ repository \in SUBSET Calls
    /\ request \in SUBSET Calls

SchemaInit ==
    /\ config = {}
    /\ vms = {}
    /\ resources = {}
    /\ repository = {}
    /\ request = {}

-----------------------------------------------------------------------------
(* Deletions.  A deleted row takes along every row that references it.     *)

DropRequest(x) ==
    /\ request' = request \ {x}
    /\ UNCHANGED <<config, vms, resources, repository>>

DropRepository(x) ==
    /\ repository' = repository \ {x}
    /\ request' = request \ {x}
    /\ UNCHANGED <<config, vms, resources>>

DropResources(x) ==
    /\ resources' = resources \ {x}
    /\ repository' = repository \ {x}
    /\ request' = request \ {x}
    /\ UNCHANGED <<config, vms>>

DropVms(x) ==
    /\ vms' = vms \ {x}
    /\ UNCHANGED <<config, resources, repository, request>>

\* Refused while an AwsVMInstance row still points to the configuration.
DropConfig(x) ==
    /\ x \notin vms
    /\ config' = config \ {x}
    /\ resources' = resources \ {x}
    /\ repository' = repository \ {x}
    /\ request' = request \ {x}
    /\ UNCHANGED vms

-----------------------------------------------------------------------------
(* Every row's foreign keys point to rows that exist: a Request is always  *)
(* complete, whoever deletes what underneath it.  Schema.prisma, the       *)
(* onDelete clauses of lines 36-38, 50 and 64.                             *)
Referential ==
    /\ request \subseteq repository
    /\ repository \subseteq resources
    /\ resources \subseteq config
    /\ vms \subseteq config
=============================================================================

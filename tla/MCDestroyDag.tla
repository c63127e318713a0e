---------------------------- MODULE MCDestroyDag ----------------------------
(* The destroy DAGs on one AWS request and Azure requests with and without  *)
(* the resource group name that AZURE_Destroy expects.                      *)
EXTENDS DestroyDag

MCRequests == {"ra", "rz", "rx"}
MCCloudOf == [r \in MCRequests |-> IF r = "ra" THEN "AWS" ELSE "AZURE"]
MCWanted == [r \in MCRequests |-> IF r = "rx" THEN {"vm"} ELSE {"vm", "db"}]
MCGroupNamed == {"rz"}

TwoRequests == {"ra", "rz"}
TwoCloudOf == [r \in TwoRequests |-> MCCloudOf[r]]
TwoWanted == [r \in TwoRequests |-> MCWanted[r]]
=============================================================================

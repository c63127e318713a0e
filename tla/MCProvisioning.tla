--------------------------- MODULE MCProvisioning ---------------------------
(* Provisioning of one AWS request and one Azure request, or of two with one *)
(* Resources.name.                                                          *)
EXTENDS Provisioning, TLC

MCRequests == {"ra", "rz"}
MCCloudOf == [r \in MCRequests |-> IF r = "ra" THEN "AWS" ELSE "AZURE"]
MCWanted == [r \in MCRequests |-> IF r = "ra" THEN {"vm"} ELSE {"st"}]
MCNames == [r \in MCRequests |-> r]

\* Beside them a second Azure request that has the other one's Resources.name.
MCTrio == MCRequests \cup {"ry"}
MCTrioCloud == [r \in MCTrio |-> IF r = "ra" THEN "AWS" ELSE "AZURE"]
MCTrioWanted == [r \in MCTrio |-> IF r = "ra" THEN {"vm"} ELSE {"st"}]
MCTrioNames == [r \in MCTrio |-> IF r = "ra" THEN "alone" ELSE "twins"]

Symmetry == Permutations(Patches)
==============================================================================

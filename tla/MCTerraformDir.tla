--------------------------- MODULE MCTerraformDir ---------------------------
(* Two provisioning runs for two requests that share a name.                *)
EXTENDS TerraformDir

MCRequests == {"ra", "rb"}
MCResourcesName == [r \in MCRequests |-> "n"]
=============================================================================

----------------------------- MODULE MCBackend -----------------------------
(***************************************************************************)
(* The handlers that leave requests under way alone: sessions with the     *)
(* settings they change, the dashboard, the catalogue.  The parts have no  *)
(* variable in common, so in a behaviour one of them moves and the others  *)
(* stay where they begin; sessions move twice, with the requests they make *)
(* and with the settings they change.                                      *)
(***************************************************************************)
EXTENDS Settings, Dashboard, Catalogue, TLC

MCClass == <<1, 1, 2, 3>>
MCEngine == <<"mysql", "postgres", "mysql", "mysql">>

VARIABLE part

MCInit ==
    /\ part \in {"requests", "settings", "dashboard", "catalogue"}
    /\ AllInit /\ DashboardInit /\ CatalogueInit
    /\ part # "dashboard" => requests = <<>>
    /\ part # "catalogue" => list = "azure" /\ limit = 1 /\ matching = {}

MCNext ==
    \/ part = "requests" /\ Next /\ UNCHANGED <<part, settings, dashboard, catalogue>>
    \/ part = "settings" /\ UNCHANGED <<part, owner, dashboard, catalogue>> /\ AllNext
    \/ part = "dashboard" /\ DashboardNext /\ UNCHANGED <<part, allVars, catalogue>>
    \/ part = "catalogue" /\ CatalogueNext /\ UNCHANGED <<part, allVars, dashboard>>

MCSpec == MCInit /\ [][MCNext]_<<part, allVars, dashboard, catalogue>>

\* Every part keeps its types.
TypesOK == TypeOK /\ SettingsTypeOK /\ DashboardTypeOK /\ CatalogueTypeOK

Symmetry == Permutations(Emails) \cup Permutations(Values)
=============================================================================

----------------------------- MODULE MCLocalReads ------------------------------
(* Instances of ItemContent and DesktopCatalog for TLC: what the connector   *)
(* reads from the local database without the desktop.  The two share no      *)
(* state, so in a behaviour one of them runs and the other keeps its start.  *)
EXTENDS ItemContent, DesktopCatalog

LocalReadsInit == Init /\ CatalogInit

LocalReadsNext ==
  \/ Next /\ CatalogInit /\ UNCHANGED catalogVars
  \/ CatalogNext /\ Init /\ UNCHANGED vars

LocalReadsSpec == LocalReadsInit /\ [][LocalReadsNext]_<<vars, catalogVars>>
=============================================================================

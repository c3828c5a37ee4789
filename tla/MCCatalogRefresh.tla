-------------------------- MODULE MCCatalogRefresh --------------------------
(* Values for the checks of CatalogRefresh.                                *)
EXTENDS CatalogRefresh

TickAndButton == {"tick", "button"}
JustTick == {"tick"}
=============================================================================

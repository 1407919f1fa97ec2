--------------------------- MODULE MCSanctionsGraph ---------------------------
(* SanctionsGraph on small instances: two lists that share an entity, in   *)
(* another place.                                                          *)
EXTENDS SanctionsGraph

MCSnapshots == {<<1, 2, 3>>, <<3, 4>>}
=============================================================================

-------------------------- MODULE MCFreezePromotion --------------------------
(* FreezePromotion with two revisions and two results, one of which lacks   *)
(* an artifact.                                                             *)
EXTENDS FreezePromotion

MCRevisions == {"rev1", "rev2"}
MCData == {"d1", "d2"}
MCPartial == {"d2"}
=============================================================================

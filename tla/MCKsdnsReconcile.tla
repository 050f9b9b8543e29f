------------------------- MODULE MCKsdnsReconcile -------------------------
(***************************************************************************)
(* Small instances of KsdnsReconcile.                                      *)
(***************************************************************************)
EXTENDS KsdnsReconcile, TLC

KsdnsSpec(zs, image, type) == [zones |-> zs, image |-> image, type |-> type]

GrowingZones == {KsdnsSpec(zs, "v1", "ClusterIP") : zs \in {{}, {"a"}}}
TwoTypes == {KsdnsSpec({"a", "b"}, "v1", t) : t \in {"ClusterIP", "NodePort"}}
=============================================================================

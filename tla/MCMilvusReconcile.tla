------------------------- MODULE MCMilvusReconcile --------------------------
(***************************************************************************)
(* Two images and a dependency, which stands for all of them.              *)
(***************************************************************************)
EXTENDS MilvusReconcile

CONSTANTS v1, v2, etcd

MCImages == {v1, v2}
MCDeps == {etcd}
=============================================================================

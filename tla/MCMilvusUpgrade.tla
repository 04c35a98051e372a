--------------------------- MODULE MCMilvusUpgrade ---------------------------
(* Instances of MilvusUpgrade for TLC.                                      *)
EXTENDS MilvusUpgrade

MCServing == [Workloads -> {0, 2}] \ {Zeros}
MCStopped == {Zeros}
MCNotRollback == NotRollbackStates
MCAtRest == {Succeeded, BakupMetaFailed, UpdateMetaFailed}
=============================================================================

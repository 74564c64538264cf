------------------------ MODULE MCShardedAdapterSave ------------------------
(* ShardedAdapterSave on small instances; the .cfg files give the values.  *)
EXTENDS ShardedAdapterSave
=============================================================================

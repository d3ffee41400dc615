----------------------------- MODULE MCRedisAof -----------------------------
(***************************************************************************)
(* RedisAof with two databases, an INCR in one of them and a transaction   *)
(* over both, so that there must be a SELECT and a MULTI in the file.      *)
(***************************************************************************)
EXTENDS RedisAof

MCCommands == {<<0>>, <<1, 0>>}

Config(policy, no_fsync, ordered) ==
  [appendfsync |-> policy, no_fsync_on_rewrite |-> no_fsync, ordered |-> ordered]
MCConfigs ==
  {Config("always", FALSE, TRUE), Config("everysec", FALSE, TRUE), Config("everysec", TRUE, FALSE)}
AlwaysFsync == {Config("always", FALSE, TRUE)}
=============================================================================

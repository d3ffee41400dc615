------------------------------ MODULE MCRedis ------------------------------
(* Small instances of RedisMulti: one key watched by two clients, and two  *)
(* keys renamed, moved and expired inside the transactions of one client.  *)
EXTENDS RedisMulti, TLC

CONSTANTS c1, c2, k1, k2, v1

Set(k, v) == [cmd |-> "set", key |-> k, val |-> v, nx |-> FALSE, ttl |-> FALSE]
SetNX(k, v) == [Set(k, v) EXCEPT !.nx = TRUE]
SetEX(k, v) == [Set(k, v) EXCEPT !.ttl = TRUE]

MCWatchCommands ==
  { Set(k1, v1), SetEX(k1, v1), DelOp({k1}),
    [cmd |-> "expire", key |-> k1, past |-> FALSE],
    [cmd |-> "expire", key |-> k1, past |-> TRUE],
    [cmd |-> "persist", key |-> k1], [cmd |-> "move", key |-> k1, db |-> 1],
    [cmd |-> "move", key |-> k1, db |-> 2],
    [cmd |-> "select", db |-> 1], [cmd |-> "select", db |-> 2],
    [cmd |-> "flushdb"], [cmd |-> "flushall"], [cmd |-> "unwatch"] }

MCTransactionCommands ==
  { [cmd |-> "get", key |-> k2], SetEX(k1, v1), SetNX(k2, v1),
    [cmd |-> "rename", key |-> k1, to |-> k2, nx |-> FALSE],
    [cmd |-> "rename", key |-> k2, to |-> k1, nx |-> TRUE],
    [cmd |-> "move", key |-> k1, db |-> 1],
    [cmd |-> "expire", key |-> k1, past |-> TRUE],
    [cmd |-> "select", db |-> 0], [cmd |-> "select", db |-> 1] }

MCSymmetry == Permutations(Clients)
=============================================================================

---------------------------- MODULE MCRedisSync ----------------------------
(* A small instance of RedisSync: two slaves, of which one can join the    *)
(* BGSAVE that was started for the other, and two databases.               *)
EXTENDS RedisSync

CONSTANTS s1, s2
=============================================================================

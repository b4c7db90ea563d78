-------------------------- MODULE MCRedisScheduler --------------------------
(* Small instances of RedisScheduler.                                      *)
EXTENDS RedisScheduler
=============================================================================

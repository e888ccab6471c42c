---------------------------- MODULE MCRedisStore ----------------------------
EXTENDS RedisStore, TLC

CONSTANTS k1, k2, a, b

Op(kind, on, ttl) == [kind |-> kind, on |-> on, ttl |-> ttl]

\* A value with a ttl may expire or not, so that set() without one shows nothing new; get is
\* left out, its command changes nothing, like that of healthCheck, and publish, a broadcast
\* to one channel.  The key that no call sets is that of the node that may be asked instead.
SomeOps == {Op("health", None, None), Op("set", k1, 1), Op("delete", k1, None),
    Op("clear", None, None), Op("broadcast", <<a, b>>, None),
    Op("connect", None, None), Op("connectPublisher", None, None), Op("disconnect", None, None)}

TwoNodes == (k1 :> 1) @@ (k2 :> 2)

Symmetric == Permutations(Calls)
=============================================================================

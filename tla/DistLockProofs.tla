--------------------------- MODULE DistLockProofs ---------------------------
(* Theorems about DistLock, for every set of flows, instances, keys and values. *)
EXTENDS DistLock, TLAPS

\* The fourteen variables keep their types in every reachable state.
THEOREM TypeCorrect == Spec => []TypeOK
<1>1. Init => TypeOK
  BY DEF Init, TypeOK, Results
<1>2. TypeOK /\ [Next]_vars => TypeOK'
  <2> SUFFICES ASSUME TypeOK, [Next]_vars PROVE TypeOK'
    OBVIOUS
  <2> USE OwnerAssumption, NoneAssumption DEF TypeOK, Results
  <2>1. ASSUME NEW k \in Keys, Expire(k) PROVE TypeOK'
    BY <2>1 DEF Expire, acqVars, instVars, callVars
  <2>2. ASSUME NEW v \in Values, Grant(v) PROVE TypeOK'
    BY <2>2 DEF Grant, instVars, callVars
  <2>3. ASSUME NEW v \in Values, Reject(v) PROVE TypeOK'
    BY <2>3 DEF Reject, redisVars, instVars, callVars
  <2>4. ASSUME NEW v \in Values, LoseGrant(v) PROVE TypeOK'
    BY <2>4 DEF LoseGrant, instVars, callVars
  <2>5. ASSUME NEW v \in Values, AcquireWins(v) PROVE TypeOK'
    BY <2>5 DEF AcquireWins, ClearTimeout, Return, redisVars
  <2>6. ASSUME NEW v \in Values, AcquireFails(v) PROVE TypeOK'
    BY <2>6 DEF AcquireFails, Return, redisVars, instVars
  <2>7. ASSUME NEW v \in Values, AcquireTimesOut(v) PROVE TypeOK'
    BY <2>7 DEF AcquireTimesOut, Return, redisVars, instVars
  <2>8. ASSUME NEW v \in Values, IdleTimerFires(v) PROVE TypeOK'
    BY <2>8 DEF IdleTimerFires, redisVars, instVars, callVars
  <2>9. ASSUME NEW c \in Callers, NEW k \in Keys, NEW v \in Values, Acquire(c, k, v)
        PROVE TypeOK'
    BY <2>9 DEF Acquire, redisVars
  <2>10. ASSUME NEW c \in Callers, NoLock(c) PROVE TypeOK'
    BY <2>10 DEF NoLock, Return, redisVars, acqVars, instVars
  <2>11. ASSUME NEW c \in Callers, Release(c) PROVE TypeOK'
    BY <2>11 DEF Release, redisVars, acqVars, instVars
  <2>12. ASSUME NEW c \in Callers, Extend(c) PROVE TypeOK'
    BY <2>12 DEF Extend, redisVars, acqVars, instVars
  <2>13. ASSUME NEW c \in Callers, RedisRelease(c) PROVE TypeOK'
    BY <2>13 DEF RedisRelease, acqVars, instVars
  <2>14. ASSUME NEW c \in Callers, RedisExtend(c) PROVE TypeOK'
    BY <2>14 DEF RedisExtend, redisVars, acqVars, instVars
  <2>15. ASSUME NEW c \in Callers, ReleaseReturns(c) PROVE TypeOK'
    BY <2>15 DEF ReleaseReturns, Return, redisVars, acqVars
  <2>16. ASSUME NEW c \in Callers, ExtendReturns(c) PROVE TypeOK'
    BY <2>16 DEF ExtendReturns, Return, redisVars, acqVars
  <2>17. ASSUME NEW c \in Callers, CallFails(c) PROVE TypeOK'
    BY <2>17 DEF CallFails, Return, redisVars, acqVars, instVars
  <2>18. CASE UNCHANGED vars
    BY <2>18 DEF vars, redisVars, acqVars, instVars, callVars
  <2>19. QED
    BY <2>1, <2>2, <2>3, <2>4, <2>5, <2>6, <2>7, <2>8, <2>9, <2>10, <2>11,
       <2>12, <2>13, <2>14, <2>15, <2>16, <2>17, <2>18 DEF Next
<1>3. QED
  BY <1>1, <1>2, PTL DEF Spec
-----------------------------------------------------------------------------
(* What an acquire, a handle and a pending call may refer to.  It holds     *)
(* however flows share instances.                                           *)

\* Values are used once: a value of no acquire is nowhere, one of an acquire has
\* a caller and a key, and redlock's progress agrees with the outcome of the race.
AcquiresOK ==
    \A v \in Values :
        /\ race[v] = "none" => redlock[v] = "none"
        /\ race[v] # "none" => caller[v] \in Callers /\ key[v] \in Keys /\ redlock[v] # "none"
        /\ race[v] = "open" =>
              /\ pc[caller[v]] = "acquire" /\ redlock[v] # "settled"
              /\ \A w \in Values : race[w] = "open" /\ caller[w] = caller[v] => w = v
        /\ race[v] = "lock" => redlock[v] = "settled"

\* Redis stores a value under the key of its acquire, after the grant.
StoreOK ==
    \A k \in Keys : store[k] # None =>
        key[store[k]] = k /\ redlock[store[k]] \notin {"none", "pending"}

\* #lock, and the lock object of a pending call, were won on this instance.
Won(v, i) == race[v] = "lock" /\ Owner[caller[v]] = i

HandlesOK ==
    /\ \A i \in Instances : lock[i] # None => Won(lock[i], i)
    /\ \A c \in Callers :
          /\ arg[c] # None => Won(arg[c], Owner[c])
          /\ holds[c] # None => Won(holds[c], Owner[c])
          /\ pc[c] \in {"release", "extend"} => arg[c] # None
          /\ pc[c] \in {"acquire", "release"} => holds[c] = None
          /\ pc[c] \in {"idle", "acquire"} => reply[c] = "none"

CallsInv == AcquiresOK /\ StoreOK /\ HandlesOK

-----------------------------------------------------------------------------
(* One flow per instance: the handle is the flow's own, and a lock whose TTL *)
(* did not run out is still in Redis.                                        *)

Stored(v) == v \notin lapsed => store[key[v]] = v

ExclusiveInv ==
    /\ HandleIsHeld
    /\ \A c \in Callers : pc[c] \in {"release", "extend"} => lock[Owner[c]] = arg[c]
    /\ \A v \in Values : redlock[v] = "granted" => Stored(v)
    /\ \A c \in Callers :
          /\ holds[c] # None => Stored(holds[c])
          /\ pc[c] = "extend" /\ reply[c] = "ok" => Stored(arg[c])
    /\ NoTypeError
-----------------------------------------------------------------------------

\* A step keeps what is known of the acquires.
LEMMA AcquiresStep ==
  TypeOK /\ CallsInv /\ [Next]_vars => AcquiresOK'
<1> SUFFICES ASSUME TypeOK, CallsInv, [Next]_vars PROVE AcquiresOK'
  OBVIOUS
<1> USE OwnerAssumption, NoneAssumption DEF TypeOK, CallsInv, AcquiresOK, StoreOK, HandlesOK, Won
<1>1. ASSUME NEW k \in Keys, Expire(k) PROVE AcquiresOK'
  BY <1>1 DEF Expire, acqVars, instVars, callVars
<1>2. ASSUME NEW v \in Values, Grant(v) PROVE AcquiresOK'
  BY <1>2 DEF Grant, instVars, callVars
<1>3. ASSUME NEW v \in Values, Reject(v) PROVE AcquiresOK'
  BY <1>3 DEF Reject, redisVars, instVars, callVars
<1>4. ASSUME NEW v \in Values, LoseGrant(v) PROVE AcquiresOK'
  BY <1>4 DEF LoseGrant, instVars, callVars
<1>5. ASSUME NEW v \in Values, AcquireWins(v) PROVE AcquiresOK'
  BY <1>5 DEF AcquireWins, ClearTimeout, Return, redisVars
<1>6. ASSUME NEW v \in Values, AcquireFails(v) PROVE AcquiresOK'
  BY <1>6 DEF AcquireFails, Return, redisVars, instVars
<1>7. ASSUME NEW v \in Values, AcquireTimesOut(v) PROVE AcquiresOK'
  BY <1>7 DEF AcquireTimesOut, Return, redisVars, instVars
<1>8. ASSUME NEW v \in Values, IdleTimerFires(v) PROVE AcquiresOK'
  BY <1>8 DEF IdleTimerFires, redisVars, instVars, callVars
<1>9. ASSUME NEW c \in Callers, NEW k \in Keys, NEW v \in Values, Acquire(c, k, v)
      PROVE AcquiresOK'
  BY <1>9 DEF Acquire, redisVars
<1>10. ASSUME NEW c \in Callers, NoLock(c) PROVE AcquiresOK'
  BY <1>10 DEF NoLock, Return, redisVars, acqVars, instVars
<1>11. ASSUME NEW c \in Callers, Release(c) PROVE AcquiresOK'
  BY <1>11 DEF Release, redisVars, acqVars, instVars
<1>12. ASSUME NEW c \in Callers, Extend(c) PROVE AcquiresOK'
  BY <1>12 DEF Extend, redisVars, acqVars, instVars
<1>13. ASSUME NEW c \in Callers, RedisRelease(c) PROVE AcquiresOK'
  BY <1>13 DEF RedisRelease, acqVars, instVars
<1>14. ASSUME NEW c \in Callers, RedisExtend(c) PROVE AcquiresOK'
  BY <1>14 DEF RedisExtend, redisVars, acqVars, instVars
<1>15. ASSUME NEW c \in Callers, ReleaseReturns(c) PROVE AcquiresOK'
  BY <1>15 DEF ReleaseReturns, Return, redisVars, acqVars
<1>16. ASSUME NEW c \in Callers, ExtendReturns(c) PROVE AcquiresOK'
  BY <1>16 DEF ExtendReturns, Return, redisVars, acqVars
<1>17. ASSUME NEW c \in Callers, CallFails(c) PROVE AcquiresOK'
  BY <1>17 DEF CallFails, Return, redisVars, acqVars, instVars
<1>18. CASE UNCHANGED vars
  BY <1>18 DEF vars, redisVars, acqVars, instVars, callVars
<1>19. QED
  BY <1>1, <1>2, <1>3, <1>4, <1>5, <1>6, <1>7, <1>8, <1>9, <1>10, <1>11,
     <1>12, <1>13, <1>14, <1>15, <1>16, <1>17, <1>18 DEF Next

\* A step keeps what is known of the values in Redis.
LEMMA StoreStep ==
  TypeOK /\ CallsInv /\ [Next]_vars => StoreOK'
<1> SUFFICES ASSUME TypeOK, CallsInv, [Next]_vars PROVE StoreOK'
  OBVIOUS
<1> USE OwnerAssumption, NoneAssumption DEF TypeOK, CallsInv, AcquiresOK, StoreOK
<1>1. ASSUME NEW k \in Keys, Expire(k) PROVE StoreOK'
  BY <1>1 DEF Expire, acqVars, instVars, callVars
<1>2. ASSUME NEW v \in Values, Grant(v) PROVE StoreOK'
  BY <1>2 DEF Grant, instVars, callVars
<1>3. ASSUME NEW v \in Values, Reject(v) PROVE StoreOK'
  BY <1>3 DEF Reject, redisVars, instVars, callVars
<1>4. ASSUME NEW v \in Values, LoseGrant(v) PROVE StoreOK'
  BY <1>4 DEF LoseGrant, instVars, callVars
<1>5. ASSUME NEW v \in Values, AcquireWins(v) PROVE StoreOK'
  BY <1>5 DEF AcquireWins, ClearTimeout, Return, redisVars
<1>6. ASSUME NEW v \in Values, AcquireFails(v) PROVE StoreOK'
  BY <1>6 DEF AcquireFails, Return, redisVars, instVars
<1>7. ASSUME NEW v \in Values, AcquireTimesOut(v) PROVE StoreOK'
  BY <1>7 DEF AcquireTimesOut, Return, redisVars, instVars
<1>8. ASSUME NEW v \in Values, IdleTimerFires(v) PROVE StoreOK'
  BY <1>8 DEF IdleTimerFires, redisVars, instVars, callVars
<1>9. ASSUME NEW c \in Callers, NEW k \in Keys, NEW v \in Values, Acquire(c, k, v)
      PROVE StoreOK'
  BY <1>9 DEF Acquire, redisVars
<1>10. ASSUME NEW c \in Callers, NoLock(c) PROVE StoreOK'
  BY <1>10 DEF NoLock, Return, redisVars, acqVars, instVars
<1>11. ASSUME NEW c \in Callers, Release(c) PROVE StoreOK'
  BY <1>11 DEF Release, redisVars, acqVars, instVars
<1>12. ASSUME NEW c \in Callers, Extend(c) PROVE StoreOK'
  BY <1>12 DEF Extend, redisVars, acqVars, instVars
<1>13. ASSUME NEW c \in Callers, RedisRelease(c) PROVE StoreOK'
  BY <1>13 DEF RedisRelease, acqVars, instVars
<1>14. ASSUME NEW c \in Callers, RedisExtend(c) PROVE StoreOK'
  BY <1>14 DEF RedisExtend, redisVars, acqVars, instVars
<1>15. ASSUME NEW c \in Callers, ReleaseReturns(c) PROVE StoreOK'
  BY <1>15 DEF ReleaseReturns, Return, redisVars, acqVars
<1>16. ASSUME NEW c \in Callers, ExtendReturns(c) PROVE StoreOK'
  BY <1>16 DEF ExtendReturns, Return, redisVars, acqVars
<1>17. ASSUME NEW c \in Callers, CallFails(c) PROVE StoreOK'
  BY <1>17 DEF CallFails, Return, redisVars, acqVars, instVars
<1>18. CASE UNCHANGED vars
  BY <1>18 DEF vars, redisVars, acqVars, instVars, callVars
<1>19. QED
  BY <1>1, <1>2, <1>3, <1>4, <1>5, <1>6, <1>7, <1>8, <1>9, <1>10, <1>11,
     <1>12, <1>13, <1>14, <1>15, <1>16, <1>17, <1>18 DEF Next

\* A step keeps what is known of handles and pending calls.
LEMMA HandlesStep ==
  TypeOK /\ CallsInv /\ [Next]_vars => HandlesOK'
<1> SUFFICES ASSUME TypeOK, CallsInv, [Next]_vars PROVE HandlesOK'
  OBVIOUS
<1> USE OwnerAssumption, NoneAssumption DEF TypeOK, CallsInv, AcquiresOK, HandlesOK, Won
<1>1. ASSUME NEW k \in Keys, Expire(k) PROVE HandlesOK'
  BY <1>1 DEF Expire, acqVars, instVars, callVars
<1>2. ASSUME NEW v \in Values, Grant(v) PROVE HandlesOK'
  BY <1>2 DEF Grant, instVars, callVars
<1>3. ASSUME NEW v \in Values, Reject(v) PROVE HandlesOK'
  BY <1>3 DEF Reject, redisVars, instVars, callVars
<1>4. ASSUME NEW v \in Values, LoseGrant(v) PROVE HandlesOK'
  BY <1>4 DEF LoseGrant, instVars, callVars
<1>5. ASSUME NEW v \in Values, AcquireWins(v) PROVE HandlesOK'
  BY <1>5 DEF AcquireWins, ClearTimeout, Return, redisVars
<1>6. ASSUME NEW v \in Values, AcquireFails(v) PROVE HandlesOK'
  BY <1>6 DEF AcquireFails, Return, redisVars, instVars
<1>7. ASSUME NEW v \in Values, AcquireTimesOut(v) PROVE HandlesOK'
  BY <1>7 DEF AcquireTimesOut, Return, redisVars, instVars
<1>8. ASSUME NEW v \in Values, IdleTimerFires(v) PROVE HandlesOK'
  BY <1>8 DEF IdleTimerFires, redisVars, instVars, callVars
<1>9. ASSUME NEW c \in Callers, NEW k \in Keys, NEW v \in Values, Acquire(c, k, v)
      PROVE HandlesOK'
  BY <1>9 DEF Acquire, redisVars
<1>10. ASSUME NEW c \in Callers, NoLock(c) PROVE HandlesOK'
  BY <1>10 DEF NoLock, Return, redisVars, acqVars, instVars
<1>11. ASSUME NEW c \in Callers, Release(c) PROVE HandlesOK'
  BY <1>11 DEF Release, redisVars, acqVars, instVars
<1>12. ASSUME NEW c \in Callers, Extend(c) PROVE HandlesOK'
  BY <1>12 DEF Extend, redisVars, acqVars, instVars
<1>13. ASSUME NEW c \in Callers, RedisRelease(c) PROVE HandlesOK'
  BY <1>13 DEF RedisRelease, acqVars, instVars
<1>14. ASSUME NEW c \in Callers, RedisExtend(c) PROVE HandlesOK'
  BY <1>14 DEF RedisExtend, redisVars, acqVars, instVars
<1>15. ASSUME NEW c \in Callers, ReleaseReturns(c) PROVE HandlesOK'
  BY <1>15 DEF ReleaseReturns, Return, redisVars, acqVars
<1>16. ASSUME NEW c \in Callers, ExtendReturns(c) PROVE HandlesOK'
  BY <1>16 DEF ExtendReturns, Return, redisVars, acqVars
<1>17. ASSUME NEW c \in Callers, CallFails(c) PROVE HandlesOK'
  BY <1>17 DEF CallFails, Return, redisVars, acqVars, instVars
<1>18. CASE UNCHANGED vars
  BY <1>18 DEF vars, redisVars, acqVars, instVars, callVars
<1>19. QED
  BY <1>1, <1>2, <1>3, <1>4, <1>5, <1>6, <1>7, <1>8, <1>9, <1>10, <1>11,
     <1>12, <1>13, <1>14, <1>15, <1>16, <1>17, <1>18 DEF Next

\* With one flow per instance, a step keeps handles and Redis in agreement.
LEMMA ExclusiveStep ==
  TypeOK /\ CallsInv /\ Exclusive /\ ExclusiveInv /\ [Next]_vars => ExclusiveInv'
<1> SUFFICES ASSUME TypeOK, CallsInv, Exclusive, ExclusiveInv, [Next]_vars PROVE ExclusiveInv'
  OBVIOUS
<1> USE OwnerAssumption, NoneAssumption DEF TypeOK, CallsInv, AcquiresOK, StoreOK, HandlesOK, Won, Exclusive,
           ExclusiveInv, Stored, HandleIsHeld, NoTypeError
<1>1. ASSUME NEW k \in Keys, Expire(k) PROVE ExclusiveInv'
  BY <1>1 DEF Expire, acqVars, instVars, callVars
<1>2. ASSUME NEW v \in Values, Grant(v) PROVE ExclusiveInv'
  BY <1>2 DEF Grant, instVars, callVars
<1>3. ASSUME NEW v \in Values, Reject(v) PROVE ExclusiveInv'
  BY <1>3 DEF Reject, redisVars, instVars, callVars
<1>4. ASSUME NEW v \in Values, LoseGrant(v) PROVE ExclusiveInv'
  BY <1>4 DEF LoseGrant, instVars, callVars
<1>5. ASSUME NEW v \in Values, AcquireWins(v) PROVE ExclusiveInv'
  BY <1>5 DEF AcquireWins, ClearTimeout, Return, redisVars
<1>6. ASSUME NEW v \in Values, AcquireFails(v) PROVE ExclusiveInv'
  BY <1>6 DEF AcquireFails, Return, redisVars, instVars
<1>7. ASSUME NEW v \in Values, AcquireTimesOut(v) PROVE ExclusiveInv'
  BY <1>7 DEF AcquireTimesOut, Return, redisVars, instVars
<1>8. ASSUME NEW v \in Values, IdleTimerFires(v) PROVE ExclusiveInv'
  BY <1>8 DEF IdleTimerFires, redisVars, instVars, callVars
<1>9. ASSUME NEW c \in Callers, NEW k \in Keys, NEW v \in Values, Acquire(c, k, v)
      PROVE ExclusiveInv'
  BY <1>9 DEF Acquire, redisVars
<1>10. ASSUME NEW c \in Callers, NoLock(c) PROVE ExclusiveInv'
  BY <1>10 DEF NoLock, Return, redisVars, acqVars, instVars
<1>11. ASSUME NEW c \in Callers, Release(c) PROVE ExclusiveInv'
  BY <1>11 DEF Release, redisVars, acqVars, instVars
<1>12. ASSUME NEW c \in Callers, Extend(c) PROVE ExclusiveInv'
  BY <1>12 DEF Extend, redisVars, acqVars, instVars
<1>13. ASSUME NEW c \in Callers, RedisRelease(c) PROVE ExclusiveInv'
  BY <1>13 DEF RedisRelease, acqVars, instVars
<1>14. ASSUME NEW c \in Callers, RedisExtend(c) PROVE ExclusiveInv'
  BY <1>14 DEF RedisExtend, redisVars, acqVars, instVars
<1>15. ASSUME NEW c \in Callers, ReleaseReturns(c) PROVE ExclusiveInv'
  BY <1>15 DEF ReleaseReturns, Return, redisVars, acqVars
<1>16. ASSUME NEW c \in Callers, ExtendReturns(c) PROVE ExclusiveInv'
  BY <1>16 DEF ExtendReturns, Return, redisVars, acqVars
<1>17. ASSUME NEW c \in Callers, CallFails(c) PROVE ExclusiveInv'
  BY <1>17 DEF CallFails, Return, redisVars, acqVars, instVars
<1>18. CASE UNCHANGED vars
  BY <1>18 DEF vars, redisVars, acqVars, instVars, callVars
<1>19. QED
  BY <1>1, <1>2, <1>3, <1>4, <1>5, <1>6, <1>7, <1>8, <1>9, <1>10, <1>11,
     <1>12, <1>13, <1>14, <1>15, <1>16, <1>17, <1>18 DEF Next
-----------------------------------------------------------------------------
\* What handles, pending calls and Redis refer to, in every reachable state.
THEOREM CallsCorrect == Spec => [](TypeOK /\ CallsInv)
<1>1. Init => CallsInv
  BY DEF Init, CallsInv, AcquiresOK, StoreOK, HandlesOK
<1>2. TypeOK /\ CallsInv /\ [Next]_vars => CallsInv'
  BY AcquiresStep, StoreStep, HandlesStep DEF CallsInv
<1>3. QED
  BY <1>1, <1>2, TypeCorrect, PTL DEF Spec

\* An acquire that reported a failure never provides #lock, nor the lock a flow
\* acts under, whether or not flows share instances.
THEOREM LateGrants == Spec => []LateGrantIgnored
<1>1. TypeOK /\ CallsInv => LateGrantIgnored
  BY NoneAssumption DEF TypeOK, CallsInv, HandlesOK, Won, LateGrantIgnored
<1>2. QED
  BY <1>1, CallsCorrect, PTL

\* release() removes from Redis only what an acquire on the same instance stored,
\* whether or not flows share instances.
THEOREM ReleaseIsLocal == Spec => ReleaseWithinInstance
<1> DEFINE A == \A c \in Callers, k \in Keys :
                  RedisRelease(c) /\ store'[k] # store[k]
                     => Owner[caller[store[k]]] = Owner[c]
<1>1. TypeOK /\ CallsInv /\ [Next]_vars => [A]_vars
  <2> SUFFICES ASSUME TypeOK, CallsInv, NEW c \in Callers, NEW k \in Keys,
                      RedisRelease(c), store'[k] # store[k]
               PROVE  Owner[caller[store[k]]] = Owner[c]
    OBVIOUS
  <2>1. store[k] = arg[c] /\ arg[c] # None
    BY DEF TypeOK, CallsInv, HandlesOK, RedisRelease
  <2>2. QED
    BY <2>1 DEF CallsInv, HandlesOK, Won
<1>2. QED
  BY <1>1, CallsCorrect, PTL DEF Spec, ReleaseWithinInstance

\* With one flow per instance, the inductive invariant behind mutual exclusion.
THEOREM ExclusiveCorrect ==
  ASSUME Exclusive
  PROVE  Spec => [](TypeOK /\ CallsInv /\ ExclusiveInv)
<1>1. Init => ExclusiveInv
  BY NoneAssumption DEF Init, ExclusiveInv, HandleIsHeld, NoTypeError
<1>2. TypeOK /\ CallsInv /\ ExclusiveInv /\ [Next]_vars => ExclusiveInv'
  BY ExclusiveStep
<1>3. QED
  BY <1>1, <1>2, CallsCorrect, PTL DEF Spec

\* One flow per instance: no two flows act under unexpired locks on one key.
THEOREM MutualExclusionHolds ==
  ASSUME Exclusive
  PROVE  Spec => []MutualExclusion
<1>1. TypeOK /\ CallsInv /\ ExclusiveInv => MutualExclusion
  <2> SUFFICES ASSUME TypeOK, CallsInv, ExclusiveInv,
                      NEW c \in Callers, NEW d \in Callers,
                      holds[c] # None, holds[d] # None,
                      key[holds[c]] = key[holds[d]],
                      holds[c] \notin lapsed, holds[d] \notin lapsed
               PROVE  c = d
    BY DEF MutualExclusion
  <2>1. holds[c] = holds[d]
    BY DEF ExclusiveInv, Stored
  <2>2. Owner[c] = Owner[d]
    BY <2>1 DEF CallsInv, HandlesOK, Won
  <2>3. QED
    BY <2>2 DEF Exclusive
<1>2. QED
  BY <1>1, ExclusiveCorrect, PTL

\* One flow per instance: release() and extend() concern the lock the flow acts
\* under, and release() never dereferences a null #lock.
THEOREM HandlesAgree ==
  ASSUME Exclusive
  PROVE  Spec => [](HandleIsHeld /\ NoTypeError)
<1>1. ExclusiveInv => HandleIsHeld /\ NoTypeError
  BY DEF ExclusiveInv
<1>2. QED
  BY <1>1, ExclusiveCorrect, PTL
-----------------------------------------------------------------------------
(* The timers of pending acquires.                                         *)

\* The timer of a pending acquire is armed, and the one its instance refers to.
PendingTimed ==
    \A v \in Values : race[v] = "open" => timer[v] = "armed" /\ timeout[Owner[caller[v]]] = v

\* One flow per instance: no step disarms the timer of an acquire that it leaves pending.
LEMMA TimersStep ==
  ASSUME Exclusive
  PROVE  TypeOK /\ CallsInv /\ PendingTimed /\ [Next]_vars => PendingTimed'
<1> SUFFICES ASSUME TypeOK, CallsInv, PendingTimed, [Next]_vars PROVE PendingTimed'
  OBVIOUS
<1> USE OwnerAssumption, NoneAssumption DEF TypeOK, PendingTimed
<1>1. ASSUME NEW k \in Keys, Expire(k) PROVE PendingTimed'
  BY <1>1 DEF Expire, acqVars, instVars
<1>2. ASSUME NEW v \in Values, Grant(v) \/ Reject(v) \/ LoseGrant(v) PROVE PendingTimed'
  BY <1>2 DEF Grant, Reject, LoseGrant, instVars
<1>3. ASSUME NEW v \in Values, AcquireWins(v) PROVE PendingTimed'
  <2>1. timeout[Owner[caller[v]]] = v
    BY <1>3 DEF AcquireWins
  <2>2. timer' = [timer EXCEPT ![v] = "cleared"] /\ race' = [race EXCEPT ![v] = "lock"]
        /\ UNCHANGED <<caller, timeout>>
    BY <1>3, <2>1 DEF AcquireWins, ClearTimeout
  <2>3. QED
    BY <2>2
<1>4. ASSUME NEW v \in Values, AcquireFails(v) \/ AcquireTimesOut(v) \/ IdleTimerFires(v)
      PROVE  PendingTimed'
  BY <1>4 DEF AcquireFails, AcquireTimesOut, IdleTimerFires, instVars
<1>5. ASSUME NEW c \in Callers, NEW k \in Keys, NEW v \in Values, Acquire(c, k, v)
      PROVE PendingTimed'
  <2>1. ASSUME NEW w \in Values, race[w] = "open"
        PROVE  w # v /\ caller[w] \in Callers /\ Owner[caller[w]] # Owner[c]
    BY <1>5, <2>1 DEF Acquire, CallsInv, AcquiresOK, Exclusive
  <2>2. QED
    BY <1>5, <2>1 DEF Acquire
<1>6. ASSUME NEW c \in Callers, NoLock(c) \/ Release(c) \/ Extend(c) PROVE PendingTimed'
  BY <1>6 DEF NoLock, Release, Extend, acqVars, instVars
<1>7. ASSUME NEW c \in Callers, RedisRelease(c) \/ RedisExtend(c) PROVE PendingTimed'
  BY <1>7 DEF RedisRelease, RedisExtend, acqVars, instVars
<1>8. ASSUME NEW c \in Callers, ReleaseReturns(c) \/ ExtendReturns(c) \/ CallFails(c)
      PROVE  PendingTimed'
  BY <1>8 DEF ReleaseReturns, ExtendReturns, CallFails, acqVars, instVars
<1>9. CASE UNCHANGED vars
  BY <1>9 DEF vars, acqVars, instVars
<1>10. QED
  BY <1>1, <1>2, <1>3, <1>4, <1>5, <1>6, <1>7, <1>8, <1>9 DEF Next

\* One flow per instance: however silent Redis is, the timer of a pending acquire() is armed
\* and the instance refers to it, so AcquireSettles depends on nothing but Node's timers.
THEOREM PendingAreTimed ==
  ASSUME Exclusive
  PROVE  Spec => []PendingTimed
<1>1. Init => PendingTimed
  BY DEF Init, PendingTimed
<1>2. TypeOK /\ CallsInv /\ PendingTimed /\ [Next]_vars => PendingTimed'
  BY TimersStep
<1>3. QED
  BY <1>1, <1>2, CallsCorrect, PTL DEF Spec

-----------------------------------------------------------------------------
(* DistLock implements Lease.                                              *)

\* A step that changes neither what flows act under nor what ran out.
LEMMA NoLeaseStep ==
  ASSUME TypeOK, holds' = holds, lapsed' = lapsed,
         \A c \in Callers : holds[c] # None => key'[holds[c]] = key[holds[c]]
  PROVE  UNCHANGED L!vars
<1>1. Acting' = Acting
  BY DEF Acting
<1>2. Overrun' = Overrun
  BY DEF Overrun
<1>3. QED
  BY <1>1, <1>2 DEF L!vars

\* A flow stops acting, or did not act.
LEMMA LeaveStep ==
  ASSUME TypeOK, NEW c \in Callers, holds' = [holds EXCEPT ![c] = None],
         lapsed' = lapsed, key' = key,
         holds[c] # None => key[holds[c]] \in Keys
  PROVE  L!Leave(c) \/ UNCHANGED L!vars
<1> USE NoneAssumption DEF TypeOK
<1>1. CASE holds[c] = None
  <2>1. holds' = holds
    BY <1>1
  <2>2. QED
    BY <2>1, NoLeaseStep
<1>2. CASE holds[c] # None
  <2>1. Acting[c] # None
    BY <1>2 DEF Acting
  <2>2. Acting' = [Acting EXCEPT ![c] = None]
    BY DEF Acting
  <2>3. Overrun' = Overrun \ {c}
    BY DEF Overrun
  <2>4. QED
    BY <2>1, <2>2, <2>3 DEF L!Leave
<1>3. QED
  BY <1>1, <1>2

\* A flow begins to act under v; if v is good, every other lock on its key ran out.
LEMMA BeginStep ==
  ASSUME TypeOK, NEW c \in Callers, NEW v \in Values, holds[c] = None,
         holds' = [holds EXCEPT ![c] = v], lapsed' = lapsed, key' = key, key[v] \in Keys,
         \A d \in Callers : /\ v \notin lapsed
                            /\ holds[d] # None /\ key[holds[d]] = key[v]
                            => holds[d] \in lapsed
  PROVE  L!Take(c, key[v]) \/ L!TakeTooLate(c, key[v])
<1> USE NoneAssumption DEF TypeOK
<1>1. Acting[c] = None /\ Acting' = [Acting EXCEPT ![c] = key[v]]
  BY DEF Acting
<1>2. CASE v \in lapsed
  <2>1. Overrun' = Overrun \cup {c}
    BY <1>2 DEF Overrun
  <2>2. QED
    BY <1>1, <2>1 DEF L!TakeTooLate, L!Begin
<1>3. CASE v \notin lapsed
  <2>1. Overrun' = Overrun
    BY <1>3 DEF Overrun
  <2>2. \A d \in Callers : Acting[d] = key[v] => d \in Overrun
    BY <1>3 DEF Acting, Overrun
  <2>3. QED
    BY <1>1, <2>1, <2>2 DEF L!Take, L!Begin
<1>4. QED
  BY <1>2, <1>3

\* With one flow per instance every step is a step of the lease or none.
LEMMA LeaseStep ==
  TypeOK /\ CallsInv /\ Exclusive /\ ExclusiveInv /\ [Next]_vars => [L!Next]_(L!vars)
<1> SUFFICES ASSUME TypeOK, CallsInv, Exclusive, ExclusiveInv, [Next]_vars
             PROVE  [L!Next]_(L!vars)
  OBVIOUS
<1> USE OwnerAssumption, NoneAssumption
<1>a. \A c \in Callers : holds[c] # None =>
        /\ holds[c] \in Values /\ race[holds[c]] = "lock" /\ key[holds[c]] \in Keys
        /\ Owner[caller[holds[c]]] = Owner[c]
        /\ holds[c] \notin lapsed => store[key[holds[c]]] = holds[c]
  BY DEF TypeOK, CallsInv, AcquiresOK, HandlesOK, Won, ExclusiveInv, Stored
<1>b. ASSUME NEW c \in Callers, holds' = [holds EXCEPT ![c] = None],
             lapsed' = lapsed, key' = key
      PROVE  [L!Next]_(L!vars)
  BY <1>a, <1>b, LeaveStep DEF L!Next
<1>c. ASSUME holds' = holds, lapsed' = lapsed, key' = key
      PROVE  [L!Next]_(L!vars)
  BY <1>c, NoLeaseStep
<1>1. ASSUME NEW k \in Keys, Expire(k) PROVE [L!Next]_(L!vars)
  <2>1. store[k] \in Values /\ lapsed' = lapsed \cup {store[k]} /\ holds' = holds /\ key' = key
    BY <1>1 DEF Expire, TypeOK, acqVars, callVars
  <2>2. Acting' = Acting
    BY <2>1 DEF Acting
  <2>3. CASE \E c \in Callers : holds[c] = store[k]
    <3>1. PICK c \in Callers : holds[c] = store[k]
      BY <2>3
    <3>2. \A d \in Callers : holds[d] = store[k] => d = c
      BY <1>a, <2>1, <3>1 DEF Exclusive
    <3>3. Overrun' = Overrun \cup {c}
      BY <2>1, <3>1, <3>2 DEF Overrun
    <3>4. Acting[c] # None
      BY <1>a, <2>1, <3>1 DEF Acting
    <3>5. QED
      BY <2>2, <3>3, <3>4 DEF L!RunOut, L!Next
  <2>4. CASE ~ \E c \in Callers : holds[c] = store[k]
    <3>1. Overrun' = Overrun
      BY <2>1, <2>4 DEF Overrun
    <3>2. QED
      BY <2>2, <3>1 DEF L!vars
  <2>5. QED
    BY <2>3, <2>4
<1>2. ASSUME NEW v \in Values, Grant(v) PROVE [L!Next]_(L!vars)
  BY <1>2, <1>c DEF Grant, callVars
<1>3. ASSUME NEW v \in Values, Reject(v) PROVE [L!Next]_(L!vars)
  BY <1>3, <1>c DEF Reject, redisVars, callVars
<1>4. ASSUME NEW v \in Values, LoseGrant(v) PROVE [L!Next]_(L!vars)
  BY <1>4, <1>c DEF LoseGrant, callVars
<1>5. ASSUME NEW v \in Values, AcquireWins(v) PROVE [L!Next]_(L!vars)
  <2>1. /\ caller[v] \in Callers /\ key[v] \in Keys /\ holds[caller[v]] = None
        /\ v \notin lapsed => store[key[v]] = v
    BY <1>5 DEF AcquireWins, CallsInv, AcquiresOK, HandlesOK, ExclusiveInv, Stored
  <2>2. \A d \in Callers : holds[d] # v
    BY <1>5, <1>a DEF AcquireWins, TypeOK
  <2>3. holds' = [holds EXCEPT ![caller[v]] = v] /\ lapsed' = lapsed /\ key' = key
    BY <1>5 DEF AcquireWins, Return, redisVars
  <2>4. \A d \in Callers : /\ v \notin lapsed
                            /\ holds[d] # None /\ key[holds[d]] = key[v]
                            => holds[d] \in lapsed
    BY <1>a, <2>1, <2>2
  <2>5. QED
    BY <2>1, <2>3, <2>4, BeginStep DEF L!Next
<1>6. ASSUME NEW v \in Values, AcquireFails(v) PROVE [L!Next]_(L!vars)
  <2>1. caller[v] \in Callers
    BY <1>6 DEF AcquireFails, CallsInv, AcquiresOK
  <2>2. QED
    BY <1>6, <1>b, <2>1 DEF AcquireFails, Return, redisVars
<1>7. ASSUME NEW v \in Values, AcquireTimesOut(v) PROVE [L!Next]_(L!vars)
  <2>1. caller[v] \in Callers
    BY <1>7 DEF AcquireTimesOut, CallsInv, AcquiresOK
  <2>2. QED
    BY <1>7, <1>b, <2>1 DEF AcquireTimesOut, Return, redisVars
<1>8. ASSUME NEW v \in Values, IdleTimerFires(v) PROVE [L!Next]_(L!vars)
  BY <1>8, <1>c DEF IdleTimerFires, redisVars, callVars
<1>9. ASSUME NEW c \in Callers, NEW k \in Keys, NEW v \in Values, Acquire(c, k, v)
      PROVE  [L!Next]_(L!vars)
  <2>1. \A d \in Callers : holds[d] # None => key'[holds[d]] = key[holds[d]]
    BY <1>9, <1>a DEF Acquire, TypeOK
  <2>2. QED
    BY <1>9, <2>1, NoLeaseStep DEF Acquire, redisVars
<1>10. ASSUME NEW c \in Callers, NoLock(c) PROVE [L!Next]_(L!vars)
  BY <1>10, <1>b DEF NoLock, Return, redisVars, acqVars
<1>11. ASSUME NEW c \in Callers, Release(c) PROVE [L!Next]_(L!vars)
  BY <1>11, <1>b DEF Release, redisVars, acqVars
<1>12. ASSUME NEW c \in Callers, Extend(c) PROVE [L!Next]_(L!vars)
  BY <1>12, <1>c DEF Extend, redisVars, acqVars
<1>13. ASSUME NEW c \in Callers, RedisRelease(c) PROVE [L!Next]_(L!vars)
  BY <1>13, <1>c DEF RedisRelease, acqVars
<1>14. ASSUME NEW c \in Callers, RedisExtend(c) PROVE [L!Next]_(L!vars)
  BY <1>14, <1>c DEF RedisExtend, redisVars, acqVars
<1>15. ASSUME NEW c \in Callers, ReleaseReturns(c) PROVE [L!Next]_(L!vars)
  BY <1>15, <1>b DEF ReleaseReturns, Return, redisVars, acqVars
<1>16. ASSUME NEW c \in Callers, ExtendReturns(c) PROVE [L!Next]_(L!vars)
  <2>1. /\ holds' = [holds EXCEPT ![c] = arg[c]] /\ lapsed' = lapsed /\ key' = key
    BY <1>16 DEF ExtendReturns, Return, redisVars, acqVars
  <2>2. /\ arg[c] \in Values /\ race[arg[c]] = "lock" /\ key[arg[c]] \in Keys
        /\ Owner[caller[arg[c]]] = Owner[c] /\ lock[Owner[c]] = arg[c]
        /\ arg[c] \notin lapsed => store[key[arg[c]]] = arg[c]
    BY <1>16 DEF ExtendReturns, TypeOK, CallsInv, HandlesOK, AcquiresOK, Won, ExclusiveInv, Stored
  <2>3. CASE holds[c] = None
    <3>1. \A d \in Callers : /\ arg[c] \notin lapsed
                              /\ holds[d] # None /\ key[holds[d]] = key[arg[c]]
                              => holds[d] \in lapsed
      BY <1>a, <2>2, <2>3 DEF Exclusive
    <3>2. QED
      BY <2>1, <2>2, <2>3, <3>1, BeginStep DEF L!Next
  <2>4. CASE holds[c] # None
    <3>1. holds[c] = arg[c]
      BY <2>2, <2>4 DEF ExclusiveInv, HandleIsHeld
    <3>2. holds' = holds
      BY <2>1, <3>1 DEF TypeOK
    <3>3. QED
      BY <2>1, <3>2, <1>c
  <2>5. QED
    BY <2>3, <2>4
<1>17. ASSUME NEW c \in Callers, CallFails(c) PROVE [L!Next]_(L!vars)
  BY <1>17, <1>b DEF CallFails, Return, redisVars, acqVars
<1>18. CASE UNCHANGED vars
  BY <1>18, <1>c DEF vars, redisVars, acqVars, callVars
<1>19. QED
  BY <1>1, <1>2, <1>3, <1>4, <1>5, <1>6, <1>7, <1>8, <1>9, <1>10, <1>11,
     <1>12, <1>13, <1>14, <1>15, <1>16, <1>17, <1>18 DEF Next

\* One flow per instance: the locks the flows act under are leases, of which no two on
\* one key are good at a time.
THEOREM LeaseImplemented ==
  ASSUME Exclusive
  PROVE  Spec => ImplementsLease
<1>1. Init => L!Init
  BY NoneAssumption DEF Init, L!Init, Acting, Overrun
<1>2. TypeOK /\ CallsInv /\ ExclusiveInv /\ [Next]_vars => [L!Next]_(L!vars)
  BY LeaseStep
<1>3. QED
  BY <1>1, <1>2, ExclusiveCorrect, PTL DEF Spec, ImplementsLease, L!Spec
=============================================================================

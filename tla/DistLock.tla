------------------------------ MODULE DistLock ------------------------------
(***************************************************************************)
(* The distributed lock of src/util/distLock/impl/redlock.js.              *)
(*                                                                         *)
(* A DistributedLock instance keeps ONE lock handle (#lock) and ONE timer  *)
(* reference (#timeout), shared by every call made on it.  A call of       *)
(* acquire() races redlock.acquire() against a timer; the value redlock    *)
(* draws for that call (random, hence unique) names the call, its timer    *)
(* and, once granted, the lock.  Redis and the redlock library are         *)
(* external: SET-if-absent, DEL-if-equal, expiry, errors, silence.         *)
(***************************************************************************)
EXTENDS Naturals, FiniteSets

CONSTANTS
    Callers,    \* asynchronous flows, each awaiting its own calls
    Instances,  \* DistributedLock objects
    Owner,      \* the instance a caller uses
    Keys,       \* lock keys
    Values,     \* lock values redlock may draw: bounds the number of acquires
    None        \* null

ASSUME OwnerAssumption == Owner \in [Callers -> Instances]
ASSUME NoneAssumption  == None \notin Values \cup Keys \cup Callers

VARIABLES
    store,    \* Redis: the value stored under each key
    lapsed,   \* the values whose TTL ran out in Redis
    caller,   \* acquire v: the flow that made it
    key,      \* acquire v: its key
    redlock,  \* acquire v: progress of the promise of redlock.acquire()
    race,     \* acquire v: state of the Promise.race
    timer,    \* acquire v: its setTimeout
    lock,     \* #lock of an instance
    timeout,  \* #timeout of an instance
    pc,       \* the call a flow is awaiting
    arg,      \* the lock object that call passed to redlock
    reply,    \* what redlock answered to it
    result,   \* how the last call of a flow ended, none while one is awaited
    holds     \* the lock a flow acts under: from acquire's return to release's call

redisVars == <<store, lapsed>>
acqVars   == <<caller, key, redlock, race, timer>>
instVars  == <<lock, timeout>>
callVars  == <<pc, arg, reply, result, holds>>
vars      == <<redisVars, acqVars, instVars, callVars>>

Results == {"none", "value", "true", "TIMEOUT_ERROR", "REDLOCK_ERROR",
            "NO_LOCK_TO_RELEASE", "NO_LOCK_TO_EXTEND", "TypeError"}

TypeOK ==
    /\ store   \in [Keys -> Values \cup {None}]
    /\ lapsed  \in SUBSET Values
    /\ caller  \in [Values -> Callers \cup {None}]
    /\ key     \in [Values -> Keys \cup {None}]
    /\ redlock \in [Values -> {"none", "pending", "granted", "rejected", "settled"}]
    /\ race    \in [Values -> {"none", "open", "lock", "timeout", "error"}]
    /\ timer   \in [Values -> {"none", "armed", "cleared", "fired"}]
    /\ lock    \in [Instances -> Values \cup {None}]
    /\ timeout \in [Instances -> Values \cup {None}]
    /\ pc      \in [Callers -> {"idle", "acquire", "release", "extend"}]
    /\ arg     \in [Callers -> Values \cup {None}]
    /\ reply   \in [Callers -> {"none", "ok", "fail"}]
    /\ result  \in [Callers -> Results]
    /\ holds   \in [Callers -> Values \cup {None}]

Init ==
    /\ store   = [k \in Keys |-> None]
    /\ lapsed  = {}
    /\ caller  = [v \in Values |-> None]
    /\ key     = [v \in Values |-> None]
    /\ redlock = [v \in Values |-> "none"]
    /\ race    = [v \in Values |-> "none"]
    /\ timer   = [v \in Values |-> "none"]
    /\ lock    = [i \in Instances |-> None]
    /\ timeout = [i \in Instances |-> None]
    /\ pc      = [c \in Callers |-> "idle"]
    /\ arg     = [c \in Callers |-> None]
    /\ reply   = [c \in Callers |-> "none"]
    /\ result  = [c \in Callers |-> "none"]
    /\ holds   = [c \in Callers |-> None]

-----------------------------------------------------------------------------
(* What a call does to the flow that made it.                              *)

\* The call of flow c settles with outcome r; h is what c acts under from then on.
Return(c, r, h) ==
    /\ pc'     = [pc     EXCEPT ![c] = "idle"]
    /\ arg'    = [arg    EXCEPT ![c] = None]
    /\ reply'  = [reply  EXCEPT ![c] = "none"]
    /\ result' = [result EXCEPT ![c] = r]
    /\ holds'  = [holds  EXCEPT ![c] = h]

-----------------------------------------------------------------------------
(* Redis and redlock, external.                                            *)

\* A TTL runs out.
Expire(k) ==
    /\ store[k] # None
    /\ lapsed' = lapsed \cup {store[k]}
    /\ store'  = [store EXCEPT ![k] = None]
    /\ UNCHANGED <<acqVars, instVars, callVars>>

\* SET NX succeeds: with the race still open, or after the caller was told of a timeout.
Grant(v) ==
    /\ redlock[v] = "pending"
    /\ store[key[v]] = None
    /\ store'   = [store   EXCEPT ![key[v]] = v]
    /\ redlock' = [redlock EXCEPT ![v] = "granted"]
    /\ UNCHANGED <<lapsed, caller, key, race, timer, instVars, callVars>>

\* The bounded retries are used up, or Redis answers with an error.
Reject(v) ==
    /\ redlock[v] = "pending"
    /\ redlock' = [redlock EXCEPT ![v] = "rejected"]
    /\ UNCHANGED <<redisVars, caller, key, race, timer, instVars, callVars>>

\* Redis stored the value but redlock did not learn it in time: it tries to take
\* the value back, which may fail as well, and rejects.
LoseGrant(v) ==
    /\ redlock[v] = "granted"
    /\ redlock' = [redlock EXCEPT ![v] = "rejected"]
    /\ \/ UNCHANGED store
       \/ /\ store[key[v]] = v
          /\ store' = [store EXCEPT ![key[v]] = None]
    /\ UNCHANGED <<lapsed, caller, key, race, timer, instVars, callVars>>

\* redlock.release(lock): DEL-if-equal, then the answer; or the answer is lost.
RedisRelease(c) ==
    /\ pc[c] = "release" /\ reply[c] = "none"
    /\ LET k == key[arg[c]] IN
       \/ /\ store[k] = arg[c]
          /\ store' = [store EXCEPT ![k] = None]
          /\ \E r \in {"ok", "fail"} : reply' = [reply EXCEPT ![c] = r]
       \/ /\ reply' = [reply EXCEPT ![c] = "fail"]
          /\ UNCHANGED store
    /\ UNCHANGED <<lapsed, acqVars, instVars, pc, arg, result, holds>>

\* redlock.extend(lock, ttl): refused unless the value is still stored.
RedisExtend(c) ==
    /\ pc[c] = "extend" /\ reply[c] = "none"
    /\ \/ /\ store[key[arg[c]]] = arg[c]
          /\ reply' = [reply EXCEPT ![c] = "ok"]
       \/ reply' = [reply EXCEPT ![c] = "fail"]
    /\ UNCHANGED <<redisVars, acqVars, instVars, pc, arg, result, holds>>

-----------------------------------------------------------------------------
(* acquire(key, ttl, acquireTimeout)                                       *)

\* Mutant of Acquire: no timer is armed.
AcquireUntimed(c, k, v) ==
    /\ pc[c] = "idle" /\ holds[c] = None
    /\ race[v] = "none"
    /\ caller'  = [caller  EXCEPT ![v] = c]
    /\ key'     = [key     EXCEPT ![v] = k]
    /\ redlock' = [redlock EXCEPT ![v] = "pending"]
    /\ race'    = [race    EXCEPT ![v] = "open"]
    /\ timeout' = [timeout EXCEPT ![Owner[c]] = v]
    /\ pc'      = [pc      EXCEPT ![c] = "acquire"]
    /\ result'  = [result  EXCEPT ![c] = "none"]
    /\ UNCHANGED <<redisVars, timer, lock, arg, reply, holds>>

\* Up to the await: the timer is armed and becomes the instance's #timeout.
\* A flow acquires when it is not already acting under a lock.
Acquire(c, k, v) ==
    /\ pc[c] = "idle" /\ holds[c] = None
    /\ race[v] = "none"
    /\ caller'  = [caller  EXCEPT ![v] = c]
    /\ key'     = [key     EXCEPT ![v] = k]
    /\ redlock' = [redlock EXCEPT ![v] = "pending"]
    /\ race'    = [race    EXCEPT ![v] = "open"]
    /\ timer'   = [timer   EXCEPT ![v] = "armed"]
    /\ timeout' = [timeout EXCEPT ![Owner[c]] = v]
    /\ pc'      = [pc      EXCEPT ![c] = "acquire"]
    /\ result'  = [result  EXCEPT ![c] = "none"]
    /\ UNCHANGED <<redisVars, lock, arg, reply, holds>>

\* clearTimeout(this.#timeout): whichever timer the instance refers to by now.
ClearTimeout(i) ==
    timer' = [timer EXCEPT ![timeout[i]] = IF @ = "armed" THEN "cleared" ELSE @]

\* Mutant of AcquireWins: #lock is set when redlock's promise settles, not the race.
AcquireWinsLate(v) ==
    /\ race[v] # "lock" /\ redlock[v] = "granted"
    /\ redlock' = [redlock EXCEPT ![v] = "settled"]
    /\ race'    = [race    EXCEPT ![v] = IF @ = "open" THEN "lock" ELSE @]
    /\ lock'    = [lock    EXCEPT ![Owner[caller[v]]] = v]
    /\ ClearTimeout(Owner[caller[v]])
    /\ IF race[v] = "open" THEN Return(caller[v], "value", v) ELSE UNCHANGED callVars
    /\ UNCHANGED <<redisVars, caller, key, timeout>>

\* Mutant of AcquireWins: #lock is a static field.
AcquireWinsStatic(v) ==
    /\ race[v] = "open" /\ redlock[v] = "granted"
    /\ redlock' = [redlock EXCEPT ![v] = "settled"]
    /\ race'    = [race    EXCEPT ![v] = "lock"]
    /\ lock'    = [i \in Instances |-> v]
    /\ ClearTimeout(Owner[caller[v]])
    /\ Return(caller[v], "value", v)
    /\ UNCHANGED <<redisVars, caller, key, timeout>>

\* redlock's promise wins the race: #lock is set, the timer cleared.
AcquireWins(v) ==
    /\ race[v] = "open" /\ redlock[v] = "granted"
    /\ redlock' = [redlock EXCEPT ![v] = "settled"]
    /\ race'    = [race    EXCEPT ![v] = "lock"]
    /\ lock'    = [lock    EXCEPT ![Owner[caller[v]]] = v]
    /\ ClearTimeout(Owner[caller[v]])
    /\ Return(caller[v], "value", v)
    /\ UNCHANGED <<redisVars, caller, key, timeout>>

\* redlock rejects first: rethrown; the timer stays armed.
AcquireFails(v) ==
    /\ race[v] = "open" /\ redlock[v] = "rejected"
    /\ redlock' = [redlock EXCEPT ![v] = "settled"]
    /\ race'    = [race    EXCEPT ![v] = "error"]
    /\ Return(caller[v], "REDLOCK_ERROR", None)
    /\ UNCHANGED <<redisVars, caller, key, timer, instVars>>

\* The timer fires first: TIMEOUT_ERROR is thrown; redlock's promise lives on.
AcquireTimesOut(v) ==
    /\ race[v] = "open" /\ timer[v] = "armed"
    /\ timer' = [timer EXCEPT ![v] = "fired"]
    /\ race'  = [race  EXCEPT ![v] = "timeout"]
    /\ Return(caller[v], "TIMEOUT_ERROR", None)
    /\ UNCHANGED <<redisVars, caller, key, redlock, instVars>>

\* A timer nobody cleared fires into a race that is over.
IdleTimerFires(v) ==
    /\ race[v] # "open" /\ timer[v] = "armed"
    /\ timer' = [timer EXCEPT ![v] = "fired"]
    /\ UNCHANGED <<redisVars, caller, key, redlock, race, instVars, callVars>>

-----------------------------------------------------------------------------
(* release() and extend(ttl)                                               *)

\* The null check both begin with.
NoLock(c) ==
    /\ pc[c] = "idle" /\ lock[Owner[c]] = None
    /\ \E r \in {"NO_LOCK_TO_RELEASE", "NO_LOCK_TO_EXTEND"} : Return(c, r, None)
    /\ UNCHANGED <<redisVars, acqVars, instVars>>

\* Up to the await: the lock object is the #lock of this moment.
Release(c) ==
    /\ pc[c] = "idle" /\ lock[Owner[c]] # None
    /\ pc'     = [pc     EXCEPT ![c] = "release"]
    /\ arg'    = [arg    EXCEPT ![c] = lock[Owner[c]]]
    /\ result' = [result EXCEPT ![c] = "none"]
    /\ holds'  = [holds  EXCEPT ![c] = None]
    /\ UNCHANGED <<redisVars, acqVars, instVars, reply>>

\* After the await: the debug line reads this.#lock.value, then #lock = null.
ReleaseReturns(c) ==
    /\ pc[c] = "release" /\ reply[c] = "ok"
    /\ IF lock[Owner[c]] = None
       THEN Return(c, "TypeError", None)
       ELSE Return(c, "true", None)
    /\ lock' = [lock EXCEPT ![Owner[c]] = None]
    /\ UNCHANGED <<redisVars, acqVars, timeout>>

Extend(c) ==
    /\ pc[c] = "idle" /\ lock[Owner[c]] # None
    /\ pc'     = [pc     EXCEPT ![c] = "extend"]
    /\ arg'    = [arg    EXCEPT ![c] = lock[Owner[c]]]
    /\ result' = [result EXCEPT ![c] = "none"]
    /\ UNCHANGED <<redisVars, acqVars, instVars, reply, holds>>

\* Mutant of ExtendReturns: the replacement is not stored.
ExtendReturnsForgets(c) ==
    /\ pc[c] = "extend" /\ reply[c] = "ok"
    /\ lock' = [lock EXCEPT ![Owner[c]] = None]
    /\ Return(c, "value", arg[c])
    /\ UNCHANGED <<redisVars, acqVars, timeout>>

\* #lock becomes redlock's replacement: same key and value as the one passed.
ExtendReturns(c) ==
    /\ pc[c] = "extend" /\ reply[c] = "ok"
    /\ lock' = [lock EXCEPT ![Owner[c]] = arg[c]]
    /\ Return(c, "value", arg[c])
    /\ UNCHANGED <<redisVars, acqVars, timeout>>

\* Mutant of CallFails: the flow goes on under the lock it asked to release.
CallFailsKeeps(c) ==
    /\ pc[c] \in {"release", "extend"} /\ reply[c] = "fail"
    /\ Return(c, "REDLOCK_ERROR", arg[c])
    /\ UNCHANGED <<redisVars, acqVars, instVars>>

\* Either await rejects: rethrown, #lock keeps its value.
CallFails(c) ==
    /\ pc[c] \in {"release", "extend"} /\ reply[c] = "fail"
    /\ Return(c, "REDLOCK_ERROR", None)
    /\ UNCHANGED <<redisVars, acqVars, instVars>>

-----------------------------------------------------------------------------
Next ==
    \/ \E k \in Keys : Expire(k)
    \/ \E v \in Values :
          \/ Grant(v) \/ Reject(v) \/ LoseGrant(v)
          \/ AcquireWins(v) \/ AcquireFails(v)
          \/ AcquireTimesOut(v) \/ IdleTimerFires(v)
          \/ \E c \in Callers, k \in Keys : Acquire(c, k, v)
    \/ \E c \in Callers :
          \/ NoLock(c) \/ Release(c) \/ Extend(c)
          \/ RedisRelease(c) \/ RedisExtend(c)
          \/ ReleaseReturns(c) \/ ExtendReturns(c) \/ CallFails(c)

Spec == Init /\ [][Next]_vars

\* Node runs every timer that stays armed.  Redis may stay silent for ever:
\* that is what acquireTimeout is for, so nothing is assumed of it.
TimersFire == \A v \in Values : WF_vars(AcquireTimesOut(v))
FairSpec   == Spec /\ TimersFire

-----------------------------------------------------------------------------
(* Properties                                                              *)

\* Each flow has an instance of its own, the way the class can be used safely.
Exclusive == \A c, d \in Callers : Owner[c] = Owner[d] => c = d

\* Two flows that both act under a lock on the same key: for one of them the
\* TTL ran out.  Neither a late grant, a lost answer, a failed release, nor a
\* second release lets two flows in (acquire, release, extend together).
MutualExclusion ==
    \A c, d \in Callers :
        /\ c # d
        /\ holds[c] # None /\ holds[d] # None
        /\ key[holds[c]] = key[holds[d]]
        => holds[c] \in lapsed \/ holds[d] \in lapsed

\* The #lock of a flow's instance is the lock the flow acts under, so release()
\* and extend() concern that lock and no other.
HandleIsHeld ==
    \A c \in Callers : holds[c] # None => lock[Owner[c]] = holds[c]

\* A grant that arrives after acquire() reported a failure never becomes #lock
\* nor the lock of a flow: Promise.race keeps the first outcome.
LateGrantIgnored ==
    \A v \in Values : race[v] \in {"timeout", "error"} =>
        /\ \A i \in Instances : lock[i] # v
        /\ \A c \in Callers : holds[c] # v

\* The dereference of this.#lock after the await in release() never finds null.
NoTypeError == \A c \in Callers : result[c] # "TypeError"

\* A call of release() removes from Redis only what an acquire() on the same
\* instance put there.
ReleaseWithinInstance ==
    [][ \A c \in Callers, k \in Keys :
          RedisRelease(c) /\ store'[k] # store[k]
             => Owner[caller[store[k]]] = Owner[c] ]_vars

\* The abstract lease that the flows' locks amount to: each flow that acts, by the key
\* of its lock, and the ones whose TTL ran out.
Acting  == [c \in Callers |-> IF holds[c] = None THEN None ELSE key[holds[c]]]
Overrun == {c \in Callers : holds[c] \in lapsed}
L == INSTANCE Lease WITH Flows <- Callers, acting <- Acting, overrun <- Overrun

\* Every step of the lock is a step of the lease or none: a flow begins to act, by an
\* acquire or by extending the lock a failed release left it, only when no other
\* acts under an unexpired lock.
ImplementsLease == L!Spec

\* Every acquire() settles: with a lock, redlock's error or TIMEOUT_ERROR.
AcquireSettles ==
    \A v \in Values : race[v] = "open" ~> race[v] # "open"
=============================================================================

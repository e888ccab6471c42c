-------------------------- MODULE ParticipantCache --------------------------
(***************************************************************************)
(* The caches of src/util/participants.js and src/util/proxies.js: two     *)
(* modules that read through a Catbox policy whose generateFunc asks the   *)
(* switch.  getParticipant has an entry for each participant, which may    *)
(* say that there is none; getAllProxiesNames has one, the list of all     *)
(* proxies.  Each module has its variables and its client.                 *)
(*                                                                         *)
(* Catbox is external: one generation per id in flight, which every get of *)
(* the id joins; its result is stored, unless undefined, and then handed   *)
(* out; drop and expiry remove an entry and do not stop a generation, nor  *)
(* does generateTimeout, after which the next get starts another one.      *)
(* A generation, its answer and the entry it stores are named by the call  *)
(* that started it.                                                        *)
(***************************************************************************)
EXTENDS Naturals, FiniteSets

CONSTANTS
    Gets,        \* calls of getParticipant and getAllProxiesNames: bounds their number
    Fsps,        \* participant ids
    AllProxies,  \* cacheKey of proxies.js
    Urls,        \* values callers pass as switchUrl
    MaxVersion,  \* bounds the changes of a record at the switch
    MaxModules,  \* bounds the modules a service initialises: they share nothing
    None

ASSUME BoundsAssumption  == MaxVersion \in Nat /\ MaxModules \in 1..2
ASSUME NoneAssumption    == None \notin Gets \cup Fsps \cup Urls \cup {AllProxies}
ASSUME KeyAssumption     == AllProxies \notin Fsps

VARIABLES
    state,     \* client and policy of each module: not initialised, ready, stopped
    endpoint,  \* switchEndpoint, one variable of each
    cache,     \* the entry stored for each id
    flight,    \* the generation that gets of each id join
    stage,     \* how far a generation is
    askedAt,   \* the URL a generation asked
    answer,    \* what fetchParticipant or fetchProxies returned to it
    version,   \* the version it read, if it returned data
    pc, fsp, url, \* of each call; fsp is the id it asks for
    got,       \* the entry whose value policy.get gave a call
    world,     \* version of each record at the switch, 0 while it has no such participant
    floor,     \* history: that version when the id was last invalidated
    raced,     \* history: the generations already answered at such a moment
    since      \* history: floor when a call began

fetchVars == <<askedAt, answer, version>>
cacheVars == <<state, endpoint, cache, flight, stage, fetchVars>>
callVars  == <<pc, fsp, url, got, since>>
worldVars == <<world, floor, raced>>
vars      == <<cacheVars, callVars, worldVars>>

Versions == 0..MaxVersion
Ids      == Fsps \cup {AllProxies}

Modules == {"participants", "proxies"}
ModuleOf(f) == IF f \in Fsps THEN "participants" ELSE "proxies"

\* data or NOT_FOUND; a body with errorInformation; undefined after an exception
Answers == {"data", "errorInformation", "undefined"}

TypeOK ==
    /\ state    \in [Modules -> {"off", "ready", "stopped"}]
    /\ endpoint \in [Modules -> Urls \cup {None}]
    /\ cache    \in [Ids -> Gets \cup {None}]
    /\ flight   \in [Ids -> Gets \cup {None}]
    /\ stage    \in [Gets -> {"none", "reading", "fetching", "answered"}]
    /\ askedAt  \in [Gets -> Urls \cup {None}]
    /\ answer   \in [Gets -> Answers \cup {None}]
    /\ version  \in [Gets -> Versions]
    /\ pc       \in [Gets -> {"new", "waiting", "dropping", "returned", "threw"}]
    /\ fsp      \in [Gets -> Ids \cup {None}]
    /\ url      \in [Gets -> Urls \cup {None}]
    /\ got      \in [Gets -> Gets \cup {None}]
    /\ world    \in [Ids -> Versions]
    /\ floor    \in [Ids -> Versions]
    /\ raced    \in SUBSET Gets
    /\ since    \in [Gets -> Versions]
    /\ \A g \in Gets : stage[g] # "none" => fsp[g] \in Ids

Init ==
    /\ state    = [m \in Modules |-> "off"]
    /\ endpoint = [m \in Modules |-> None]
    /\ cache    = [f \in Ids |-> None]
    /\ flight   = [f \in Ids |-> None]
    /\ stage    = [g \in Gets |-> "none"]
    /\ askedAt  = [g \in Gets |-> None]
    /\ answer   = [g \in Gets |-> None]
    /\ version  = [g \in Gets |-> 0]
    /\ pc       = [g \in Gets |-> "new"]
    /\ fsp      = [g \in Gets |-> None]
    /\ url      = [g \in Gets |-> None]
    /\ got      = [g \in Gets |-> None]
    /\ world    = [f \in Ids |-> 0]
    /\ floor    = [f \in Ids |-> 0]
    /\ raced    = {}
    /\ since    = [g \in Gets |-> 0]

-----------------------------------------------------------------------------
(* Life of the modules.                                                    *)

InitializeCache(m) ==
    /\ state[m] = "off"
    /\ Cardinality({n \in Modules : state[n] # "off"}) < MaxModules
    /\ state' = [state EXCEPT ![m] = "ready"]
    /\ UNCHANGED <<endpoint, cache, flight, stage, fetchVars, callVars, worldVars>>

\* client.stop(): the memory goes; the policy then generates without storing.
StopCache(m) ==
    /\ state[m] = "ready"
    /\ state' = [state EXCEPT ![m] = "stopped"]
    /\ cache' = [f \in Ids |-> IF ModuleOf(f) = m THEN None ELSE cache[f]]
    /\ UNCHANGED <<endpoint, flight, stage, fetchVars, callVars, worldVars>>

InitializeParticipants == InitializeCache("participants")
InitializeProxies      == InitializeCache("proxies")
StopParticipants       == StopCache("participants")
StopProxies            == StopCache("proxies")

-----------------------------------------------------------------------------
(* getParticipant(switchUrl, fsp) and getAllProxiesNames(switchUrl)        *)

\* Up to the await: switchEndpoint is set; the call starts or joins a generation.
Get(g, u, f) ==
    /\ pc[g] = "new" /\ state[ModuleOf(f)] # "off"
    /\ endpoint' = [endpoint EXCEPT ![ModuleOf(f)] = u]
    /\ pc'       = [pc    EXCEPT ![g] = "waiting"]
    /\ fsp'      = [fsp   EXCEPT ![g] = f]
    /\ url'      = [url   EXCEPT ![g] = u]
    /\ since'    = [since EXCEPT ![g] = floor[f]]
    /\ IF flight[f] = None
       THEN /\ flight' = [flight EXCEPT ![f] = g]
            /\ stage'  = [stage  EXCEPT ![g] = "reading"]
       ELSE UNCHANGED <<flight, stage>>
    /\ UNCHANGED <<state, cache, fetchVars, got, worldVars>>

\* No policy yet: the TypeError is caught and rethrown.
GetTooEarly(g, u, f) ==
    /\ pc[g] = "new" /\ state[ModuleOf(f)] = "off"
    /\ endpoint' = [endpoint EXCEPT ![ModuleOf(f)] = u]
    /\ pc' = [pc EXCEPT ![g] = "threw"]
    /\ UNCHANGED <<state, cache, flight, stage, fetchVars, fsp, url, got, since, worldVars>>

GetParticipant(g, u, f)  == f \in Fsps /\ (Get(g, u, f) \/ GetTooEarly(g, u, f))
GetAllProxiesNames(g, u) == Get(g, u, AllProxies) \/ GetTooEarly(g, u, AllProxies)

\* Mutant of Deliver: only the call that started the generation is answered.
DeliverToStarter(f, e) ==
    LET waiting == {flight[f]} IN
    /\ got' = [g \in Gets |-> IF g \in waiting THEN e ELSE got[g]]
    /\ pc'  = [g \in Gets |->
           IF g \notin waiting THEN pc[g]
           ELSE CASE answer[e] = "undefined"        -> "threw"
                  [] answer[e] = "errorInformation" -> "dropping"
                  [] OTHER                          -> "returned"]
    /\ flight' = [flight EXCEPT ![f] = None]
    /\ stage'  = [stage  EXCEPT ![flight[f]] = "none"]
    /\ UNCHANGED <<fsp, url, since>>

\* policy.get of every call waiting for f resolves with the value of entry e, which
\* an error in the fetch leaves undefined: reading it throws.
Deliver(f, e) ==
    LET waiting == {g \in Gets : pc[g] = "waiting" /\ fsp[g] = f} IN
    /\ got' = [g \in Gets |-> IF g \in waiting THEN e ELSE got[g]]
    /\ pc'  = [g \in Gets |->
           IF g \notin waiting THEN pc[g]
           ELSE CASE answer[e] = "undefined"        -> "threw"
                  [] answer[e] = "errorInformation" -> "dropping"
                  [] OTHER                          -> "returned"]
    /\ flight' = [flight EXCEPT ![f] = None]
    /\ stage'  = [stage  EXCEPT ![flight[f]] = "none"]
    /\ UNCHANGED <<fsp, url, since>>

Hit(f) ==
    /\ flight[f] # None /\ stage[flight[f]] = "reading"
    /\ cache[f] # None
    /\ Deliver(f, cache[f])
    /\ UNCHANGED <<state, endpoint, cache, fetchVars, worldVars>>

\* The fetch begins: the URL is built from switchEndpoint as it is now.
Miss(f) ==
    /\ flight[f] # None /\ stage[flight[f]] = "reading"
    /\ cache[f] = None
    /\ stage'   = [stage   EXCEPT ![flight[f]] = "fetching"]
    /\ askedAt' = [askedAt EXCEPT ![flight[f]] = endpoint[ModuleOf(f)]]
    /\ UNCHANGED <<state, endpoint, cache, flight, answer, version, callVars, worldVars>>

\* generateTimeout: policy.get rejects for every call waiting for f, which throws; the
\* generation runs on.
GenerateTimesOut(f) ==
    /\ flight[f] # None /\ stage[flight[f]] # "reading"
    /\ pc' = [g \in Gets |-> IF pc[g] = "waiting" /\ fsp[g] = f THEN "threw" ELSE pc[g]]
    /\ flight' = [flight EXCEPT ![f] = None]
    /\ UNCHANGED <<state, endpoint, cache, stage, fetchVars, fsp, url, got, since, worldVars>>

\* The switch reads the record and answers, or an error takes the answer's place.
Fetched(e) ==
    /\ stage[e] = "fetching"
    /\ \E a \in Answers :
          /\ answer'  = [answer EXCEPT ![e] = a]
          /\ version' = IF a = "data" THEN [version EXCEPT ![e] = world[fsp[e]]] ELSE version
    /\ stage'   = [stage   EXCEPT ![e] = "answered"]
    /\ UNCHANGED <<state, endpoint, cache, flight, askedAt, callVars, worldVars>>

\* A 404 is data, the sentinel NOT_FOUND; other exceptions are swallowed.
FetchParticipant(e) == fsp[e] \in Fsps /\ Fetched(e)

\* All exceptions are.  Neither fetch can find hubName missing once there is a policy.
FetchProxies(e) == fsp[e] = AllProxies /\ Fetched(e)

\* The policy stores what was generated and hands it out; nobody waits for it after the
\* timeout.
Generated(e) ==
    LET f == fsp[e] IN
    /\ stage[e] = "answered"
    /\ cache' = IF state[ModuleOf(f)] = "ready" /\ answer[e] # "undefined"
                THEN [cache EXCEPT ![f] = e]
                ELSE cache
    /\ IF flight[f] = e THEN Deliver(f, e)
       ELSE stage' = [stage EXCEPT ![e] = "none"] /\ UNCHANGED <<flight, callVars>>
    /\ UNCHANGED <<state, endpoint, fetchVars, worldVars>>

\* Mutant of DropError: the error stays in the cache.
DropErrorKeeps(g) ==
    /\ pc[g] = "dropping"
    /\ pc' = [pc EXCEPT ![g] = "threw"]
    /\ UNCHANGED <<state, endpoint, cache, flight, stage, fetchVars, fsp, url, got, since,
                   worldVars>>

\* errorInformation in the value: the entry is dropped, whatever it is by now, and
\* the error thrown.
DropError(g) ==
    /\ pc[g] = "dropping"
    /\ cache' = [cache EXCEPT ![fsp[g]] = None]
    /\ pc'    = [pc    EXCEPT ![g] = "threw"]
    /\ UNCHANGED <<state, endpoint, flight, stage, fetchVars, fsp, url, got, since,
                   worldVars>>

-----------------------------------------------------------------------------
(* Invalidation, expiry and changes at the switch.                         *)

\* Mutant of Invalidate: the entry stays.
InvalidateNothing(f) ==
    /\ state[ModuleOf(f)] = "ready"
    /\ floor' = [floor EXCEPT ![f] = world[f]]
    /\ raced' = raced \cup {g \in Gets : fsp[g] = f /\ stage[g] = "answered"}
    /\ UNCHANGED <<state, endpoint, cache, flight, stage, fetchVars, callVars, world>>

Invalidate(f) ==
    /\ state[ModuleOf(f)] = "ready"
    /\ cache' = [cache EXCEPT ![f] = None]
    /\ floor' = [floor EXCEPT ![f] = world[f]]
    /\ raced' = raced \cup {g \in Gets : fsp[g] = f /\ stage[g] = "answered"}
    /\ UNCHANGED <<state, endpoint, flight, stage, fetchVars, callVars, world>>

InvalidateParticipantCache(f) == f \in Fsps /\ Invalidate(f)
InvalidateProxiesCache        == Invalidate(AllProxies)

Expire(f) ==
    /\ cache[f] # None
    /\ cache' = [cache EXCEPT ![f] = None]
    /\ UNCHANGED <<state, endpoint, flight, stage, fetchVars, callVars, worldVars>>

Change(f) ==
    /\ world[f] < MaxVersion /\ state[ModuleOf(f)] # "off"
    /\ world' = [world EXCEPT ![f] = @ + 1]
    /\ UNCHANGED <<cacheVars, callVars, floor, raced>>

Lookup(f)   == Hit(f) \/ Miss(f)
Generate(e) == FetchParticipant(e) \/ FetchProxies(e) \/ Generated(e)

Next ==
    \/ InitializeParticipants \/ StopParticipants
    \/ InitializeProxies \/ StopProxies \/ InvalidateProxiesCache
    \/ \E g \in Gets :
          \/ Generate(g) \/ DropError(g)
          \/ \E u \in Urls : \/ GetAllProxiesNames(g, u)
                            \/ \E f \in Fsps : GetParticipant(g, u, f)
    \/ \E f \in Ids :
          \/ Lookup(f) \/ GenerateTimesOut(f)
          \/ InvalidateParticipantCache(f) \/ Expire(f) \/ Change(f)

Spec == Init /\ [][Next]_vars

\* The request to the switch ends, and the continuations of awaits run.
FairSpec ==
    /\ Spec
    /\ \A f \in Ids : WF_vars(Lookup(f))
    /\ \A g \in Gets : WF_vars(Generate(g)) /\ WF_vars(DropError(g))

-----------------------------------------------------------------------------
(* Properties                                                              *)

Stale(e, v) == e # None /\ answer[e] = "data" /\ version[e] < v

\* A get that begins after an invalidation may return, and the cache may hold, what the
\* switch answered before it, but from one source only: a generation that already had its
\* answer when the id was invalidated, whether gets still joined it or had given it up.
StaleOnlyFromRace ==
    /\ \A f \in Ids : Stale(cache[f], floor[f]) => cache[f] \in raced
    /\ \A g \in Gets : pc[g] = "returned" /\ Stale(got[g], since[g]) => got[g] \in raced

\* An error found in an entry is not met again there once the call that met it has
\* thrown, although several calls may have shared the entry.
ErrorDropped ==
    \A g \in Gets : pc[g] = "threw" /\ got[g] # None => cache[fsp[g]] # got[g]

\* A request made on a miss goes to the switch its caller named.
AsksNamedSwitch ==
    \A g \in Gets : askedAt[g] # None => askedAt[g] = url[g]

\* Every get settles, the ones that joined another's generation included.
GetsSettle == \A g \in Gets : pc[g] = "waiting" ~> pc[g] \in {"returned", "threw"}
=============================================================================

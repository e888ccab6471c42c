--------------------------- MODULE EndpointCache ---------------------------
(***************************************************************************)
(* The cache of endpoints in src/util/endpoints.js, around the proxy       *)
(* client of EndpointProxy: getEndpoint reads through a Catbox policy and, *)
(* when that gives nothing, asks the proxy client who represents the DFSP  *)
(* and reads the endpoints of that.  Every step is a step of EndpointProxy *)
(* or leaves its variables alone.                                          *)
(*                                                                         *)
(* Catbox is external, and used as in ParticipantCache.  switchEndpoint,   *)
(* overwritten as there, is left out: nothing here depends on the switch.  *)
(***************************************************************************)
EXTENDS EndpointProxy

CONSTANTS
    Fsps,    \* DFSPs that callers ask for
    Proxies  \* what lookupProxyByDfspId may give

Ids == Fsps \cup Proxies

ASSUME IdsAssumption == None \notin Ids

VARIABLES
    state,     \* client and policy: not initialised, ready, stopped
    decorated, \* getDecoratedValue of the policy's options
    cache,     \* the endpoints stored for each id
    flight,    \* the generation that gets of each id join
    late,      \* the generations that ran into generateTimeout, and run on
    fsp,       \* what each getEndpoint asks for
    enabled,   \* its proxyConfig?.enabled
    awaited,   \* the id whose policy.get it awaits
    value      \* what that gave it
cacheVars == <<state, decorated, cache, flight, late>>
readVars  == <<fsp, enabled, awaited, value>>
endpointVars == <<vars, cacheVars, readVars>>

\* A map with the type asked for, or without it.
Endpoints == {"typed", "untyped"}

\* What fetchEndpoints returns.
Results == Endpoints \cup {"undefined"}

\* A generation after its timeout, named by a call that was waiting for it.
LateGenerations == [by : Calls, id : Ids, result : {"fetching"} \cup Results]

EndpointTypeOK ==
    /\ state     \in {"off", "ready", "stopped"}
    /\ decorated \in BOOLEAN
    /\ cache     \in [Ids -> Endpoints \cup {None}]
    /\ flight    \in [Ids -> {"none", "reading", "fetching"} \cup Results]
    /\ late      \in SUBSET LateGenerations
    /\ fsp       \in [Calls -> Fsps \cup {None}]
    /\ enabled   \in [Calls -> BOOLEAN]
    /\ awaited   \in [Calls -> Ids \cup {None}]
    /\ value     \in [Calls -> Results \cup {"rejected", None}]
    /\ \A c \in Calls : awaited[c] # None => flight[awaited[c]] # "none"

EndpointInit ==
    /\ Init
    /\ state   = "off" /\ decorated = FALSE
    /\ cache   = [i \in Ids |-> None]
    /\ flight  = [i \in Ids |-> "none"]
    /\ late    = {}
    /\ fsp     = [c \in Calls |-> None]
    /\ enabled = [c \in Calls |-> FALSE]
    /\ awaited = [c \in Calls |-> None]
    /\ value   = [c \in Calls |-> None]

-----------------------------------------------------------------------------
(* The policy.                                                             *)

InitializeCache ==
    /\ state = "off"
    /\ state' = "ready"
    /\ decorated' \in BOOLEAN
    /\ UNCHANGED <<vars, cache, flight, late, readVars>>

\* client.stop(): the memory goes; the policy then generates without storing.
StopCache ==
    /\ state = "ready"
    /\ state' = "stopped"
    /\ cache' = [i \in Ids |-> None]
    /\ UNCHANGED <<vars, decorated, flight, late, readVars>>

\* policy.get(i): the call starts a generation or joins the one in flight.
PolicyGet(c, i) ==
    /\ awaited' = [awaited EXCEPT ![c] = i]
    /\ value'   = [value   EXCEPT ![c] = None]
    /\ flight'  = IF flight[i] = "none" THEN [flight EXCEPT ![i] = "reading"] ELSE flight
    /\ UNCHANGED <<state, decorated, cache, late>>

\* Every call that awaits i gets v.
Deliver(i, v) ==
    LET waiting == {c \in Calls : awaited[c] = i} IN
    /\ value'   = [c \in Calls |-> IF c \in waiting THEN v ELSE value[c]]
    /\ awaited' = [c \in Calls |-> IF c \in waiting THEN None ELSE awaited[c]]
    /\ flight'  = [flight EXCEPT ![i] = "none"]
    /\ UNCHANGED <<vars, state, decorated, fsp, enabled>>

Hit(i) ==
    /\ flight[i] = "reading" /\ cache[i] # None
    /\ Deliver(i, cache[i])
    /\ UNCHANGED <<cache, late>>

Miss(i) ==
    /\ flight[i] = "reading" /\ cache[i] = None
    /\ flight' = [flight EXCEPT ![i] = "fetching"]
    /\ UNCHANGED <<vars, state, decorated, cache, late, readVars>>

\* The switch answers with a list of endpoints, or with something else, which becomes an
\* empty map; an exception is swallowed and leaves undefined.
FetchEndpoints(i) ==
    /\ flight[i] = "fetching"
    /\ \E v \in Results : flight' = [flight EXCEPT ![i] = v]
    /\ UNCHANGED <<vars, state, decorated, cache, late, readVars>>

Store(i, v) ==
    cache' = IF state = "ready" /\ v # "undefined" THEN [cache EXCEPT ![i] = v] ELSE cache

Generated(i) ==
    /\ flight[i] \in Results
    /\ Store(i, flight[i])
    /\ Deliver(i, flight[i])
    /\ UNCHANGED late

\* generateTimeout: policy.get rejects for every call that awaits i, and the next get of i
\* starts another generation.
GenerateTimesOut(i) ==
    /\ flight[i] \in {"fetching"} \cup Results
    /\ \E c \in Calls :
          /\ awaited[c] = i
          /\ late' = late \cup {[by |-> c, id |-> i, result |-> flight[i]]}
    /\ Deliver(i, "rejected")
    /\ UNCHANGED cache

\* FetchEndpoints and Generated of such a generation, for which nobody waits.
GenerateLate(l) ==
    /\ l \in late
    /\ IF l.result = "fetching"
       THEN /\ \E v \in Results : late' = (late \ {l}) \cup {[l EXCEPT !.result = v]}
            /\ UNCHANGED cache
       ELSE /\ Store(l.id, l.result)
            /\ late' = late \ {l}
    /\ UNCHANGED <<vars, state, decorated, flight, readVars>>

Expire(i) ==
    /\ cache[i] # None
    /\ cache' = [cache EXCEPT ![i] = None]
    /\ UNCHANGED <<vars, state, decorated, flight, late, readVars>>

-----------------------------------------------------------------------------
(* getEndpoint and getEndpointAndRender                                    *)

\* Up to the first await; a policy that is still undefined throws.
Get(c, f, proxied) ==
    /\ pc[c] = "new" /\ fsp[c] = None
    /\ fsp'     = [fsp     EXCEPT ![c] = f]
    /\ IF state = "off"
       THEN /\ OwnEndpoints(c) /\ pc'[c] = "threw"
            /\ UNCHANGED <<cacheVars, enabled, awaited, value>>
       ELSE /\ enabled' = [enabled EXCEPT ![c] = proxied]
            /\ PolicyGet(c, f)
            /\ UNCHANGED vars

GetEndpoint(c, f) == \E proxied \in BOOLEAN : Get(c, f, proxied)

\* It passes no proxyConfig.  Its try block does not await the promise it returns.
GetEndpointAndRender(c, f) == Get(c, f, FALSE)

\* `!endpoints`: an object is never falsy, neither a decorated value nor an empty map.
NoEndpoints(c) == value[c] = "undefined" /\ ~decorated

\* renderEndpoint throws unless there is an endpoint of the type, as does a policy.get that
\* was rejected.
RenderEndpoint(c) == pc'[c] = IF value[c] = "typed" THEN "returned" ELSE "threw"

\* Both are forgotten once they have been read.
Forget(c) ==
    /\ value'   = [value   EXCEPT ![c] = None]
    /\ enabled' = [enabled EXCEPT ![c] = FALSE]
    /\ UNCHANGED <<fsp, awaited>>

\* After the await of policy.get(fsp).
Own(c) ==
    /\ pc[c] = "new" /\ value[c] # None
    /\ IF NoEndpoints(c) /\ enabled[c]
       THEN CreateProxy(c) \/ UseProxy(c)
       ELSE OwnEndpoints(c) /\ RenderEndpoint(c)
    /\ Forget(c)
    /\ UNCHANGED cacheVars

\* connect() and the lookup, up to policy.get(proxyId).
Represented(c) ==
    \/ /\ Connected(c) \/ ConnectFails(c)
       /\ UNCHANGED <<cacheVars, readVars>>
    \/ /\ Looked(c)
       /\ IF pc'[c] = "viaProxy"
          THEN (\E p \in Proxies : PolicyGet(c, p)) /\ UNCHANGED <<fsp, enabled>>
          ELSE UNCHANGED <<cacheVars, readVars>>

\* After the await of policy.get(proxyId).
ViaProxy(c) ==
    /\ value[c] # None
    /\ ProxyEndpoints(c) /\ RenderEndpoint(c)
    /\ Forget(c)
    /\ UNCHANGED cacheVars

-----------------------------------------------------------------------------
CallStep(c)   == Own(c) \/ Represented(c) \/ ViaProxy(c)
PolicyStep(i) == Hit(i) \/ Miss(i) \/ FetchEndpoints(i) \/ Generated(i)

EndpointNext ==
    \/ InitializeCache \/ StopCache
    \/ \E i \in Ids : PolicyStep(i) \/ GenerateTimesOut(i) \/ Expire(i)
    \/ \E l \in LateGenerations : GenerateLate(l)
    \/ \E c \in Calls :
          \/ \E f \in Fsps : GetEndpoint(c, f) \/ GetEndpointAndRender(c, f)
          \/ CallStep(c)
    \/ \E s \in Stops :
          /\ StopProxy(s) \/ Closes(s) \/ StopReturns(s) \/ StopFails(s)
          /\ UNCHANGED <<cacheVars, readVars>>

EndpointSpec == EndpointInit /\ [][EndpointNext]_endpointVars

\* The request to the switch ends, every call to the proxy library is answered or
\* rejected, and the continuations of awaits run.
FairEndpointSpec ==
    /\ EndpointSpec
    /\ \A i \in Ids : WF_endpointVars(PolicyStep(i))
    /\ \A c \in Calls : WF_endpointVars(CallStep(c))

-----------------------------------------------------------------------------
(* Properties                                                              *)

\* Every getEndpoint settles: one that joins the fetch of another, for a DFSP or for its
\* proxy, and one that uses a client that another creates or stops.
EndpointsSettle == \A c \in Calls : fsp[c] # None ~> pc[c] \in Settled
=============================================================================

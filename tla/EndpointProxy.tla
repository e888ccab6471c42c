--------------------------- MODULE EndpointProxy ---------------------------
(***************************************************************************)
(* The proxy client of src/util/endpoints.js: one variable of the module,  *)
(* filled by the first getEndpoint whose DFSP has no endpoints of its own, *)
(* emptied by stopProxy.  EndpointCache adds the cache of endpoints, which *)
(* is here only what policy.get answers.  A client is named by the call    *)
(* that created it.                                                        *)
(*                                                                         *)
(* The proxy cache library is external: a client connects once, a          *)
(* connection closed meanwhile makes connect() reject, disconnect() closes *)
(* the connection or rejects.                                              *)
(***************************************************************************)
CONSTANTS
    Calls,  \* calls of getEndpoint
    Stops,  \* calls of stopProxy
    None

ASSUME NoneAssumption == None \notin Calls

VARIABLES
    proxy,       \* the module's variable, None while undefined
    connection,  \* of each client
    pc,          \* where each getEndpoint is
    asked,       \* the client whose lookupProxyByDfspId it awaits
    stop,        \* where each stopProxy is
    target,      \* the client it disconnects
    orphaned     \* history: the clients a stopProxy forgot that it did not disconnect
callVars == <<pc, asked>>
stopVars == <<stop, target, orphaned>>
vars     == <<proxy, connection, callVars, stopVars>>

Waiting == {"connecting", "looking", "viaProxy"}
Settled == {"returned", "threw", "TypeError"}

TypeOK ==
    /\ proxy      \in Calls \cup {None}
    /\ connection \in [Calls -> {"unused", "connecting", "open", "failed", "closed"}]
    /\ pc         \in [Calls -> {"new"} \cup Waiting \cup Settled]
    /\ asked      \in [Calls -> Calls \cup {None}]
    /\ stop       \in [Stops -> {"new", "stopping", "returned", "threw"}]
    /\ target     \in [Stops -> Calls \cup {None}]
    /\ orphaned   \in SUBSET Calls
    /\ \A c \in Calls : pc[c] = "looking" => asked[c] # None

Init ==
    /\ proxy      = None
    /\ connection = [k \in Calls |-> "unused"]
    /\ pc         = [c \in Calls |-> "new"]
    /\ asked      = [c \in Calls |-> None]
    /\ stop       = [s \in Stops |-> "new"]
    /\ target     = [s \in Stops |-> None]
    /\ orphaned   = {}

Goto(c, l) == pc' = [pc EXCEPT ![c] = l]

-----------------------------------------------------------------------------
(* getEndpoint, from what policy.get answered for the DFSP.                *)

\* It answered with endpoints: rendered, or without the type asked for.
OwnEndpoints(c) ==
    /\ pc[c] = "new"
    /\ \E l \in {"returned", "threw"} : Goto(c, l)
    /\ UNCHANGED <<proxy, connection, asked, stopVars>>

\* It answered undefined and there is no client: assigned and connecting before the next
\* await, or createProxyCache refuses its configuration before the assignment.
CreateProxy(c) ==
    /\ pc[c] = "new" /\ proxy = None
    /\ \/ /\ proxy'      = c
          /\ connection' = [connection EXCEPT ![c] = "connecting"]
          /\ Goto(c, "connecting")
       \/ Goto(c, "threw") /\ UNCHANGED <<proxy, connection>>
    /\ UNCHANGED <<asked, stopVars>>

\* There is one, in whatever state.
UseProxy(c) ==
    /\ pc[c] = "new" /\ proxy # None
    /\ asked' = [asked EXCEPT ![c] = proxy]
    /\ Goto(c, "looking")
    /\ UNCHANGED <<proxy, connection, stopVars>>

\* connect() resolves; the variable is read again, and may be undefined by now.
Connected(c) ==
    /\ pc[c] = "connecting" /\ connection[c] = "connecting"
    /\ connection' = [connection EXCEPT ![c] = "open"]
    /\ asked' = [asked EXCEPT ![c] = proxy]
    /\ Goto(c, IF proxy = None THEN "TypeError" ELSE "looking")
    /\ UNCHANGED <<proxy, stopVars>>

\* Mutant of ConnectFails: the error is swallowed and the call not resumed.
ConnectFailsSilently(c) ==
    /\ pc[c] = "connecting" /\ connection[c] = "connecting"
    /\ connection' = [connection EXCEPT ![c] = "failed"]
    /\ UNCHANGED <<proxy, callVars, stopVars>>

\* connect() rejects: rethrown, and the client stays in the variable.
ConnectFails(c) ==
    /\ pc[c] = "connecting"
    /\ connection' = [connection EXCEPT ![c] = IF @ = "connecting" THEN "failed" ELSE @]
    /\ Goto(c, "threw")
    /\ UNCHANGED <<proxy, asked, stopVars>>

\* lookupProxyByDfspId gives a proxyId; or none, or it rejects.
Looked(c) ==
    /\ pc[c] = "looking"
    /\ \E l \in {"viaProxy", "threw"} : Goto(c, l)
    /\ UNCHANGED <<proxy, connection, asked, stopVars>>

\* policy.get for the proxyId, and the rendering.
ProxyEndpoints(c) ==
    /\ pc[c] = "viaProxy"
    /\ \E l \in {"returned", "threw"} : Goto(c, l)
    /\ UNCHANGED <<proxy, connection, asked, stopVars>>

-----------------------------------------------------------------------------
(* stopProxy                                                               *)

\* Mutant of StopProxy: the variable is emptied before the await.
StopProxyResetsFirst(s) ==
    /\ stop[s] = "new"
    /\ stop'   = [stop   EXCEPT ![s] = "stopping"]
    /\ target' = [target EXCEPT ![s] = proxy]
    /\ proxy'  = None
    /\ UNCHANGED <<connection, callVars, orphaned>>

\* Up to the await of proxy?.disconnect(), which is undefined without a client.
StopProxy(s) ==
    /\ stop[s] = "new"
    /\ stop'   = [stop   EXCEPT ![s] = "stopping"]
    /\ target' = [target EXCEPT ![s] = proxy]
    /\ UNCHANGED <<proxy, connection, callVars, orphaned>>

Closes(s) ==
    /\ stop[s] = "stopping" /\ target[s] # None
    /\ connection[target[s]] # "closed"
    /\ connection' = [connection EXCEPT ![target[s]] = "closed"]
    /\ UNCHANGED <<proxy, callVars, stopVars>>

\* disconnect() resolved: the variable is emptied, whatever it holds by now.
StopReturns(s) ==
    /\ stop[s] = "stopping"
    /\ target[s] # None => connection[target[s]] = "closed"
    /\ stop'     = [stop EXCEPT ![s] = "returned"]
    /\ proxy'    = None
    /\ orphaned' = orphaned \cup ({proxy} \ {None, target[s]})
    /\ UNCHANGED <<connection, callVars, target>>

\* Mutant of StopFails: the variable is emptied all the same.
StopFailsEmpties(s) ==
    /\ stop[s] = "stopping" /\ target[s] # None
    /\ stop'  = [stop EXCEPT ![s] = "threw"]
    /\ proxy' = None
    /\ UNCHANGED <<connection, callVars, target, orphaned>>

\* disconnect() rejects.
StopFails(s) ==
    /\ stop[s] = "stopping" /\ target[s] # None
    /\ stop' = [stop EXCEPT ![s] = "threw"]
    /\ UNCHANGED <<proxy, connection, callVars, target, orphaned>>

-----------------------------------------------------------------------------
Progress(c) == Connected(c) \/ ConnectFails(c) \/ Looked(c) \/ ProxyEndpoints(c)

Next ==
    \/ \E c \in Calls :
          OwnEndpoints(c) \/ CreateProxy(c) \/ UseProxy(c) \/ Progress(c)
    \/ \E s \in Stops : StopProxy(s) \/ Closes(s) \/ StopReturns(s) \/ StopFails(s)

Spec == Init /\ [][Next]_vars

-----------------------------------------------------------------------------
(* Properties                                                              *)

Live(k) == connection[k] \in {"connecting", "open"}

\* A client with a connection that nothing can close any more, since the variable does
\* not hold it, comes from one source only: a stopProxy that emptied the variable of
\* another client than the one it disconnected.  Concurrent lookups, failed connects
\* and failed disconnects lose none.
LostOnlyFromStop == \A k \in Calls : Live(k) /\ proxy # k => k \in orphaned

\* The same source, and no other, makes a getEndpoint dereference undefined after the
\* client it created has connected.
TypeErrorOnlyFromStop ==
    \A c \in Calls : pc[c] = "TypeError" => c \in orphaned
=============================================================================

------------------------ MODULE EndpointCacheProofs ------------------------
(* Theorems about the proxy client (EndpointProxy), and that they hold of the whole of *)
(* endpoints.js (EndpointCache), for every set of calls, stops and DFSPs.              *)
EXTENDS EndpointCache, TLAPS

\* The variables of the proxy client keep their types, and a call that looks up has a
\* client to ask.
THEOREM TypeCorrect == Spec => []TypeOK
<1>1. Init => TypeOK
  BY DEF Init, TypeOK, Waiting, Settled
<1>2. TypeOK /\ [Next]_vars => TypeOK'
  <2> SUFFICES ASSUME TypeOK, [Next]_vars PROVE TypeOK'
    OBVIOUS
  <2> USE NoneAssumption DEF TypeOK, Waiting, Settled, Goto, stopVars
  <2>1. ASSUME NEW c \in Calls, OwnEndpoints(c) PROVE TypeOK'
    BY <2>1 DEF OwnEndpoints
  <2>2. ASSUME NEW c \in Calls, CreateProxy(c) PROVE TypeOK'
    BY <2>2 DEF CreateProxy
  <2>3. ASSUME NEW c \in Calls, UseProxy(c) PROVE TypeOK'
    BY <2>3 DEF UseProxy
  <2>4. ASSUME NEW c \in Calls, Connected(c) PROVE TypeOK'
    BY <2>4 DEF Connected
  <2>5. ASSUME NEW c \in Calls, ConnectFails(c) PROVE TypeOK'
    BY <2>5 DEF ConnectFails
  <2>6. ASSUME NEW c \in Calls, Looked(c) PROVE TypeOK'
    BY <2>6 DEF Looked
  <2>7. ASSUME NEW c \in Calls, ProxyEndpoints(c) PROVE TypeOK'
    BY <2>7 DEF ProxyEndpoints
  <2>8. ASSUME NEW s \in Stops, StopProxy(s) PROVE TypeOK'
    BY <2>8 DEF StopProxy, callVars
  <2>9. ASSUME NEW s \in Stops, Closes(s) PROVE TypeOK'
    BY <2>9 DEF Closes, callVars
  <2>10. ASSUME NEW s \in Stops, StopReturns(s) PROVE TypeOK'
    BY <2>10 DEF StopReturns, callVars
  <2>11. ASSUME NEW s \in Stops, StopFails(s) PROVE TypeOK'
    BY <2>11 DEF StopFails, callVars
  <2>12. CASE UNCHANGED vars
    BY <2>12 DEF vars, callVars
  <2>13. QED
    BY <2>1, <2>2, <2>3, <2>4, <2>5, <2>6, <2>7, <2>8, <2>9, <2>10, <2>11, <2>12
    DEF Next, Progress
<1>3. QED
  BY <1>1, <1>2, PTL DEF Spec

-----------------------------------------------------------------------------
\* Together the two properties are inductive: a call that finds the variable empty after
\* its connect() was the creator of a live client that the variable does not hold.
StopInv == LostOnlyFromStop /\ TypeErrorOnlyFromStop

\* Whatever a call or a stop does next.
LEMMA StopStep == TypeOK /\ StopInv /\ [Next]_vars => StopInv'
<1> SUFFICES ASSUME TypeOK, StopInv, [Next]_vars PROVE StopInv'
  OBVIOUS
<1> USE NoneAssumption
    DEF TypeOK, StopInv, LostOnlyFromStop, TypeErrorOnlyFromStop, Live, Goto
<1>1. ASSUME NEW c \in Calls, OwnEndpoints(c) PROVE StopInv'
  BY <1>1 DEF OwnEndpoints, stopVars
<1>2. ASSUME NEW c \in Calls, CreateProxy(c) PROVE StopInv'
  BY <1>2 DEF CreateProxy, stopVars
<1>3. ASSUME NEW c \in Calls, UseProxy(c) PROVE StopInv'
  BY <1>3 DEF UseProxy, stopVars
<1>4. ASSUME NEW c \in Calls, Connected(c) PROVE StopInv'
  <2>1. proxy = None => c \in orphaned
    BY <1>4 DEF Connected
  <2>2. QED
    BY <1>4, <2>1 DEF Connected, stopVars
<1>5. ASSUME NEW c \in Calls, ConnectFails(c) PROVE StopInv'
  BY <1>5 DEF ConnectFails, stopVars
<1>6. ASSUME NEW c \in Calls, Looked(c) PROVE StopInv'
  BY <1>6 DEF Looked, stopVars
<1>7. ASSUME NEW c \in Calls, ProxyEndpoints(c) PROVE StopInv'
  BY <1>7 DEF ProxyEndpoints, stopVars
<1>8. ASSUME NEW s \in Stops, StopProxy(s) PROVE StopInv'
  BY <1>8 DEF StopProxy, callVars
<1>9. ASSUME NEW s \in Stops, Closes(s) PROVE StopInv'
  BY <1>9 DEF Closes, callVars, stopVars
<1>10. ASSUME NEW s \in Stops, StopReturns(s) PROVE StopInv'
  <2>1. \A k \in Calls : Live(k) /\ proxy = k => k \in orphaned'
    BY <1>10 DEF StopReturns
  <2>2. QED
    BY <1>10, <2>1 DEF StopReturns, callVars
<1>11. ASSUME NEW s \in Stops, StopFails(s) PROVE StopInv'
  BY <1>11 DEF StopFails, callVars
<1>12. CASE UNCHANGED vars
  BY <1>12 DEF vars, callVars, stopVars
<1>13. QED
  BY <1>1, <1>2, <1>3, <1>4, <1>5, <1>6, <1>7, <1>8, <1>9, <1>10, <1>11, <1>12
  DEF Next, Progress

\* Only a stopProxy that empties the variable of a client it did not disconnect loses a
\* live client, or makes getEndpoint dereference undefined, however many calls overlap.
THEOREM StopsCorrect == Spec => [](LostOnlyFromStop /\ TypeErrorOnlyFromStop)
<1>1. Init => StopInv
  BY DEF Init, StopInv, LostOnlyFromStop, TypeErrorOnlyFromStop, Live
<1>2. QED
  BY <1>1, StopStep, TypeCorrect, PTL DEF Spec, StopInv

-----------------------------------------------------------------------------
\* Every step of getEndpoint with its cache is a step of the proxy client, or none.
LEMMA ProxyStep == [EndpointNext]_endpointVars => [Next]_vars
<1> SUFFICES ASSUME [EndpointNext]_endpointVars PROVE [Next]_vars
  OBVIOUS
<1>1. ASSUME InitializeCache \/ StopCache PROVE UNCHANGED vars
  BY <1>1 DEF InitializeCache, StopCache
<1>2. ASSUME NEW i \in Ids, PolicyStep(i) \/ GenerateTimesOut(i) \/ Expire(i)
      PROVE  UNCHANGED vars
  BY <1>2
  DEF PolicyStep, Hit, Miss, FetchEndpoints, Generated, GenerateTimesOut, Expire, Deliver
<1>3. ASSUME NEW l \in LateGenerations, GenerateLate(l) PROVE UNCHANGED vars
  BY <1>3 DEF GenerateLate
<1>4. ASSUME NEW c \in Calls, NEW f \in Fsps,
             GetEndpoint(c, f) \/ GetEndpointAndRender(c, f)
      PROVE  [Next]_vars
  BY <1>4 DEF GetEndpoint, GetEndpointAndRender, Get, Next
<1>5. ASSUME NEW c \in Calls, CallStep(c) PROVE Next
  <2>1. CASE Own(c)
    BY <2>1 DEF Own, Next
  <2>2. CASE Represented(c)
    BY <2>2 DEF Represented, Next, Progress
  <2>3. CASE ViaProxy(c)
    BY <2>3 DEF ViaProxy, Next, Progress
  <2>4. QED
    BY <1>5, <2>1, <2>2, <2>3 DEF CallStep
<1>6. ASSUME NEW s \in Stops, StopProxy(s) \/ Closes(s) \/ StopReturns(s) \/ StopFails(s)
      PROVE  Next
  BY <1>6 DEF Next
<1>7. CASE UNCHANGED endpointVars
  BY <1>7 DEF endpointVars
<1>8. QED
  BY <1>1, <1>2, <1>3, <1>4, <1>5, <1>6, <1>7 DEF EndpointNext

\* getEndpoint with its cache implements the proxy client.
THEOREM ProxyImplemented == EndpointSpec => Spec
<1>1. EndpointInit => Init
  BY DEF EndpointInit
<1>2. QED
  BY <1>1, ProxyStep, PTL DEF EndpointSpec, Spec

\* Whatever the cache holds and however fetches are joined, a live client is lost, or an
\* undefined one used, only through a stopProxy.
THEOREM StopsCorrectWithCache ==
    EndpointSpec => [](LostOnlyFromStop /\ TypeErrorOnlyFromStop)
<1>1. QED
  BY ProxyImplemented, StopsCorrect

-----------------------------------------------------------------------------
\* Every step keeps the types of the cache, and a call never awaits a generation that is
\* not in flight, whoever started it.
LEMMA EndpointTypeStep == EndpointTypeOK /\ [EndpointNext]_endpointVars => EndpointTypeOK'
<1> SUFFICES ASSUME EndpointTypeOK, [EndpointNext]_endpointVars PROVE EndpointTypeOK'
  OBVIOUS
<1> USE IdsAssumption DEF EndpointTypeOK, Endpoints, Results, cacheVars, readVars
<1>1. ASSUME NEW c \in Calls, NEW i \in Ids, PolicyGet(c, i),
             fsp' \in [Calls -> Fsps \cup {None}], enabled' \in [Calls -> BOOLEAN]
      PROVE  EndpointTypeOK'
  BY <1>1 DEF PolicyGet
<1>2. CASE InitializeCache \/ StopCache
  BY <1>2 DEF InitializeCache, StopCache
<1>3. ASSUME NEW i \in Ids, Hit(i) PROVE EndpointTypeOK'
  BY <1>3 DEF Hit, Deliver
<1>4. ASSUME NEW i \in Ids, Miss(i) \/ FetchEndpoints(i) PROVE EndpointTypeOK'
  BY <1>4 DEF Miss, FetchEndpoints
<1>5. ASSUME NEW i \in Ids, Generated(i) PROVE EndpointTypeOK'
  BY <1>5 DEF Generated, Store, Deliver
<1>6. ASSUME NEW i \in Ids, Expire(i) PROVE EndpointTypeOK'
  BY <1>6 DEF Expire
<1>7. ASSUME NEW i \in Ids, GenerateTimesOut(i) PROVE EndpointTypeOK'
  BY <1>7 DEF GenerateTimesOut, Deliver, LateGenerations
<1>8. ASSUME NEW l \in LateGenerations, GenerateLate(l) PROVE EndpointTypeOK'
  BY <1>8 DEF GenerateLate, Store, LateGenerations
<1>9. ASSUME NEW c \in Calls, NEW f \in Fsps,
             GetEndpoint(c, f) \/ GetEndpointAndRender(c, f)
      PROVE  EndpointTypeOK'
  <2>1. f \in Ids /\ fsp' = [fsp EXCEPT ![c] = f]
    BY <1>9 DEF GetEndpoint, GetEndpointAndRender, Get, Ids
  <2>2. CASE state = "off"
    BY <1>9, <2>1, <2>2 DEF GetEndpoint, GetEndpointAndRender, Get
  <2>3. CASE state # "off"
    <3>1. /\ PolicyGet(c, f)
          /\ \E proxied \in BOOLEAN : enabled' = [enabled EXCEPT ![c] = proxied]
      BY <1>9, <2>3 DEF GetEndpoint, GetEndpointAndRender, Get
    <3>2. QED
      BY <1>1, <2>1, <3>1
  <2>4. QED
    BY <2>2, <2>3
<1>10. ASSUME NEW c \in Calls, Own(c) \/ ViaProxy(c) PROVE EndpointTypeOK'
  BY <1>10 DEF Own, ViaProxy, Forget
<1>11. ASSUME NEW c \in Calls, Represented(c) PROVE EndpointTypeOK'
  <2>1. CASE UNCHANGED <<cacheVars, readVars>>
    BY <2>1
  <2>2. CASE (\E p \in Proxies : PolicyGet(c, p)) /\ UNCHANGED <<fsp, enabled>>
    BY <1>1, <2>2 DEF Ids
  <2>3. QED
    BY <1>11, <2>1, <2>2 DEF Represented
<1>12. CASE UNCHANGED <<cacheVars, readVars>>
  BY <1>12
<1>13. QED
  BY <1>2, <1>3, <1>4, <1>5, <1>6, <1>7, <1>8, <1>9, <1>10, <1>11, <1>12
  DEF EndpointNext, PolicyStep, CallStep, endpointVars

\* The variables of the cache keep their types, and no getEndpoint awaits a generation that
\* is not in flight, however joined fetches, stops and expiry interleave.
THEOREM EndpointTypeCorrect == EndpointSpec => []EndpointTypeOK
<1>1. EndpointInit => EndpointTypeOK
  BY DEF EndpointInit, EndpointTypeOK, Endpoints, Results
<1>2. QED
  BY <1>1, EndpointTypeStep, PTL DEF EndpointSpec
=============================================================================

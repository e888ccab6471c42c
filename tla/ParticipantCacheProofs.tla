------------------------- MODULE ParticipantCacheProofs -------------------------
(* Theorems about ParticipantCache, for every set of calls, participants and URLs. *)
EXTENDS ParticipantCache, TLAPS

\* The steps of the two modules, by the operation they are instances of.
LEMMA NextCases ==
    ASSUME Next
    PROVE  \/ \E m \in Modules : InitializeCache(m) \/ StopCache(m)
           \/ \E g \in Gets, u \in Urls, f \in Ids : Get(g, u, f) \/ GetTooEarly(g, u, f)
           \/ \E g \in Gets : Fetched(g) \/ Generated(g) \/ DropError(g)
           \/ \E f \in Ids :
                 \/ Hit(f) \/ Miss(f) \/ GenerateTimesOut(f)
                 \/ Invalidate(f) \/ Expire(f) \/ Change(f)
BY DEF Next, Lookup, Generate, InitializeParticipants, InitializeProxies, StopParticipants, StopProxies,
       GetParticipant, GetAllProxiesNames, FetchParticipant, FetchProxies,
       InvalidateParticipantCache, InvalidateProxiesCache, Modules, Ids

\* TypeOK is inductive: one step per operation.
LEMMA TypeStep == TypeOK /\ [Next]_vars => TypeOK'
<1> SUFFICES ASSUME TypeOK, [Next]_vars PROVE TypeOK'
  OBVIOUS
<1> USE BoundsAssumption, NoneAssumption
    DEF TypeOK, Versions, Modules, ModuleOf, Answers
<1>1. ASSUME NEW m \in Modules, InitializeCache(m) PROVE TypeOK'
  BY <1>1 DEF InitializeCache, fetchVars, worldVars, callVars
<1>2. ASSUME NEW m \in Modules, StopCache(m) PROVE TypeOK'
  BY <1>2 DEF StopCache, fetchVars, worldVars, callVars
<1>3. ASSUME NEW g \in Gets, NEW u \in Urls, NEW f \in Ids, Get(g, u, f)
      PROVE  TypeOK'
  BY <1>3 DEF Get, fetchVars, worldVars
<1>4. ASSUME NEW g \in Gets, NEW u \in Urls, NEW f \in Ids, GetTooEarly(g, u, f)
      PROVE  TypeOK'
  BY <1>4 DEF GetTooEarly, fetchVars, worldVars
<1>5. ASSUME NEW f \in Ids, Hit(f) PROVE TypeOK'
  BY <1>5 DEF Hit, Deliver, fetchVars, worldVars
<1>6. ASSUME NEW f \in Ids, Miss(f) PROVE TypeOK'
  BY <1>6 DEF Miss, callVars, fetchVars, worldVars
<1>7. ASSUME NEW g \in Gets, Fetched(g) PROVE TypeOK'
  BY <1>7 DEF Fetched, callVars, fetchVars, worldVars
<1>8. ASSUME NEW g \in Gets, Generated(g) PROVE TypeOK'
  <2>1. CASE flight[fsp[g]] = g
    <3>1. Deliver(fsp[g], g)
      BY <1>8, <2>1 DEF Generated
    <3>2. QED
      BY <1>8, <2>1, <3>1 DEF Generated, Deliver, fetchVars, worldVars
  <2>2. CASE flight[fsp[g]] # g
    BY <1>8, <2>2 DEF Generated, callVars, fetchVars, worldVars
  <2>3. QED
    BY <2>1, <2>2
<1>9. ASSUME NEW g \in Gets, DropError(g) PROVE TypeOK'
  BY <1>9 DEF DropError, fetchVars, worldVars
<1>10. ASSUME NEW f \in Ids, Invalidate(f) PROVE TypeOK'
  BY <1>10 DEF Invalidate, callVars, fetchVars, worldVars
<1>11. ASSUME NEW f \in Ids, Expire(f) PROVE TypeOK'
  BY <1>11 DEF Expire, callVars, fetchVars, worldVars
<1>12. ASSUME NEW f \in Ids, Change(f) PROVE TypeOK'
  BY <1>12 DEF Change, callVars, cacheVars, fetchVars, worldVars
<1>13. ASSUME NEW f \in Ids, GenerateTimesOut(f) PROVE TypeOK'
  BY <1>13 DEF GenerateTimesOut, fetchVars, worldVars
<1>14. CASE UNCHANGED vars
  BY <1>14 DEF vars, cacheVars, callVars, fetchVars, worldVars
<1>15. QED
  BY <1>1, <1>2, <1>3, <1>4, <1>5, <1>6, <1>7, <1>8, <1>9, <1>10, <1>11, <1>12, <1>13, <1>14,
     NextCases

\* The variables keep their types, the versions their bound.
THEOREM TypeCorrect == Spec => []TypeOK
<1>1. Init => TypeOK
  BY BoundsAssumption DEF Init, TypeOK, Versions
<1>2. QED
  BY <1>1, TypeStep, PTL DEF Spec

-----------------------------------------------------------------------------
(* Generations, and the calls that join them.                              *)

\* The generation that gets of an id join was started by a call for this id that still
\* waits; one that is not joined any more has timed out, and was fetching by then.
FlightInv ==
    /\ \A f \in Ids : flight[f] # None =>
          /\ pc[flight[f]] = "waiting" /\ fsp[flight[f]] = f
          /\ stage[flight[f]] # "none"
    /\ \A g \in Gets : stage[g] # "none" =>
          flight[fsp[g]] = g \/ (pc[g] = "threw" /\ stage[g] # "reading")

\* A generation that is over: its answer does not change any more.
Over(e) == e \in Gets /\ pc[e] \notin {"new", "waiting"} /\ stage[e] = "none"

\* What the cache holds, and what a call was given, comes from such a one.
EntryInv ==
    /\ \A f \in Ids : cache[f] # None => Over(cache[f]) /\ answer[cache[f]] # "undefined"
    /\ \A g \in Gets : got[g] # None => Over(got[g]) /\ fsp[g] \in Ids
    /\ \A g \in Gets : pc[g] \in {"new", "waiting"} => got[g] = None

\* Versions only grow; a call waits for an id that was last invalidated when it began, or
\* later.
FloorInv ==
    /\ \A f \in Ids : floor[f] <= world[f]
    /\ \A g \in Gets : pc[g] = "waiting" => fsp[g] \in Ids /\ since[g] <= floor[fsp[g]]

\* A generation that has read a version older than the last invalidation had its answer
\* by then.
RaceInv ==
    \A g \in Gets :
        stage[g] = "answered" /\ Stale(g, floor[fsp[g]]) => g \in raced

\* Every call that waits has a generation in flight to wait for.
WaitersServed == \A g \in Gets : pc[g] = "waiting" => flight[fsp[g]] # None

CacheInv == FlightInv /\ EntryInv /\ FloorInv /\ RaceInv /\ WaitersServed

\* What the runs check.
Properties == StaleOnlyFromRace /\ ErrorDropped

\* Together with the types CacheInv is inductive: a generation in flight, and only it, is
\* waited for, so what the cache holds is never the one that an answer is written to.
LEMMA CacheStep == TypeOK /\ CacheInv /\ [Next]_vars => CacheInv'
<1> SUFFICES ASSUME TypeOK, CacheInv, [Next]_vars PROVE CacheInv'
  OBVIOUS
<1> USE NoneAssumption, BoundsAssumption
    DEF TypeOK, Versions, Modules, ModuleOf, Answers, CacheInv, FlightInv, EntryInv, Over,
        FloorInv, RaceInv, WaitersServed, Stale
<1>1. ASSUME NEW m \in Modules, InitializeCache(m) PROVE CacheInv'
  BY <1>1 DEF InitializeCache, fetchVars, worldVars, callVars
<1>2. ASSUME NEW m \in Modules, StopCache(m) PROVE CacheInv'
  BY <1>2 DEF StopCache, fetchVars, worldVars, callVars
<1>3. ASSUME NEW g \in Gets, NEW u \in Urls, NEW f \in Ids, Get(g, u, f)
      PROVE  CacheInv'
  <2>1. stage[g] = "none" /\ got[g] = None /\ ~Over(g)
    BY <1>3 DEF Get
  <2>2. \A h \in Gets : Over(h)' <=> Over(h)
    BY <1>3, <2>1 DEF Get
  <2>3. FlightInv'
    BY <1>3, <2>1 DEF Get, worldVars
  <2>4. EntryInv'
    BY <1>3, <2>1, <2>2 DEF Get, fetchVars
  <2>5. FloorInv' /\ RaceInv' /\ WaitersServed'
    BY <1>3, <2>1 DEF Get, fetchVars, worldVars
  <2>6. QED
    BY <2>3, <2>4, <2>5
<1>4. ASSUME NEW g \in Gets, NEW u \in Urls, NEW f \in Ids, GetTooEarly(g, u, f)
      PROVE  CacheInv'
  BY <1>4 DEF GetTooEarly, fetchVars, worldVars
<1>5. ASSUME NEW f \in Ids, Hit(f) PROVE CacheInv'
  BY <1>5 DEF Hit, Deliver, fetchVars, worldVars
<1>6. ASSUME NEW f \in Ids, Miss(f) PROVE CacheInv'
  BY <1>6 DEF Miss, callVars, fetchVars, worldVars
<1>7. ASSUME NEW g \in Gets, Fetched(g) PROVE CacheInv'
  BY <1>7 DEF Fetched, callVars, fetchVars, worldVars
<1>8. ASSUME NEW g \in Gets, Generated(g) PROVE CacheInv'
  <2>1. CASE flight[fsp[g]] = g
    <3>1. Deliver(fsp[g], g)
      BY <1>8, <2>1 DEF Generated
    <3>2. QED
      BY <1>8, <2>1, <3>1 DEF Generated, Deliver, fetchVars, worldVars
  <2>2. CASE flight[fsp[g]] # g
    BY <1>8, <2>2 DEF Generated, callVars, fetchVars, worldVars
  <2>3. QED
    BY <2>1, <2>2
<1>9. ASSUME NEW g \in Gets, DropError(g) PROVE CacheInv'
  BY <1>9 DEF DropError, fetchVars, worldVars
<1>10. ASSUME NEW f \in Ids, Invalidate(f) PROVE CacheInv'
  BY <1>10 DEF Invalidate, callVars, fetchVars, worldVars
<1>11. ASSUME NEW f \in Ids, Expire(f) PROVE CacheInv'
  BY <1>11 DEF Expire, callVars, fetchVars, worldVars
<1>12. ASSUME NEW f \in Ids, Change(f) PROVE CacheInv'
  BY <1>12 DEF Change, callVars, cacheVars, fetchVars, worldVars
<1>13. ASSUME NEW f \in Ids, GenerateTimesOut(f) PROVE CacheInv'
  BY <1>13 DEF GenerateTimesOut, fetchVars, worldVars
<1>14. CASE UNCHANGED vars
  BY <1>14 DEF vars, cacheVars, callVars, fetchVars, worldVars
<1>15. QED
  BY <1>1, <1>2, <1>3, <1>4, <1>5, <1>6, <1>7, <1>8, <1>9, <1>10, <1>11, <1>12, <1>13, <1>14,
     NextCases

\* What the runs check is preserved where CacheInv holds.
LEMMA PropertyStep == TypeOK /\ CacheInv /\ Properties /\ [Next]_vars => Properties'
<1> SUFFICES ASSUME TypeOK, CacheInv, Properties, [Next]_vars PROVE Properties'
  OBVIOUS
<1> USE NoneAssumption, BoundsAssumption
    DEF TypeOK, Versions, Modules, ModuleOf, Answers, CacheInv, FlightInv, EntryInv, Over,
        FloorInv, RaceInv, Stale, Properties, StaleOnlyFromRace, ErrorDropped
<1>1. ASSUME NEW m \in Modules, InitializeCache(m) PROVE Properties'
  BY <1>1 DEF InitializeCache, fetchVars, worldVars, callVars
<1>2. ASSUME NEW m \in Modules, StopCache(m) PROVE Properties'
  BY <1>2 DEF StopCache, fetchVars, worldVars, callVars
<1>3. ASSUME NEW g \in Gets, NEW u \in Urls, NEW f \in Ids, Get(g, u, f)
      PROVE  Properties'
  BY <1>3 DEF Get, fetchVars, worldVars
<1>4. ASSUME NEW g \in Gets, NEW u \in Urls, NEW f \in Ids, GetTooEarly(g, u, f)
      PROVE  Properties'
  BY <1>4 DEF GetTooEarly, fetchVars, worldVars
<1>5. ASSUME NEW f \in Ids, Hit(f) PROVE Properties'
  BY <1>5 DEF Hit, Deliver, fetchVars, worldVars
<1>6. ASSUME NEW f \in Ids, Miss(f) PROVE Properties'
  BY <1>6 DEF Miss, callVars, fetchVars, worldVars
<1>7. ASSUME NEW g \in Gets, Fetched(g) PROVE Properties'
  BY <1>7 DEF Fetched, callVars, fetchVars, worldVars
<1>8. ASSUME NEW g \in Gets, Generated(g) PROVE Properties'
  <2>1. CASE flight[fsp[g]] = g
    <3>1. Deliver(fsp[g], g)
      BY <1>8, <2>1 DEF Generated
    <3>2. QED
      BY <1>8, <2>1, <3>1 DEF Generated, Deliver, fetchVars, worldVars
  <2>2. CASE flight[fsp[g]] # g
    BY <1>8, <2>2 DEF Generated, callVars, fetchVars, worldVars
  <2>3. QED
    BY <2>1, <2>2
<1>9. ASSUME NEW g \in Gets, DropError(g) PROVE Properties'
  BY <1>9 DEF DropError, fetchVars, worldVars
<1>10. ASSUME NEW f \in Ids, Invalidate(f) PROVE Properties'
  BY <1>10 DEF Invalidate, callVars, fetchVars, worldVars
<1>11. ASSUME NEW f \in Ids, Expire(f) PROVE Properties'
  BY <1>11 DEF Expire, callVars, fetchVars, worldVars
<1>12. ASSUME NEW f \in Ids, Change(f) PROVE Properties'
  BY <1>12 DEF Change, callVars, cacheVars, fetchVars, worldVars
<1>13. ASSUME NEW f \in Ids, GenerateTimesOut(f) PROVE Properties'
  BY <1>13 DEF GenerateTimesOut, fetchVars, worldVars
<1>14. CASE UNCHANGED vars
  BY <1>14 DEF vars, cacheVars, callVars, fetchVars, worldVars
<1>15. QED
  BY <1>1, <1>2, <1>3, <1>4, <1>5, <1>6, <1>7, <1>8, <1>9, <1>10, <1>11, <1>12, <1>13, <1>14,
     NextCases

\* Generations, entries, calls and invalidations stay related as CacheInv says.
THEOREM CacheInvariant == Spec => []CacheInv
<1>1. Init => CacheInv
  BY BoundsAssumption
  DEF Init, CacheInv, FlightInv, EntryInv, FloorInv, RaceInv, WaitersServed, Versions
<1>2. QED
  BY <1>1, CacheStep, TypeCorrect, PTL DEF Spec

-----------------------------------------------------------------------------
\* No call of getParticipant or getAllProxiesNames waits for a generation that is not
\* there, however gets, stops, invalidations and expiry interleave.
THEOREM NoLostWaiter == Spec => []WaitersServed
<1>1. CacheInv => WaitersServed
  BY DEF CacheInv
<1>2. QED
  BY <1>1, CacheInvariant, PTL

\* What the runs check holds, both parts by one induction.
LEMMA PropertiesCorrect == Spec => []Properties
<1>1. Init => Properties
  BY DEF Init, Properties, StaleOnlyFromRace, Stale, ErrorDropped
<1>2. QED
  BY <1>1, PropertyStep, TypeCorrect, CacheInvariant, PTL DEF Spec

\* A value older than an invalidation is in the cache, or returned to a call that began
\* after it, only if its generation already had its answer then.
THEOREM StaleCorrect == Spec => []StaleOnlyFromRace
<1>1. Properties => StaleOnlyFromRace
  BY DEF Properties
<1>2. QED
  BY <1>1, PropertiesCorrect, PTL

\* A call that found an error in an entry and has thrown never finds that entry again.
THEOREM ErrorsDropped == Spec => []ErrorDropped
<1>1. Properties => ErrorDropped
  BY DEF Properties
<1>2. QED
  BY <1>1, PropertiesCorrect, PTL
=============================================================================

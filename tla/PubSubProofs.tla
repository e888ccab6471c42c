----------------------------- MODULE PubSubProofs -----------------------------
(* Theorems about PubSub, for every set of calls and channels and every bound. *)
EXTENDS PubSub, TLAPS

\* The variables keep their types, and a call about a channel names one.
TypeInv ==
    /\ TypeOK
    /\ \A c \in Calls :
          pc[c] \in Active /\ kind[c] \in {"subscribe", "unsubscribe"} => chan[c] \in Channels

\* TypeInv is inductive: one step per action.
LEMMA TypeStep == TypeInv /\ [Next]_vars => TypeInv'
<1> SUFFICES ASSUME TypeInv, [Next]_vars PROVE TypeInv'
  OBVIOUS
<1> USE AttemptsAssumption, NoneAssumption
    DEF TypeInv, TypeOK, Kinds, Active, clientVars
<1>1. ASSUME NEW c \in Calls, NEW ch \in Channels, Subscribe(c, ch) PROVE TypeInv'
  BY <1>1 DEF Subscribe, Start
<1>2. ASSUME NEW c \in Calls, NEW ch \in Channels, Unsubscribe(c, ch) PROVE TypeInv'
  BY <1>2 DEF Unsubscribe, Start
<1>3. ASSUME NEW c \in Calls, Ping(c) \/ Disconnect(c) PROVE TypeInv'
  BY <1>3 DEF Ping, Disconnect, Start
<1>4. ASSUME NEW c \in Calls, NotConnected(c) PROVE TypeInv'
  BY <1>4 DEF NotConnected
<1>5. ASSUME NEW c \in Calls, Answer(c) PROVE TypeInv'
  BY <1>5 DEF Answer, Effect, ConnectionEnds
<1>6. ASSUME NEW c \in Calls, Error(c) PROVE TypeInv'
  BY <1>6 DEF Error, Effect, ConnectionEnds, FailedAttempt
<1>7. ASSUME NEW c \in Calls, RecreateError(c) PROVE TypeInv'
  BY <1>7 DEF RecreateError, ConnectionEnds, FailedAttempt
<1>8. ASSUME NEW c \in Calls, Retry(c) PROVE TypeInv'
  BY <1>8 DEF Retry
<1>9. ASSUME NEW c \in Calls, SubscribeResolves(c) PROVE TypeInv'
  BY <1>9 DEF SubscribeResolves, Resolve
<1>10. ASSUME NEW c \in Calls, DisconnectResolves(c) PROVE TypeInv'
  BY <1>10 DEF DisconnectResolves, Resolve
<1>11. ASSUME NEW c \in Calls, OtherResolves(c) PROVE TypeInv'
  BY <1>11 DEF OtherResolves, Resolve
<1>12. CASE UNCHANGED vars
  BY <1>12 DEF vars, callVars
<1>13. QED
  BY <1>1, <1>2, <1>3, <1>4, <1>5, <1>6, <1>7, <1>8, <1>9, <1>10, <1>11, <1>12
  DEF Next, Progress

\* The variables of PubSub keep their types, tries its bound, and calls about
\* a channel name one, however calls overlap.
THEOREM TypeCorrect == Spec => []TypeInv
<1>1. Init => TypeInv
  BY AttemptsAssumption DEF Init, TypeInv, TypeOK, Kinds, Active
<1>2. QED
  BY <1>1, TypeStep, PTL DEF Spec

-----------------------------------------------------------------------------
(* The calls on a channel, when they do not overlap.                       *)

OneCallPerChannel ==
    \A c, d \in Calls :
        pc[c] \in Active /\ pc[d] \in Active /\ chan[c] = chan[d] /\ chan[c] \in Channels
        => c = d

\* A recorded listener is that of a subscribe() to this channel, which resolved.
Recorded ==
    \A ch \in Channels : tracked[ch] # None =>
        LET l == tracked[ch] IN kind[l] = "subscribe" /\ pc[l] = "resolved" /\ chan[l] = ch

\* So is one that can be called.
Listening ==
    \A l \in listeners :
        kind[l] = "subscribe" /\ pc[l] = "resolved" /\ chan[l] \in Channels

\* A command of a subscribe() whose connection has not ended was sent on it.
Sent ==
    \A c \in Calls : pc[c] = "sent" /\ c \in kept => c \in fresh

\* While unsubscribe() is under way nothing is recorded for its channel.
Forgotten ==
    \A c \in Calls :
        kind[c] = "unsubscribe" /\ pc[c] \in Active => tracked[chan[c]] = None

\* An answered subscribe() whose connection was not replaced has its subscription.
Subscribed ==
    \A c \in Calls :
        kind[c] = "subscribe" /\ pc[c] = "answered" /\ c \in kept => chan[c] \in subs

\* The call about a channel that is under way is the last one that began.
Latest ==
    /\ \A ch \in Channels :
          latest[ch] # None => chan[latest[ch]] = ch /\ pc[latest[ch]] # "new"
    /\ \A c \in Calls :
          pc[c] \in Active /\ chan[c] \in Channels => latest[chan[c]] = c

ChannelInv ==
    /\ Latest
    /\ OneCallPerChannel /\ Recorded /\ Listening /\ Sent /\ Forgotten /\ Subscribed
    /\ RecordedDelivers

\* Nothing is recorded for a channel that is being subscribed to.
Free ==
    \A c \in Calls :
        kind[c] = "subscribe" /\ pc[c] \in Active => tracked[chan[c]] = None

ListenerInv == Free /\ Tracked /\ Silent

\* Without overlap ChannelInv is inductive: an unsubscribe() that could remove what a
\* recorded listener needs has erased the record before its command is sent.
LEMMA ChannelStep ==
  ASSUME ~Overlap
  PROVE  TypeInv /\ ChannelInv /\ [Next]_vars => ChannelInv'
<1> SUFFICES ASSUME TypeInv, ChannelInv, [Next]_vars PROVE ChannelInv'
  OBVIOUS
<1> USE NoneAssumption
    DEF TypeInv, TypeOK, Kinds, Active, ChannelInv, OneCallPerChannel, Latest, Recorded, Listening,
        Sent, Forgotten, Subscribed, RecordedDelivers
<1>1. ASSUME NEW c \in Calls, NEW ch \in Channels, Subscribe(c, ch) PROVE ChannelInv'
  BY <1>1 DEF Subscribe, Start, MayCall
<1>2. ASSUME NEW c \in Calls, NEW ch \in Channels, Unsubscribe(c, ch) PROVE ChannelInv'
  BY <1>2 DEF Unsubscribe, Start, MayCall
<1>3. ASSUME NEW c \in Calls, Ping(c) \/ Disconnect(c) PROVE ChannelInv'
  BY <1>3 DEF Ping, Disconnect, Start
<1>4. ASSUME NEW c \in Calls, NotConnected(c) PROVE ChannelInv'
  BY <1>4 DEF NotConnected, clientVars
<1>5. ASSUME NEW c \in Calls, Answer(c) PROVE ChannelInv'
  BY <1>5 DEF Answer, Effect, ConnectionEnds
<1>6. ASSUME NEW c \in Calls, Error(c) PROVE ChannelInv'
  BY <1>6 DEF Error, Effect, ConnectionEnds, FailedAttempt
<1>7. ASSUME NEW c \in Calls, RecreateError(c) PROVE ChannelInv'
  BY <1>7 DEF RecreateError, ConnectionEnds, FailedAttempt
<1>8. ASSUME NEW c \in Calls, Retry(c) PROVE ChannelInv'
  BY <1>8 DEF Retry, clientVars
<1>9. ASSUME NEW c \in Calls, SubscribeResolves(c) PROVE ChannelInv'
  BY <1>9 DEF SubscribeResolves, Resolve
<1>10. ASSUME NEW c \in Calls, DisconnectResolves(c) PROVE ChannelInv'
  BY <1>10 DEF DisconnectResolves, Resolve
<1>11. ASSUME NEW c \in Calls, OtherResolves(c) PROVE ChannelInv'
  BY <1>11 DEF OtherResolves, Resolve
<1>12. CASE UNCHANGED vars
  BY <1>12 DEF vars, clientVars, callVars
<1>13. QED
  BY <1>1, <1>2, <1>3, <1>4, <1>5, <1>6, <1>7, <1>8, <1>9, <1>10, <1>11, <1>12
  DEF Next, Progress

\* So are the properties of listeners, when no subscribed channel is subscribed again.
LEMMA ListenerStep ==
  ASSUME ~Overlap, ~Resubscribe
  PROVE  TypeInv /\ ChannelInv /\ ListenerInv /\ [Next]_vars => ListenerInv'
<1> SUFFICES ASSUME TypeInv, ChannelInv, ListenerInv, [Next]_vars PROVE ListenerInv'
  OBVIOUS
<1> USE NoneAssumption
    DEF TypeInv, TypeOK, Kinds, Active, ChannelInv, OneCallPerChannel, Latest, Recorded, Listening,
        Forgotten, ListenerInv, Free, Tracked, Silent
<1>1. ASSUME NEW c \in Calls, NEW ch \in Channels, Subscribe(c, ch) PROVE ListenerInv'
  BY <1>1 DEF Subscribe, Start, MayCall
<1>2. ASSUME NEW c \in Calls, NEW ch \in Channels, Unsubscribe(c, ch) PROVE ListenerInv'
  BY <1>2 DEF Unsubscribe, Start, MayCall
<1>3. ASSUME NEW c \in Calls, Ping(c) \/ Disconnect(c) PROVE ListenerInv'
  BY <1>3 DEF Ping, Disconnect, Start
<1>4. ASSUME NEW c \in Calls, NotConnected(c) PROVE ListenerInv'
  BY <1>4 DEF NotConnected, clientVars
<1>5. ASSUME NEW c \in Calls, Answer(c) PROVE ListenerInv'
  BY <1>5 DEF Answer, Effect, ConnectionEnds
<1>6. ASSUME NEW c \in Calls, Error(c) PROVE ListenerInv'
  BY <1>6 DEF Error, Effect, ConnectionEnds, FailedAttempt
<1>7. ASSUME NEW c \in Calls, RecreateError(c) PROVE ListenerInv'
  BY <1>7 DEF RecreateError, ConnectionEnds, FailedAttempt
<1>8. ASSUME NEW c \in Calls, Retry(c) PROVE ListenerInv'
  BY <1>8 DEF Retry, clientVars
<1>9. ASSUME NEW c \in Calls, SubscribeResolves(c) PROVE ListenerInv'
  BY <1>9 DEF SubscribeResolves, Resolve
<1>10. ASSUME NEW c \in Calls, DisconnectResolves(c) PROVE ListenerInv'
  BY <1>10 DEF DisconnectResolves, Resolve
<1>11. ASSUME NEW c \in Calls, OtherResolves(c) PROVE ListenerInv'
  BY <1>11 DEF OtherResolves, Resolve
<1>12. CASE UNCHANGED vars
  BY <1>12 DEF vars, clientVars, callVars
<1>13. QED
  BY <1>1, <1>2, <1>3, <1>4, <1>5, <1>6, <1>7, <1>8, <1>9, <1>10, <1>11, <1>12
  DEF Next, Progress

\* When no two calls about a channel overlap, a recorded subscription whose connection was
\* not replaced since its subscribe() began delivers, be it subscribed again or not.
THEOREM RecordedCorrect ==
  ASSUME ~Overlap
  PROVE  Spec => []RecordedDelivers
<1>1. Init => ChannelInv
  BY NoneAssumption
  DEF Init, Active, ChannelInv, OneCallPerChannel, Latest, Recorded, Listening, Sent, Forgotten,
      Subscribed, RecordedDelivers
<1>2. TypeInv /\ ChannelInv /\ [Next]_vars => ChannelInv'
  BY ChannelStep
<1>3. ChannelInv => RecordedDelivers
  BY DEF ChannelInv
<1>4. QED
  BY <1>1, <1>2, <1>3, TypeCorrect, PTL DEF Spec

\* When in addition no subscribed channel is subscribed again, listeners and records of a
\* channel stay related as ListenerInv says.
THEOREM ListenersInvariant ==
  ASSUME ~Overlap, ~Resubscribe
  PROVE  Spec => []ListenerInv
<1>1. Init => ChannelInv /\ ListenerInv
  BY NoneAssumption
  DEF Init, Active, ChannelInv, OneCallPerChannel, Latest, Recorded, Listening, Sent, Forgotten,
      Subscribed, RecordedDelivers, ListenerInv, Free, Tracked, Silent
<1>2. TypeInv /\ ChannelInv /\ [Next]_vars => ChannelInv'
  BY ChannelStep
<1>3. TypeInv /\ ChannelInv /\ ListenerInv /\ [Next]_vars => ListenerInv'
  BY ListenerStep
<1>4. QED
  BY <1>1, <1>2, <1>3, TypeCorrect, PTL DEF Spec

\* Then every listener that can be called is the one subscriptionCallbacks has for its
\* channel, or its subscribe() is still under way: unsubscribe() can take off every one.
THEOREM TrackedCorrect ==
  ASSUME ~Overlap, ~Resubscribe
  PROVE  Spec => []Tracked
<1>1. ListenerInv => Tracked
  BY DEF ListenerInv
<1>2. Spec => []ListenerInv
  BY ListenersInvariant
<1>3. QED
  BY <1>1, <1>2, PTL

\* And a channel whose unsubscribe() was called last is not recorded and has no listener,
\* before and after the call settled.
THEOREM SilentCorrect ==
  ASSUME ~Overlap, ~Resubscribe
  PROVE  Spec => []Silent
<1>1. ListenerInv => Silent
  BY DEF ListenerInv
<1>2. Spec => []ListenerInv
  BY ListenersInvariant
<1>3. QED
  BY <1>1, <1>2, PTL
=============================================================================

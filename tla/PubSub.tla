------------------------------- MODULE PubSub -------------------------------
(***************************************************************************)
(* The subscriber side of src/util/redis/pubSub.js: subscribe, unsubscribe,*)
(* healthCheck's ping and disconnect, each retried by retryCommand, while  *)
(* an error of a certain kind makes any of the retried commands replace    *)
(* this.subscriberClient by a duplicate.  A duplicate has neither the      *)
(* subscriptions nor the message listeners of the client it replaces, and  *)
(* nothing carries them over.                                              *)
(*                                                                         *)
(* Only the current client can deliver: the old one is quit.  So subs and  *)
(* listeners are those of this.subscriberClient, and a connection ends by  *)
(* a recreation or by disconnect(): fresh tells which commands were sent   *)
(* on the present one.                                                     *)
(***************************************************************************)
EXTENDS Naturals

CONSTANTS
    Calls,     \* calls made on the PubSub object: bounds their number
    Channels,
    Attempts,  \* retryAttempts
    Overlap,   \* may calls on one channel overlap?
    Resubscribe, \* may a subscribed channel be subscribed again?
    None

ASSUME AttemptsAssumption == Attempts \in Nat \ {0}
ASSUME NoneAssumption     == None \notin Calls \cup Channels
ASSUME UseAssumption      == Overlap \in BOOLEAN /\ Resubscribe \in BOOLEAN

VARIABLES
    subs,       \* channels Redis delivers to this.subscriberClient
    listeners,  \* message listeners on it, named by the subscribe() that made them
    tracked,    \* _channelListeners: the listener recorded for each channel
    kind, chan, \* what each call is
    pc,         \* where each call is
    tries,      \* failed attempts of retryCommand, 0 outside it
    fresh,      \* the calls whose command in flight was sent on the present connection
    kept,       \* history: the subscribe() calls since whose begin no connection ended
    latest      \* history: the call about each channel that began last

clientVars == <<subs, listeners, tracked>>
callVars   == <<kind, chan, pc, tries, fresh, kept, latest>>
vars       == <<clientVars, callVars>>

Kinds  == {"subscribe", "unsubscribe", "ping", "disconnect"}
Active == {"sent", "waiting", "answered"}

TypeOK ==
    /\ subs      \in SUBSET Channels
    /\ listeners \in SUBSET Calls
    /\ tracked   \in [Channels -> Calls \cup {None}]
    /\ kind      \in [Calls -> Kinds \cup {None}]
    /\ chan      \in [Calls -> Channels \cup {None}]
    /\ pc        \in [Calls -> {"new", "resolved", "rejected"} \cup Active]
    /\ tries     \in [Calls -> 0..(Attempts - 1)]
    /\ fresh     \in SUBSET Calls
    /\ kept      \in SUBSET Calls
    /\ latest    \in [Channels -> Calls \cup {None}]

Init ==
    /\ subs      = {}
    /\ listeners = {}
    /\ tracked   = [ch \in Channels |-> None]
    /\ kind      = [c \in Calls |-> None]
    /\ chan      = [c \in Calls |-> None]
    /\ pc        = [c \in Calls |-> "new"]
    /\ tries     = [c \in Calls |-> 0]
    /\ fresh     = {}
    /\ kept      = {}
    /\ latest    = [ch \in Channels |-> None]

-----------------------------------------------------------------------------
(* How the object is used: a channel's calls one after the other, and no    *)
(* second subscribe() to a subscribed channel, unless the constants allow.  *)

MayCall(k, ch) ==
    /\ Overlap \/ \A d \in Calls : chan[d] = ch => pc[d] \notin Active
    /\ k = "subscribe" => Resubscribe \/ tracked[ch] = None

\* A call passes ensureConnected and sends its command.
Start(c, k, ch) ==
    /\ pc[c] = "new"
    /\ kind'   = [kind   EXCEPT ![c] = k]
    /\ chan'   = [chan   EXCEPT ![c] = ch]
    /\ pc'     = [pc     EXCEPT ![c] = "sent"]
    /\ fresh'  = fresh \cup {c}
    /\ kept'   = IF k = "subscribe" THEN kept \cup {c} ELSE kept
    /\ latest' = IF ch = None THEN latest ELSE [latest EXCEPT ![ch] = c]
    /\ UNCHANGED <<subs, tries>>

Subscribe(c, ch) ==
    /\ MayCall("subscribe", ch)
    /\ Start(c, "subscribe", ch)
    /\ UNCHANGED <<listeners, tracked>>

\* Mutants of Unsubscribe: the record stays; the listener stays.
UnsubscribeRecorded(c, ch) ==
    /\ MayCall("unsubscribe", ch)
    /\ Start(c, "unsubscribe", ch)
    /\ listeners' = listeners \ {tracked[ch]}
    /\ UNCHANGED tracked

UnsubscribeListening(c, ch) ==
    /\ MayCall("unsubscribe", ch)
    /\ Start(c, "unsubscribe", ch)
    /\ tracked' = [tracked EXCEPT ![ch] = None]
    /\ UNCHANGED listeners

\* The listener recorded for the channel leaves this.subscriberClient, and the
\* record goes, before the command is sent.
Unsubscribe(c, ch) ==
    /\ MayCall("unsubscribe", ch)
    /\ Start(c, "unsubscribe", ch)
    /\ listeners' = listeners \ {tracked[ch]}
    /\ tracked'   = [tracked EXCEPT ![ch] = None]

\* healthCheck() and disconnect() concern no channel.
Ping(c)       == Start(c, "ping", None) /\ UNCHANGED <<listeners, tracked>>
Disconnect(c) == Start(c, "disconnect", None) /\ UNCHANGED <<listeners, tracked>>

\* ensureConnected gives up, or quitting the publisher does: nothing was changed.
NotConnected(c) ==
    /\ pc[c] = "new"
    /\ pc' = [pc EXCEPT ![c] = "rejected"]
    /\ UNCHANGED <<clientVars, kind, chan, tries, fresh, kept, latest>>

-----------------------------------------------------------------------------
(* Redis, and retryCommand around each command.                            *)

\* The connection is over; the next command goes to another one.
ConnectionEnds ==
    /\ subs'  = {}
    /\ fresh' = {}
    /\ kept'  = {}

\* What a command does to the connection it was sent on, if that is the present one.
Effect(c) ==
    \/ c \notin fresh /\ UNCHANGED <<subs, fresh, kept>>
    \/ c \in fresh /\ kind[c] = "disconnect" /\ ConnectionEnds
    \/ /\ c \in fresh /\ kind[c] # "disconnect"
       /\ subs' = CASE kind[c] = "subscribe"   -> subs \cup {chan[c]}
                    [] kind[c] = "unsubscribe" -> subs \ {chan[c]}
                    [] kind[c] \notin {"subscribe", "unsubscribe"} -> subs
       /\ fresh' = fresh \ {c}
       /\ UNCHANGED kept

\* Redis answers.
Answer(c) ==
    /\ pc[c] = "sent"
    /\ Effect(c)
    /\ pc'    = [pc    EXCEPT ![c] = "answered"]
    /\ tries' = [tries EXCEPT ![c] = 0]
    /\ UNCHANGED <<listeners, tracked, kind, chan, latest>>

\* Mutant of FailedAttempt: attempts that are not counted.
FailedAttemptUncounted(c) ==
    /\ pc' = [pc EXCEPT ![c] = "waiting"]
    /\ UNCHANGED <<tracked, tries, kind, chan, latest>>

\* An attempt failed: another one follows after the delay, or lastError is thrown.
FailedAttempt(c) ==
    /\ IF tries[c] + 1 < Attempts
       THEN /\ tries' = [tries EXCEPT ![c] = @ + 1]
            /\ pc'    = [pc    EXCEPT ![c] = "waiting"]
       ELSE /\ tries' = [tries EXCEPT ![c] = 0]
            /\ pc'    = [pc    EXCEPT ![c] = "rejected"]
    /\ UNCHANGED <<tracked, kind, chan, latest>>

\* An error; the command may have had its effect before the answer was lost.
Error(c) ==
    /\ pc[c] = "sent"
    /\ FailedAttempt(c)
    /\ Effect(c) \/ (fresh' = fresh \ {c} /\ UNCHANGED <<subs, kept>>)
    /\ UNCHANGED listeners

\* An error matching RECREATE_RE: whatever client is current by now is quit and
\* replaced.  Quitting in disconnect() is not wrapped this way.
RecreateError(c) ==
    /\ pc[c] = "sent" /\ kind[c] # "disconnect"
    /\ FailedAttempt(c)
    /\ ConnectionEnds
    /\ listeners' = {}

Retry(c) ==
    /\ pc[c] = "waiting"
    /\ pc'    = [pc EXCEPT ![c] = "sent"]
    /\ fresh' = fresh \cup {c}
    /\ UNCHANGED <<clientVars, kind, chan, tries, kept, latest>>

-----------------------------------------------------------------------------
(* The code after the await.                                               *)

Resolve(c) ==
    /\ pc[c] = "answered"
    /\ pc' = [pc EXCEPT ![c] = "resolved"]
    /\ UNCHANGED <<subs, kind, chan, tries, fresh, kept, latest>>

\* The listener goes to the client that is current now.
SubscribeResolves(c) ==
    /\ kind[c] = "subscribe"
    /\ Resolve(c)
    /\ listeners' = listeners \cup {c}
    /\ tracked'   = [tracked EXCEPT ![chan[c]] = c]

\* Mutant of DisconnectResolves: the listeners stay on the client.
DisconnectResolvesListening(c) ==
    /\ kind[c] = "disconnect"
    /\ Resolve(c)
    /\ tracked' = [ch \in Channels |-> None]
    /\ UNCHANGED listeners

DisconnectResolves(c) ==
    /\ kind[c] = "disconnect"
    /\ Resolve(c)
    /\ listeners' = {}
    /\ tracked'   = [ch \in Channels |-> None]

OtherResolves(c) ==
    /\ kind[c] \in {"unsubscribe", "ping"}
    /\ Resolve(c)
    /\ UNCHANGED <<listeners, tracked>>

Progress(c) ==
    \/ Answer(c) \/ Error(c) \/ RecreateError(c) \/ Retry(c)
    \/ SubscribeResolves(c) \/ DisconnectResolves(c) \/ OtherResolves(c)

Next ==
    \E c \in Calls :
        \/ \E ch \in Channels : Subscribe(c, ch) \/ Unsubscribe(c, ch)
        \/ Ping(c) \/ Disconnect(c) \/ NotConnected(c)
        \/ Progress(c)

Spec == Init /\ [][Next]_vars

\* Redis answers or fails every command, timers run, continuations run.
FairSpec == Spec /\ \A c \in Calls : WF_vars(Progress(c))

-----------------------------------------------------------------------------
(* Properties                                                              *)

\* Each listener that can be called is the one recorded for its channel, so
\* unsubscribe() can remove it, and a message reaches one callback only.
Tracked == \A l \in listeners : tracked[chan[l]] = l

\* A recorded subscription whose connection has not ended since subscribe() began still
\* delivers.
RecordedDelivers ==
    \A ch \in Channels : LET l == tracked[ch] IN
        l # None /\ l \in kept => l \in listeners /\ ch \in subs

\* A channel whose unsubscribe() was called last is not recorded and has no listener, until
\* it is subscribed again: whether the call is under way, has resolved or was rejected, and
\* whatever became of its command and of the client.
Silent ==
    \A ch \in Channels :
        latest[ch] # None /\ kind[latest[ch]] = "unsubscribe"
        => tracked[ch] = None /\ \A l \in listeners : chan[l] # ch

\* Every call settles, however often they replace each other's client: the attempts of
\* concurrent calls do not keep one another going.
CallsSettle == \A c \in Calls : pc[c] \in Active ~> pc[c] \in {"resolved", "rejected"}
=============================================================================

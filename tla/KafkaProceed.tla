---------------------------- MODULE KafkaProceed ----------------------------
(***************************************************************************)
(* proceed of src/util/kafka/index.js: commit the message a handler has    *)
(* consumed, readdress it in place, produce it to the next topic.  The     *)
(* handler works through one partition, one message at a time; the broker, *)
(* the consumer and the handler that calls proceed are external.           *)
(***************************************************************************)
EXTENDS Naturals

CONSTANTS
    N,           \* messages in the partition
    Parties,     \* values of from, to and toDestination
    Hub,
    MaxCalls,    \* calls of proceed for one delivery of a message
    MaxCrashes,
    MaxEvents,   \* bounds the event ids
    None

ASSUME NatAssumption  == {N, MaxCalls, MaxCrashes, MaxEvents} \subseteq Nat
ASSUME NoneAssumption == None \notin Parties \cup {Hub} \cup Nat

Names == Parties \cup {Hub}

\* message.value: the FSPIOP headers it may carry, and its metadata.event.  id None
\* stands for a message without metadata; payload and event state are left out.
Values == [from: Names, to: Names, headers: BOOLEAN, source: Names, destination: Names,
           id: Nat \cup {None}, responseTo: Nat \cup {None}]

\* hubName is read with fromSwitch only.
Opts == {o \in [consumerCommit: BOOLEAN, fromSwitch: BOOLEAN, hubName: {Hub, None},
                toDestination: Parties \cup {None}, eventDetail: BOOLEAN] :
            o.fromSwitch \/ o.hubName = None}

ASSUME NoRecordAssumption == None \notin Values /\ None \notin Opts

VARIABLES
    inbox,      \* the partition: what was produced to it
    offset,     \* the consumer group's committed offset
    position,   \* the last message delivered to the handler
    value,      \* message.value of that delivery
    opts,       \* arguments of the call under way
    pc,
    calls,      \* calls of proceed for this delivery
    nextId,     \* Uuid()
    sent,       \* produced messages: by which call, for which consumed message
    autoCommit, \* isConsumerAutoCommitEnabled: how the consumer is configured
    crashes
vars == <<inbox, offset, position, value, opts, pc, calls, nextId, sent, autoCommit, crashes>>

TypeOK ==
    /\ inbox    \in [1..N -> Values]
    /\ offset   \in 0..N
    /\ position \in 0..N
    /\ value    \in Values \cup {None}
    /\ opts     \in Opts \cup {None}
    /\ pc       \in {"idle", "handling", "commit", "produce", "threw"}
    /\ calls    \in Nat
    /\ nextId   \in Nat
    /\ sent     \subseteq [value: Values, opts: Opts, of: 1..N, call: Nat]
    /\ autoCommit \in BOOLEAN
    /\ crashes  \in Nat
    /\ pc # "idle" => value # None /\ position > 0
    /\ pc \in {"commit", "produce"} <=> opts # None

-----------------------------------------------------------------------------
(* The steps of proceed on message.value.                                  *)

\* fromSwitch: the sender becomes the addressee, before hubName is looked at.
Reply(v) == [v EXCEPT !.to = v.from]
\* Mutant of FromSwitch: from is overwritten before it is read.
FromSwitchToItself(v) ==
    LET w == [v EXCEPT !.from = Hub, !.to = Hub]
    IN  IF w.headers THEN [w EXCEPT !.source = w.from, !.destination = w.to] ELSE w

FromSwitch(v) ==
    LET w == [Reply(v) EXCEPT !.from = Hub]
    IN  IF w.headers THEN [w EXCEPT !.source = w.from, !.destination = w.to] ELSE w

\* Mutant of ToDestination: the header keeps its value.
ToDestinationOnly(v, to) == [v EXCEPT !.to = to]

ToDestination(v, to) ==
    [v EXCEPT !.to = to, !.destination = IF v.headers THEN to ELSE @]

Readdress(v, o) ==
    LET w == IF o.fromSwitch THEN FromSwitch(v) ELSE v
    IN  IF o.toDestination # None THEN ToDestination(w, o.toDestination) ELSE w

\* Mutant of UpdateMetadata: the id is replaced before it is read.
UpdateMetadataIdFirst(v, id) == [v EXCEPT !.responseTo = id, !.id = id]

\* updateMessageProtocolMetadata
UpdateMetadata(v, id) == [v EXCEPT !.responseTo = v.id, !.id = id]

HubNameMissing(o) == o.fromSwitch /\ o.hubName = None

\* Mutant of NeedsCommit: the negation of isConsumerAutoCommitEnabled is lost.
NeedsCommitOnAuto(o) == o.consumerCommit /\ autoCommit

NeedsCommit(o) == o.consumerCommit /\ ~autoCommit

-----------------------------------------------------------------------------
\* What follows the commit, up to the await of produceMessage.
Compose(o) ==
    \/ \* With an fspiopError: it has no errorInformation, or decodedPayload is missing.
       /\ pc' = "threw" /\ opts' = None
       /\ UNCHANGED <<value, nextId>>
    \/ /\ HubNameMissing(o)
       /\ value' = Reply(value)
       /\ pc' = "threw" /\ opts' = None
       /\ UNCHANGED nextId
    \/ /\ ~HubNameMissing(o) /\ o.eventDetail
       /\ nextId <= MaxEvents
       /\ value'  = UpdateMetadata(Readdress(value, o), nextId)
       /\ nextId' = nextId + 1
       /\ pc' = "produce" /\ opts' = o
    \/ /\ ~HubNameMissing(o) /\ ~o.eventDetail
       /\ value' = Readdress(value, o)
       /\ pc' = "idle" /\ opts' = None
       /\ UNCHANGED nextId

\* The handler calls proceed; commitMessageSync asks the broker when it has to.
Proceed(o) ==
    /\ pc = "handling"
    /\ calls' = calls + 1
    /\ \/ NeedsCommit(o) /\ pc' = "commit" /\ opts' = o /\ UNCHANGED <<value, nextId>>
       \/ ~NeedsCommit(o) /\ Compose(o)
    /\ UNCHANGED <<inbox, offset, position, sent, autoCommit, crashes>>

CommitReturns ==
    /\ pc = "commit" /\ offset = position
    /\ Compose(opts)
    /\ UNCHANGED <<inbox, offset, position, calls, sent, autoCommit, crashes>>

\* commitMessageSync rejects: the broker may have committed or not.
CommitThrows ==
    /\ pc = "commit"
    /\ pc' = "threw" /\ opts' = None
    /\ UNCHANGED <<inbox, offset, position, value, calls, nextId, sent, autoCommit, crashes>>

ProduceReturns ==
    /\ pc = "produce"
    /\ \E s \in sent : s.value = value
    /\ pc' = "idle" /\ opts' = None
    /\ UNCHANGED <<inbox, offset, position, value, calls, nextId, sent, autoCommit, crashes>>

\* The topic has no configuration, or produceMessage rejects: the message may be in the
\* topic or not.
ProduceThrows ==
    /\ pc = "produce"
    /\ pc' = "threw" /\ opts' = None
    /\ UNCHANGED <<inbox, offset, position, value, calls, nextId, sent, autoCommit, crashes>>

-----------------------------------------------------------------------------
(* The broker, the consumer and the handler.                               *)

BrokerCommits ==
    /\ pc = "commit" /\ offset # position
    /\ offset' = position
    /\ UNCHANGED <<inbox, position, value, opts, pc, calls, nextId, sent, autoCommit, crashes>>

BrokerAppends ==
    /\ pc = "produce"
    /\ sent' = sent \cup {[value |-> value, opts |-> opts, of |-> position, call |-> calls]}
    /\ sent' # sent
    /\ UNCHANGED <<inbox, offset, position, value, opts, pc, calls, nextId, autoCommit, crashes>>

ConsumerAutoCommits ==
    /\ autoCommit /\ offset # position
    /\ offset' = position
    /\ UNCHANGED <<inbox, position, value, opts, pc, calls, nextId, sent, autoCommit, crashes>>

Deliver ==
    /\ pc = "idle" /\ position < N
    /\ position' = position + 1
    /\ value' = inbox[position + 1]
    /\ calls' = 0
    /\ pc' = "handling"
    /\ UNCHANGED <<inbox, offset, opts, nextId, sent, autoCommit, crashes>>

\* A rejected proceed: the handler drops the message, or calls proceed for it again,
\* say to report the error.
DropMessage ==
    /\ pc = "threw"
    /\ pc' = "idle"
    /\ UNCHANGED <<inbox, offset, position, value, opts, calls, nextId, sent, autoCommit, crashes>>

CallAgain ==
    /\ pc = "threw" /\ calls < MaxCalls
    /\ pc' = "handling"
    /\ UNCHANGED <<inbox, offset, position, value, opts, calls, nextId, sent, autoCommit, crashes>>

\* The process dies; the next one starts from the committed offset.
Crash ==
    /\ crashes < MaxCrashes
    /\ crashes'  = crashes + 1
    /\ position' = offset
    /\ pc' = "idle" /\ value' = None /\ opts' = None /\ calls' = 0
    /\ UNCHANGED <<inbox, offset, nextId, sent, autoCommit>>

-----------------------------------------------------------------------------
\* What a client's request put into the topic: its headers name the two parties.
Consumable(i) ==
    {[from |-> f, to |-> t, headers |-> h, source |-> f, destination |-> t,
      id |-> m, responseTo |-> None] :
        f \in Parties, t \in Parties, h \in BOOLEAN, m \in {i, None}}

Init ==
    /\ inbox \in [1..N -> UNION {Consumable(i) : i \in 1..N}]
    /\ \A i \in 1..N : inbox[i] \in Consumable(i)
    /\ offset = 0 /\ position = 0 /\ value = None /\ opts = None
    /\ autoCommit \in BOOLEAN
    /\ pc = "idle" /\ calls = 0 /\ nextId = N + 1 /\ sent = {} /\ crashes = 0

Next ==
    \/ \E o \in Opts : Proceed(o)
    \/ CommitReturns \/ CommitThrows \/ ProduceReturns \/ ProduceThrows
    \/ BrokerCommits \/ BrokerAppends \/ ConsumerAutoCommits
    \/ Deliver \/ DropMessage \/ CallAgain \/ Crash

Spec == Init /\ [][Next]_vars

-----------------------------------------------------------------------------
(* Properties                                                              *)

\* What the first call of proceed for a delivered message sent.  A second call works on
\* the object the first one has mutated.
First(s) == s.call = 1

\* proceed commits before it produces, so a handler that calls it with consumerCommit,
\* once for a delivery, never sends two messages for one it consumed, whatever crashes
\* and lost answers make of the rest.
AtMostOnce ==
    ~autoCommit =>
        \A s, t \in sent :
            /\ s.of = t.of
            /\ First(s) /\ s.opts.consumerCommit
            /\ First(t) /\ t.opts.consumerCommit
            => s = t

\* A message leaves with headers that name the parties it is from and to.  Only a call
\* that follows one stopped for want of a hubName may find `to` overwritten alone: its
\* message goes back to the sender under the old destination header.
HeadersAgree ==
    \A s \in sent : s.value.headers =>
        /\ s.value.source = s.value.from
        /\ \/ s.value.destination = s.value.to
           \/ ~First(s) /\ s.value.to = s.value.from

\* A reply of the switch goes to the participant whose message was consumed.
RepliesToSender ==
    \A s \in sent : First(s) /\ s.opts.fromSwitch /\ s.opts.toDestination = None =>
        s.value.to = inbox[s.of].from

\* responseTo is the event of the consumed message, the one a reader of the topics finds.
AnswersConsumedEvent ==
    \A s \in sent : First(s) => s.value.responseTo = inbox[s.of].id
=============================================================================

----------------------------- MODULE KafkaProofs ----------------------------
(* Theorems about the two components of the Kafka helpers: KafkaProceed,   *)
(* for every partition, set of parties and bound, and MessageFlow, for     *)
(* every set of requests and plans, every configuration and every size of  *)
(* a batch.                                                                *)
EXTENDS KafkaProceed, MessageFlow, SequenceTheorems, TLAPS

-----------------------------------------------------------------------------
(* KafkaProceed: what the steps of proceed do to a message.                *)

\* They turn values into values.
LEMMA ReaddressType ==
    ASSUME NEW v \in Values, NEW o \in Opts
    PROVE  Reply(v) \in Values /\ Readdress(v, o) \in Values
<1>1. ASSUME NEW w \in Values PROVE Reply(w) \in Values /\ FromSwitch(w) \in Values
  BY DEF Values, Reply, FromSwitch, Names
<1>2. ASSUME NEW w \in Values, NEW to \in Parties PROVE ToDestination(w, to) \in Values
  BY DEF Values, ToDestination, Names
<1>3. o.toDestination # None => o.toDestination \in Parties
  BY DEF Opts
<1>4. QED
  BY <1>1, <1>2, <1>3 DEF Readdress

\* Updating the metadata of a message leaves a message.
LEMMA MetadataType ==
    ASSUME NEW v \in Values, NEW id \in Nat
    PROVE  UpdateMetadata(v, id) \in Values
  BY DEF Values, UpdateMetadata

\* What a call leaves behind: its new event answers the old one, and a reply of the
\* switch is for the old sender.
Composed(w, v, o) ==
    /\ w.responseTo = v.id
    /\ o.fromSwitch /\ o.toDestination = None => w.to = v.from

\* What readdressing a message and updating its metadata make of it is composed from it.
LEMMA ComposedStep ==
    ASSUME NEW v \in Values, NEW o \in Opts, NEW id \in Nat
    PROVE  Composed(UpdateMetadata(Readdress(v, o), id), v, o)
<1>1. ASSUME NEW w \in Values, NEW to \in Parties
      PROVE  ToDestination(w, to).id = w.id
  BY DEF Values, ToDestination
<1>2. FromSwitch(v) \in Values /\ FromSwitch(v).id = v.id /\ FromSwitch(v).to = v.from
  BY DEF Values, FromSwitch, Reply, Names
<1>3. o.toDestination # None => o.toDestination \in Parties
  BY DEF Opts
<1>4. /\ Readdress(v, o).id = v.id
      /\ o.fromSwitch /\ o.toDestination = None => Readdress(v, o).to = v.from
  BY <1>1, <1>2, <1>3 DEF Readdress
<1>5. Readdress(v, o) \in Values
  BY ReaddressType
<1>6. QED
  BY <1>4, <1>5 DEF Composed, UpdateMetadata, Values

\* The headers name the parties; the weaker form also allows what a call stopped
\* half-way leaves.
Agree(v) == v.headers => v.source = v.from /\ v.destination = v.to
HalfAgree(v) ==
    v.headers => v.source = v.from /\ (v.destination = v.to \/ v.to = v.from)

\* Every way to rewrite a message leaves its headers naming its parties, if they did.
LEMMA AgreeStep ==
    ASSUME NEW v \in Values, NEW o \in Opts, NEW id \in Nat
    PROVE  /\ Agree(v) => Agree(Readdress(v, o)) /\ Agree(UpdateMetadata(Readdress(v, o), id))
           /\ HalfAgree(v) => /\ HalfAgree(Reply(v))
                              /\ HalfAgree(Readdress(v, o))
                              /\ HalfAgree(UpdateMetadata(Readdress(v, o), id))
<1>1. ASSUME NEW w \in Values, NEW to \in Parties
      PROVE  /\ Agree(w)     => Agree(ToDestination(w, to))
             /\ HalfAgree(w) => HalfAgree(ToDestination(w, to))
  BY DEF Values, ToDestination, Agree, HalfAgree
<1>2. FromSwitch(v) \in Values /\ Agree(FromSwitch(v)) /\ HalfAgree(FromSwitch(v))
  BY DEF Values, FromSwitch, Reply, Names, Agree, HalfAgree
<1>3. o.toDestination # None => o.toDestination \in Parties
  BY DEF Opts
<1>4. /\ Agree(v)     => Agree(Readdress(v, o))
      /\ HalfAgree(v) => HalfAgree(Readdress(v, o))
  BY <1>1, <1>2, <1>3 DEF Readdress
<1>5. HalfAgree(v) => HalfAgree(Reply(v))
  BY DEF Values, Reply, HalfAgree
<1>6. ASSUME NEW w \in Values
      PROVE  /\ Agree(w)     => Agree(UpdateMetadata(w, id))
             /\ HalfAgree(w) => HalfAgree(UpdateMetadata(w, id))
  BY DEF Values, UpdateMetadata, Agree, HalfAgree
<1>7. QED
  BY <1>4, <1>5, <1>6, ReaddressType

-----------------------------------------------------------------------------
\* The variables keep their types.
THEOREM TypeCorrect == Spec => []TypeOK
<1>1. Init => TypeOK
  <2> SUFFICES ASSUME Init PROVE TypeOK
    OBVIOUS
  <2>1. \A i \in 1..N : Consumable(i) \subseteq Values
    BY DEF Consumable, Values, Names
  <2>2. inbox \in [1..N -> Values]
    BY <2>1 DEF Init
  <2>3. QED
    BY <2>2, NatAssumption DEF Init, TypeOK
<1>2. TypeOK /\ [Next]_vars => TypeOK'
  <2> SUFFICES ASSUME TypeOK, [Next]_vars PROVE TypeOK'
    OBVIOUS
  <2> USE NatAssumption, NoRecordAssumption DEF TypeOK
  <2>1. ASSUME NEW o \in Opts, Compose(o), value \in Values, position > 0,
               UNCHANGED <<inbox, offset, position, sent, autoCommit, crashes>>,
               calls' \in Nat
        PROVE  TypeOK'
    <3>1. Reply(value) \in Values /\ Readdress(value, o) \in Values
      BY <2>1, ReaddressType
    <3>2. UpdateMetadata(Readdress(value, o), nextId) \in Values
      BY <3>1, MetadataType
    <3>3. /\ value' \in Values /\ nextId' \in Nat
          /\ \/ pc' = "produce" /\ opts' = o
             \/ pc' \in {"idle", "threw"} /\ opts' = None
      BY <2>1, <3>1, <3>2 DEF Compose
    <3>4. QED
      BY <2>1, <3>3
  <2>2. ASSUME NEW o \in Opts, Proceed(o) PROVE TypeOK'
    <3>1. value \in Values /\ position > 0 /\ calls' \in Nat
      BY <2>2 DEF Proceed
    <3>2. CASE NeedsCommit(o)
      BY <2>2, <3>1, <3>2 DEF Proceed
    <3>3. CASE ~NeedsCommit(o)
      BY <2>1, <2>2, <3>1, <3>3 DEF Proceed
    <3>4. QED
      BY <3>2, <3>3
  <2>3. CASE CommitReturns
    BY <2>1, <2>3 DEF CommitReturns
  <2>4. CASE CommitThrows
    BY <2>4 DEF CommitThrows
  <2>5. CASE ProduceReturns
    BY <2>5 DEF ProduceReturns
  <2>6. CASE ProduceThrows
    BY <2>6 DEF ProduceThrows
  <2>7. CASE BrokerCommits
    BY <2>7 DEF BrokerCommits
  <2>8. CASE BrokerAppends
    <3>1. [value |-> value, opts |-> opts, of |-> position, call |-> calls]
            \in [value: Values, opts: Opts, of: 1..N, call: Nat]
      BY <2>8 DEF BrokerAppends
    <3>2. QED
      BY <2>8, <3>1 DEF BrokerAppends
  <2>9. CASE ConsumerAutoCommits
    BY <2>9 DEF ConsumerAutoCommits
  <2>10. CASE Deliver
    BY <2>10 DEF Deliver
  <2>11. CASE DropMessage
    BY <2>11 DEF DropMessage
  <2>12. CASE CallAgain
    BY <2>12 DEF CallAgain
  <2>13. CASE Crash
    BY <2>13 DEF Crash
  <2>14. CASE UNCHANGED vars
    BY <2>14 DEF vars
  <2>15. QED
    BY <2>2, <2>3, <2>4, <2>5, <2>6, <2>7, <2>8, <2>9, <2>10, <2>11, <2>12, <2>13,
       <2>14 DEF Next
<1>3. QED
  BY <1>1, <1>2, PTL DEF Spec
-----------------------------------------------------------------------------
(* At most one message for each consumed one.                              *)

\* s was sent by the first call for a delivery, after a commit.
Once(s) == First(s) /\ s.opts.consumerCommit

Unsent(i) == \A s \in sent : Once(s) => s.of # i

\* What is about to be appended.
Pending == [value |-> value, opts |-> opts, of |-> position, call |-> calls]

\* The committed offset has passed every message for which one was sent, and the
\* delivery under way is ahead of it until its first call has committed.
CommitInv ==
    /\ offset <= position
    /\ pc \in {"commit", "produce", "threw"} => calls >= 1
    /\ ~autoCommit =>
          /\ \A s \in sent : Once(s) => s.of <= offset
          /\ pc = "handling" /\ calls = 0 => offset < position
          /\ pc = "commit" /\ calls = 1 => Unsent(position)
          /\ pc = "produce" /\ calls = 1 /\ opts.consumerCommit =>
                /\ offset = position
                /\ \A s \in sent : Once(s) /\ s.of = position => s = Pending
          /\ AtMostOnce

\* Every step keeps the offset, the delivery and what was sent related.
LEMMA CommitStep == TypeOK /\ CommitInv /\ [Next]_vars => CommitInv'
<1> SUFFICES ASSUME TypeOK, CommitInv, [Next]_vars PROVE CommitInv'
  OBVIOUS
<1> USE NatAssumption
<1>0. /\ offset \in Nat /\ position \in Nat /\ calls \in Nat
      /\ \A s \in sent : s.of \in Nat /\ s.call \in Nat
  BY DEF TypeOK
<1>1. ASSUME NEW o \in Opts, Proceed(o) PROVE CommitInv'
  <2>1. calls' = calls + 1 /\ UNCHANGED <<offset, position, sent, autoCommit>>
    BY <1>1 DEF Proceed
  <2>2. ~autoCommit /\ calls = 0 => Unsent(position)
    BY <1>0, <1>1 DEF Proceed, CommitInv, Unsent
  <2>3. CASE NeedsCommit(o)
    BY <1>0, <1>1, <2>1, <2>2, <2>3
    DEF Proceed, CommitInv, Unsent, Once, First, AtMostOnce
  <2>4. CASE ~NeedsCommit(o)
    <3>1. Compose(o)
      BY <1>1, <2>4 DEF Proceed
    <3>2. ~autoCommit => ~o.consumerCommit
      BY <2>4 DEF NeedsCommit
    <3>3. QED
      BY <1>0, <2>1, <3>1, <3>2 DEF Compose, CommitInv, Unsent, Once, First, AtMostOnce
  <2>5. QED
    BY <2>3, <2>4
<1>2. CASE CommitReturns
  <2>1. UNCHANGED <<offset, position, calls, sent, autoCommit>> /\ offset = position
    BY <1>2 DEF CommitReturns
  <2>2. calls >= 1 /\ (~autoCommit /\ calls = 1 => Unsent(position))
    BY <1>2 DEF CommitReturns, CommitInv
  <2>3. pc' \in {"threw", "produce", "idle"}
    BY <1>2 DEF CommitReturns, Compose
  <2>4. QED
    BY <1>0, <2>1, <2>2, <2>3 DEF CommitInv, Unsent, Once, First, AtMostOnce
<1>3. CASE CommitThrows
  BY <1>0, <1>3 DEF CommitThrows, CommitInv, Unsent, Once, First, AtMostOnce
<1>4. CASE ProduceReturns
  BY <1>0, <1>4 DEF ProduceReturns, CommitInv, Unsent, Once, First, AtMostOnce
<1>5. CASE ProduceThrows
  BY <1>0, <1>5 DEF ProduceThrows, CommitInv, Unsent, Once, First, AtMostOnce
<1>6. CASE BrokerCommits
  BY <1>0, <1>6 DEF BrokerCommits, CommitInv, Unsent, Once, First, AtMostOnce
<1>7. CASE BrokerAppends
  <2>1. /\ sent' = sent \cup {Pending}
        /\ UNCHANGED <<value, opts, position, calls, offset, pc, autoCommit>>
        /\ pc = "produce"
    BY <1>7 DEF BrokerAppends, Pending
  <2>2. /\ Pending.of = position /\ Pending.call = calls /\ Pending.opts = opts
        /\ Pending' = Pending
    BY <2>1 DEF Pending
  <2>3. ASSUME ~autoCommit, Once(Pending)
        PROVE  /\ offset = position
               /\ \A s \in sent : Once(s) /\ s.of = position => s = Pending
    BY <2>1, <2>2, <2>3 DEF CommitInv, Once, First
  <2>4. ASSUME ~autoCommit PROVE \A s \in sent' : Once(s) => s.of <= offset'
    BY <1>0, <2>1, <2>2, <2>3, <2>4 DEF CommitInv
  <2>5. ASSUME ~autoCommit, calls = 1, opts.consumerCommit
        PROVE  /\ offset' = position'
               /\ \A s \in sent' : Once(s) /\ s.of = position' => s = Pending'
    BY <2>1, <2>2, <2>3, <2>5 DEF Once, First
  <2>6. ASSUME ~autoCommit, AtMostOnce PROVE AtMostOnce'
    <3>1. \A s, t \in sent' : Once(s) /\ Once(t) /\ s.of = t.of => s = t
      BY <2>1, <2>2, <2>3, <2>6 DEF AtMostOnce, Once
    <3>2. QED
      BY <3>1 DEF AtMostOnce, Once, First
  <2>7. QED
    BY <2>1, <2>4, <2>5, <2>6 DEF CommitInv
<1>8. CASE ConsumerAutoCommits
  BY <1>0, <1>8 DEF ConsumerAutoCommits, CommitInv
<1>9. CASE Deliver
  BY <1>0, <1>9 DEF Deliver, CommitInv, Unsent, Once, First, AtMostOnce
<1>10. CASE DropMessage
  BY <1>0, <1>10 DEF DropMessage, CommitInv, Unsent, Once, First, AtMostOnce
<1>11. CASE CallAgain
  BY <1>0, <1>11 DEF CallAgain, CommitInv, Unsent, Once, First, AtMostOnce
<1>12. CASE Crash
  BY <1>0, <1>12 DEF Crash, CommitInv, Unsent, Once, First, AtMostOnce
<1>13. CASE UNCHANGED vars
  BY <1>13 DEF vars, CommitInv, Unsent, Once, First, AtMostOnce, Pending
<1>14. QED
  BY <1>1, <1>2, <1>3, <1>4, <1>5, <1>6, <1>7, <1>8, <1>9, <1>10, <1>11, <1>12, <1>13
  DEF Next

\* The committed offset, the delivery under way and what was sent stay related.
THEOREM CommitsCorrect == Spec => [](TypeOK /\ CommitInv)
<1>1. Init => CommitInv
  BY DEF Init, CommitInv, AtMostOnce
<1>2. QED
  BY <1>1, CommitStep, TypeCorrect, PTL DEF Spec

\* A handler that calls proceed once for a delivery, with consumerCommit, sends at most
\* one message for each it consumed, however many crashes and lost answers there are.
THEOREM AtMostOnceHolds == Spec => []AtMostOnce
<1>1. CommitInv => AtMostOnce
  BY DEF CommitInv, AtMostOnce
<1>2. QED
  BY <1>1, CommitsCorrect, PTL

-----------------------------------------------------------------------------
(* What is sent, and to whom.                                              *)

Inboxed == \A i \in 1..N : inbox[i] \in Values /\ Agree(inbox[i])

\* Until its first call composes, message.value is what the partition holds; what that
\* call composed is derived from it; and no call makes the headers disagree further.
ValueInv ==
    /\ Inboxed
    /\ pc = "handling" /\ calls = 0 => value = inbox[position]
    /\ pc = "commit" /\ calls = 1 => value = inbox[position]
    /\ pc = "produce" /\ calls = 1 => Composed(value, inbox[position], opts) /\ Agree(value)
    /\ value # None => HalfAgree(value)
    /\ \A s \in sent :
          /\ HalfAgree(s.value)
          /\ First(s) => Composed(s.value, inbox[s.of], s.opts) /\ Agree(s.value)

\* Composing, by the first call or a later one, keeps ValueInv.
LEMMA ComposeStep ==
    ASSUME TypeOK, ValueInv, NEW o \in Opts, Compose(o), value \in Values, position > 0,
           UNCHANGED <<inbox, position, sent>>, calls' \in Nat,
           calls' = 1 => value = inbox[position]
    PROVE  ValueInv'
<1> USE NatAssumption
<1>1. position \in 1..N /\ inbox[position] \in Values /\ Agree(inbox[position])
      /\ nextId \in Nat /\ HalfAgree(value)
  BY NoRecordAssumption DEF TypeOK, ValueInv, Inboxed
<1>2. /\ HalfAgree(Reply(value)) /\ HalfAgree(Readdress(value, o))
      /\ HalfAgree(UpdateMetadata(Readdress(value, o), nextId))
  BY <1>1, AgreeStep
<1>3. HalfAgree(value')
  BY <1>1, <1>2 DEF Compose
<1>4. ASSUME pc' = "produce", calls' = 1
      PROVE  Composed(value', inbox[position], opts') /\ Agree(value')
  <2>1. value' = UpdateMetadata(Readdress(value, o), nextId) /\ opts' = o
    BY <1>4 DEF Compose
  <2>2. value = inbox[position]
    BY <1>4
  <2>3. Composed(UpdateMetadata(Readdress(value, o), nextId), value, o)
    BY <1>1, ComposedStep
  <2>4. Agree(UpdateMetadata(Readdress(value, o), nextId))
    BY <1>1, <2>2, AgreeStep
  <2>5. QED
    BY <2>1, <2>2, <2>3, <2>4
<1>5. pc' \in {"threw", "produce", "idle"}
  BY DEF Compose
<1>6. QED
  BY <1>3, <1>4, <1>5 DEF ValueInv, Inboxed

\* Every step keeps message.value related to what the partition holds.
LEMMA ValueStep == TypeOK /\ CommitInv /\ ValueInv /\ [Next]_vars => ValueInv'
<1> SUFFICES ASSUME TypeOK, CommitInv, ValueInv, [Next]_vars PROVE ValueInv'
  OBVIOUS
<1> USE NatAssumption, NoRecordAssumption
<1>0. position \in Nat /\ calls \in Nat
  BY DEF TypeOK
<1>1. ASSUME NEW o \in Opts, Proceed(o) PROVE ValueInv'
  <2>1. value \in Values /\ position > 0 /\ calls' = calls + 1 /\ calls' \in Nat
        /\ UNCHANGED <<inbox, position, sent>>
        /\ (calls' = 1 => value = inbox[position])
    BY <1>0, <1>1 DEF Proceed, TypeOK, ValueInv
  <2>2. CASE NeedsCommit(o)
    BY <1>1, <2>1, <2>2 DEF Proceed, ValueInv, Inboxed
  <2>3. CASE ~NeedsCommit(o)
    BY <1>1, <2>1, <2>3, ComposeStep DEF Proceed
  <2>4. QED
    BY <2>2, <2>3
<1>2. CASE CommitReturns
  <2>1. /\ value \in Values /\ position > 0 /\ opts \in Opts /\ calls' = calls
        /\ UNCHANGED <<inbox, position, sent>> /\ Compose(opts)
        /\ (calls' = 1 => value = inbox[position])
    BY <1>2 DEF CommitReturns, TypeOK, ValueInv
  <2>2. QED
    BY <1>0, <2>1, ComposeStep
<1>3. CASE CommitThrows
  BY <1>3 DEF CommitThrows, ValueInv, Inboxed
<1>4. CASE ProduceReturns
  BY <1>4 DEF ProduceReturns, ValueInv, Inboxed
<1>5. CASE ProduceThrows
  BY <1>5 DEF ProduceThrows, ValueInv, Inboxed
<1>6. CASE BrokerCommits
  BY <1>6 DEF BrokerCommits, ValueInv, Inboxed
<1>7. CASE BrokerAppends
  <2>1. /\ sent' = sent \cup {Pending}
        /\ UNCHANGED <<inbox, value, opts, pc, position, calls>>
        /\ pc = "produce" /\ value \in Values
    BY <1>7 DEF BrokerAppends, Pending, TypeOK
  <2>2. /\ Pending.of = position /\ Pending.call = calls /\ Pending.opts = opts
        /\ Pending.value = value
    BY DEF Pending
  <2>3. /\ HalfAgree(Pending.value)
        /\ First(Pending) => /\ Composed(Pending.value, inbox[Pending.of], Pending.opts)
                             /\ Agree(Pending.value)
    BY <2>1, <2>2 DEF ValueInv, First
  <2>4. \A s \in sent' :
          /\ HalfAgree(s.value)
          /\ First(s) => Composed(s.value, inbox'[s.of], s.opts) /\ Agree(s.value)
    BY <2>1, <2>3 DEF ValueInv
  <2>5. QED
    BY <2>1, <2>4 DEF ValueInv, Inboxed
<1>8. CASE ConsumerAutoCommits
  BY <1>8 DEF ConsumerAutoCommits, ValueInv, Inboxed
<1>9. CASE Deliver
  <2>1. position + 1 \in 1..N /\ Agree(inbox[position + 1])
    BY <1>0, <1>9 DEF Deliver, ValueInv, Inboxed
  <2>2. HalfAgree(inbox[position + 1])
    BY <2>1 DEF Agree, HalfAgree
  <2>3. QED
    BY <1>9, <2>2 DEF Deliver, ValueInv, Inboxed
<1>10. CASE DropMessage
  BY <1>10 DEF DropMessage, ValueInv, Inboxed
<1>11. CASE CallAgain
  <2>1. calls # 0
    BY <1>0, <1>11 DEF CallAgain, CommitInv
  <2>2. QED
    BY <1>11, <2>1 DEF CallAgain, ValueInv, Inboxed
<1>12. CASE Crash
  BY <1>12 DEF Crash, ValueInv, Inboxed
<1>13. CASE UNCHANGED vars
  BY <1>13 DEF vars, ValueInv, Inboxed
<1>14. QED
  BY <1>1, <1>2, <1>3, <1>4, <1>5, <1>6, <1>7, <1>8, <1>9, <1>10, <1>11, <1>12, <1>13
  DEF Next

\* message.value stays related to what the partition holds.
THEOREM ValuesCorrect == Spec => [](TypeOK /\ ValueInv)
<1>1. Init => ValueInv
  <2> SUFFICES ASSUME Init PROVE ValueInv
    OBVIOUS
  <2>1. \A i \in 1..N : \A v \in Consumable(i) : v \in Values /\ Agree(v)
    BY NatAssumption DEF Consumable, Values, Names, Agree
  <2>2. QED
    BY <2>1 DEF Init, ValueInv, Inboxed
<1>2. QED
  BY <1>1, ValueStep, CommitsCorrect, PTL DEF Spec

\* The headers of what is sent name the parties it is from and to, save where a call
\* found `to` overwritten alone.
THEOREM HeadersAgreeHolds == Spec => []HeadersAgree
<1>1. TypeOK /\ ValueInv => HeadersAgree
  BY DEF TypeOK, ValueInv, HeadersAgree, Agree, HalfAgree
<1>2. QED
  BY <1>1, ValuesCorrect, PTL

\* A reply of the switch goes to the participant whose message was consumed.
THEOREM RepliesHold == Spec => []RepliesToSender
<1>1. ValueInv => RepliesToSender
  BY DEF ValueInv, RepliesToSender, Composed
<1>2. QED
  BY <1>1, ValuesCorrect, PTL

\* responseTo of what is sent is the event of the consumed message.
THEOREM AnswersHold == Spec => []AnswersConsumedEvent
<1>1. ValueInv => AnswersConsumedEvent
  BY DEF ValueInv, AnswersConsumedEvent, Composed
<1>2. QED
  BY <1>1, ValuesCorrect, PTL

-----------------------------------------------------------------------------
(* MessageFlow: routes.                                                    *)

\* The pairs whose topic is another pair's.
Renamed == ToBulkProcessing \cup ToFulfil \cup ToNotification \cup ToPosition \cup ToPrepare

\* The pairs that others share the topic of.
Shared == {<<"bulk", "processing">>, <<"transfer", "fulfil">>, <<"notification", "event">>,
           <<"transfer", "position">>, <<"transfer", "prepare">>}

\* A pair is left as it is, or replaced by one of five.
LEMMA Mapped ==
    ASSUME NEW event
    PROVE  \/ event \notin Renamed /\ TopicMap(event) = event
           \/ TopicMap(event) \in Shared
<1>1. CASE event \in ToBulkProcessing
  <2>1. event \notin ToFulfil \cup ToNotification \cup ToPosition \cup ToPrepare
    BY <1>1 DEF ToBulkProcessing, ToFulfil, ToNotification, ToPosition, ToPrepare
  <2>2. QED
    BY <1>1, <2>1 DEF TopicMap, Shared
<1>2. CASE event \in ToFulfil
  <2>1. event \notin ToBulkProcessing \cup ToNotification \cup ToPosition \cup ToPrepare
    BY <1>2 DEF ToBulkProcessing, ToFulfil, ToNotification, ToPosition, ToPrepare
  <2>2. QED
    BY <1>2, <2>1 DEF TopicMap, Shared
<1>3. CASE event \in ToNotification
  <2>1. event \notin ToBulkProcessing \cup ToFulfil \cup ToPosition \cup ToPrepare
    BY <1>3 DEF ToBulkProcessing, ToFulfil, ToNotification, ToPosition, ToPrepare
  <2>2. QED
    BY <1>3, <2>1 DEF TopicMap, Shared
<1>4. CASE event \in ToPosition
  <2>1. event \notin ToBulkProcessing \cup ToFulfil \cup ToNotification \cup ToPrepare
    BY <1>4 DEF ToBulkProcessing, ToFulfil, ToNotification, ToPosition, ToPrepare
  <2>2. QED
    BY <1>4, <2>1 DEF TopicMap, Shared
<1>5. CASE event \in ToPrepare
  <2>1. event \notin ToBulkProcessing \cup ToFulfil \cup ToNotification \cup ToPosition
    BY <1>5 DEF ToBulkProcessing, ToFulfil, ToNotification, ToPosition, ToPrepare
  <2>2. QED
    BY <1>5, <2>1 DEF TopicMap, Shared
<1>6. CASE event \notin Renamed
  BY <1>6 DEF TopicMap, Renamed
<1>7. QED
  BY <1>1, <1>2, <1>3, <1>4, <1>5, <1>6 DEF Renamed

\* None of the five is renamed in its turn.
LEMMA SharedStay == Shared \cap Renamed = {}
<1> SUFFICES ASSUME NEW event \in Shared PROVE event \notin Renamed
  OBVIOUS
<1>1. event[1] \in {"bulk", "transfer"} \/ event = <<"notification", "event">>
  BY DEF Shared
<1>2. event \notin ToBulkProcessing \cup ToFulfil \cup ToPosition \cup ToPrepare
  BY <1>1 DEF ToBulkProcessing, ToFulfil, ToPosition, ToPrepare
<1>3. event \notin ToNotification
  BY <1>1 DEF ToNotification
<1>4. QED
  BY <1>2, <1>3 DEF Renamed

\* To map a pair twice is to map it once.
LEMMA MappedOnce == ASSUME NEW event PROVE TopicMap(TopicMap(event)) = TopicMap(event)
<1>1. CASE event \notin Renamed /\ TopicMap(event) = event
  BY <1>1
<1>2. CASE TopicMap(event) \in Shared
  <2>1. TopicMap(event) \notin Renamed
    BY <1>2, SharedStay
  <2>2. QED
    BY <2>1 DEF TopicMap, Renamed
<1>3. QED
  BY <1>1, <1>2, Mapped

\* The topic of a pair is that of a pair.
LEMMA MappedPairs == ASSUME NEW event \in Pairs PROVE TopicMap(event) \in Pairs
<1>1. Shared \subseteq Pairs
  <2>1. {"bulk", "transfer", "notification"} \subseteq EventTypes
    BY DEF EventTypes
  <2>2. {"processing", "fulfil", "event", "position", "prepare"} \subseteq EventActions
    BY DEF EventActions
  <2>3. QED
    BY <2>1, <2>2 DEF Shared, Pairs
<1>2. QED
  BY <1>1, Mapped

\* Where a message is produced to.
LEMMA ConfAgrees ==
    ASSUME NEW step \in [event: Pairs, way: Ways]
    PROVE  /\ Conf(step) \in Confs
           /\ Conf(step).topic \in {Conf(step).config, Override,
                                   CreateParticipantTopicConf("dfsp", Conf(step).config)}
<1> DEFINE mapped == TopicMap(step.event)
<1>1. mapped \in Pairs /\ TopicMap(mapped) = mapped
  BY MappedOnce, MappedPairs
<1>2. mapped # <<>>
  BY <1>1 DEF Pairs
<1>3. CASE step.way = "general"
  <2>1. Conf(step) = [topic |-> mapped, config |-> mapped]
    BY <1>1, <1>3 DEF Conf, GeneralConf, CreateGeneralTopicConf, GetFunctionalityAction,
                      TransformGeneralTopicName
  <2>2. QED
    BY <1>1, <2>1 DEF Confs, Topics
<1>4. CASE step.way = "override"
  <2>1. Conf(step) = [topic |-> Override, config |-> mapped]
    BY <1>1, <1>4 DEF Conf, GeneralConf, CreateGeneralTopicConf, GetFunctionalityAction,
                      Override
  <2>2. QED
    BY <1>1, <2>1 DEF Confs, Topics
<1>5. CASE step.way = "participant"
  <2>1. Conf(step) = [topic |-> CreateParticipantTopicConf("dfsp", mapped),
                      config |-> mapped]
    BY <1>1, <1>5 DEF Conf, ParticipantConf, GetFunctionalityAction
  <2>2. QED
    BY <1>1, <2>1 DEF Confs, Topics
<1>6. QED
  BY <1>3, <1>4, <1>5 DEF Ways

-----------------------------------------------------------------------------
(* Payloads.                                                               *)

Payloads == {Payload(f, m, b) : f \in {"uri", "value", "text"}, m \in Media, b \in Bodies}

Sent == [media: Media, body: Bodies]

\* What the plugin makes nothing of.
Lost(q) == q.media = "other" \/ q.body \in {"empty", "aborted", "malformed"}

\* What a message of the request q may carry when it was decoded h times.
Carries(q, h, p) ==
    IF Lost(q) THEN p = Nothing
    ELSE \/ p = Payload("uri", q.media, q.body)
         \/ h >= 1 /\ q.media = "json" /\ p = Value(q.body)
         \/ h >= 1 /\ q.media = "text" /\ p = Text(q.body)
         \/ h >= 2 /\ q.media = "text" /\ p = Value(q.body)
         \/ /\ q.media \in {"json", "text"} /\ h >= IF q.media = "text" THEN 3 ELSE 2
            /\ q.body \in Strings /\ p = Content(q.body) /\ p # Threw

\* What a consumer may see of it at its hop h.
Arrives(q, h, p) ==
    IF Lost(q) THEN p = Nothing
    ELSE \/ p = IF q.media = "text" THEN Text(q.body) ELSE Value(q.body)
         \/ h > 1 /\ q.media = "text" /\ p = Value(q.body)
         \/ /\ h > IF q.media = "text" THEN 2 ELSE 1
            /\ q.body \in Strings /\ p = Content(q.body)

\* What cannot be decoded when it was sent on decoded.
Fragile == {"scalar"} \cup (Strings \ {"quoted"})

\* What is carried is a payload.
LEMMA CarriedType ==
    ASSUME NEW q \in Sent, NEW h \in Nat, NEW p, Carries(q, h, p)
    PROVE  p \in Payloads
<1>1. q.media \in Media /\ q.body \in Bodies
  BY DEF Sent
<1>2. \A b \in Bodies : Value(b) \in Payloads /\ Text(b) \in Payloads
  BY DEF Payloads, Value, Text, Media
<1>3. Nothing \in Payloads
  BY <1>2 DEF Nothing, Bodies
<1>4. Payload("uri", q.media, q.body) \in Payloads
  BY <1>1 DEF Payloads
<1>5. \A b \in Strings : Content(b) # Threw => Content(b) \in Payloads
  BY <1>2 DEF Content, Strings, Bodies
<1>6. QED
  BY <1>1, <1>2, <1>3, <1>4, <1>5 DEF Carries

\* A message carries no less when it was decoded more often.
LEMMA CarriedOn ==
    ASSUME NEW q, NEW h \in Nat, NEW p, Carries(q, h, p)
    PROVE  Carries(q, h + 1, p)
BY DEF Carries

\* What the plugin and the handler make of a request.
LEMMA Received ==
    ASSUME NEW q \in Sent
    PROVE  /\ Carries(q, 0, CreateMessageFromRequest(q).payload)
           /\ CreateMessageFromRequest(q) = [payload |-> CreateMessageFromRequest(q).payload,
                                            hop |-> 0]
<1>1. CreateMessageFromRequest(q) =
          [payload |-> IF DataUri(q) = Threw THEN Nothing ELSE DataUri(q), hop |-> 0]
  BY DEF CreateMessageFromRequest
<1>2. Payload("uri", q.media, q.body) # Threw
  BY DEF Payload, Threw
<1>3. DataUri(q) = IF Lost(q) THEN Threw ELSE Payload("uri", q.media, q.body)
  BY DEF DataUri, RequestRawPayloadTransform, EncodePayload, Lost
<1>4. QED
  BY <1>1, <1>2, <1>3 DEF Carries

\* What a consumer makes of what it gets; and which payloads it cannot decode.
LEMMA Decodes ==
    ASSUME NEW q \in Sent, NEW h \in Nat, NEW p, Carries(q, h, p)
    PROVE  \/ /\ DecodePayload(p) # Threw
              /\ Carries(q, h + 1, DecodePayload(p))
              /\ Arrives(q, h + 1, DecodePayload(p))
           \/ /\ DecodePayload(p) = Threw
              /\ \/ q.media = "embedded"
                 \/ q.body \in Fragile /\ h + 1 > 1
<1>1. q.media \in Media /\ q.body \in Bodies
  BY DEF Sent
<1>2. \A b : Value(b) # Threw /\ Text(b) # Threw
  BY DEF Value, Text, Threw, Payload
<1>3. CASE Lost(q)
  <2>1. p.form = "value" /\ p.body = "empty"
    BY <1>3 DEF Carries, Nothing, Value, Payload
  <2>2. DecodePayload(p) = p
    BY <2>1 DEF DecodePayload, Strings
  <2>3. QED
    BY <1>2, <1>3, <2>2 DEF Carries, Arrives, Nothing
<1>4. CASE ~Lost(q) /\ p = Payload("uri", q.media, q.body)
  <2>1. p.form = "uri" /\ p.media = q.media /\ p.body = q.body
    BY <1>4 DEF Payload
  <2>2. DecodePayload(p) = ParseDecodedData(p)
    BY <2>1 DEF DecodePayload
  <2>3. CASE q.media = "json"
    <3>1. DecodePayload(p) = Value(q.body)
      BY <1>4, <2>1, <2>2, <2>3 DEF ParseDecodedData, JsonParse, Lost
    <3>2. QED
      BY <1>2, <1>4, <2>3, <3>1 DEF Carries, Arrives
  <2>4. CASE q.media = "text"
    <3>1. DecodePayload(p) = Text(q.body)
      BY <2>1, <2>2, <2>4 DEF ParseDecodedData
    <3>2. QED
      BY <1>2, <1>4, <2>4, <3>1 DEF Carries, Arrives
  <2>5. CASE q.media = "embedded"
    <3>1. DecodePayload(p) = Threw
      BY <2>1, <2>2, <2>5 DEF ParseDecodedData
    <3>2. QED
      BY <2>5, <3>1
  <2>6. QED
    BY <1>1, <1>4, <2>3, <2>4, <2>5 DEF Media, Lost
<1>5. CASE ~Lost(q) /\ h >= 1 /\ q.media \in {"json", "text"} /\ p = Value(q.body)
           /\ (q.media = "text" => h >= 2)
  <2>1. p.form = "value" /\ p.body = q.body
    BY <1>5 DEF Value, Payload
  <2>2. CASE q.body \in Strings
    <3>1. DecodePayload(p) = Content(q.body)
      BY <2>1, <2>2 DEF DecodePayload, Strings
    <3>2. CASE Content(q.body) = Threw
      <4>1. q.body \in Fragile
        BY <1>2, <2>2, <3>2 DEF Content, Strings, Fragile
      <4>2. QED
        BY <1>5, <3>1, <3>2, <4>1
    <3>3. CASE Content(q.body) # Threw
      BY <1>5, <2>2, <3>1, <3>3 DEF Carries, Arrives
    <3>4. QED
      BY <3>2, <3>3
  <2>3. CASE q.body = "scalar"
    <3>1. DecodePayload(p) = Threw
      BY <2>1, <2>3 DEF DecodePayload, Strings
    <3>2. QED
      BY <1>5, <2>3, <3>1 DEF Fragile
  <2>4. CASE q.body \notin Strings \cup {"scalar"}
    <3>1. DecodePayload(p) = p
      BY <2>1, <2>4 DEF DecodePayload
    <3>2. QED
      BY <1>2, <1>5, <3>1 DEF Carries, Arrives
  <2>5. QED
    BY <2>2, <2>3, <2>4
<1>6. CASE ~Lost(q) /\ h >= 1 /\ q.media = "text" /\ p = Text(q.body)
  <2>1. p.form = "text" /\ p.body = q.body /\ q.body # "malformed"
    BY <1>6 DEF Text, Payload, Lost
  <2>2. DecodePayload(p) = Value(q.body)
    BY <2>1 DEF DecodePayload, JsonParse
  <2>3. QED
    BY <1>2, <1>6, <2>2 DEF Carries, Arrives
<1>7. CASE /\ ~Lost(q) /\ q.media \in {"json", "text"}
           /\ h >= IF q.media = "text" THEN 3 ELSE 2
           /\ q.body \in Strings /\ p = Content(q.body) /\ p # Threw
  <2>1. h + 1 > 1 /\ h + 1 > IF q.media = "text" THEN 2 ELSE 1
    BY <1>7
  <2>2. CASE q.body = "quoted"
    <3>1. p = Value("object") /\ p.form = "value" /\ p.body = "object"
      BY <1>7, <2>2 DEF Content, Value, Payload
    <3>2. DecodePayload(p) = p
      BY <3>1 DEF DecodePayload, Strings
    <3>3. QED
      BY <1>7, <2>1, <3>2 DEF Carries, Arrives
  <2>3. CASE q.body # "quoted"
    <3>1. q.body \in Fragile
      BY <1>7, <2>3 DEF Fragile
    <3>2. DecodePayload(p) = Threw
      <4>1. CASE q.body = "word"
        BY <1>7, <4>1 DEF Content
      <4>2. CASE q.body = "digits"
        BY <1>7, <4>2 DEF Content, Value, Payload, DecodePayload, Strings
      <4>3. CASE q.body = "nested"
        BY <1>7, <4>3 DEF Content, Value, Payload, DecodePayload, Strings
      <4>4. CASE q.body = "textUri"
        BY <1>7, <4>4 DEF Content, Text, Payload, DecodePayload, JsonParse
      <4>5. QED
        BY <1>7, <2>3, <4>1, <4>2, <4>3, <4>4 DEF Strings
    <3>3. QED
      BY <2>1, <3>1, <3>2
  <2>4. QED
    BY <2>2, <2>3
<1>8. QED
  BY <1>3, <1>4, <1>5, <1>6, <1>7 DEF Carries

-----------------------------------------------------------------------------
(* The invariant.                                                          *)

\* A message has as many hops behind it as the plan allows, one less while it is produced.
HopInv ==
    /\ \A r \in Requests :
          /\ message[r].hop \in 0..Len(plan)
          /\ stage[r] = "producing" => message[r].hop < Len(plan)
    /\ \A s \in topics : s.value.hop \in 1..Len(plan)

\* A message that a service works on has been decoded as often as it has hops behind it,
\* or less; one in a topic not yet for that hop.
CarryInv ==
    /\ \A r \in Requests :
          stage[r] # "arriving" => Carries(request[r], message[r].hop, message[r].payload)
    /\ \A s \in topics : Carries(request[s.of], s.value.hop - 1, s.value.payload)

\* A produce call that is under way has a topic that agrees with its configuration.
RouteInv ==
    \A r \in Requests : stage[r] = "producing" =>
        /\ conf[r] \in Confs
        /\ conf[r].topic \in {conf[r].config, Override,
                              CreateParticipantTopicConf("dfsp", conf[r].config)}

FlowInv ==
    /\ FlowTypeOK /\ HopInv /\ CarryInv /\ RouteInv
    /\ RoutesAgree /\ PayloadKept /\ BatchLostToOne

\* What a produce call sends.
LEMMA ProducedRecord ==
    ASSUME FlowInv, NEW r \in Requests, stage[r] = "producing"
    PROVE  /\ Produced(r) \in Records
           /\ Produced(r).value.hop \in 1..Len(plan)
           /\ Carries(request[r], Produced(r).value.hop - 1, Produced(r).value.payload)
           /\ Produced(r).of = r
           /\ Produced(r).topic \in {Produced(r).config, Override,
                                     CreateParticipantTopicConf("dfsp", Produced(r).config)}
<1>1. Len(plan) \in Nat
  BY PlansAssumption DEF FlowInv, FlowTypeOK
<1>2. /\ message[r].payload \in Payloads /\ message[r].hop \in Nat
      /\ message[r].hop < Len(plan)
  BY <1>1 DEF FlowInv, FlowTypeOK, HopInv, Messages, Payloads
<1>3. [message[r] EXCEPT !.hop = @ + 1] = [payload |-> message[r].payload,
                                           hop |-> message[r].hop + 1]
  BY DEF FlowInv, FlowTypeOK, Messages
<1>4. Produced(r) = [of |-> r, value |-> [payload |-> message[r].payload,
                                          hop |-> message[r].hop + 1],
                     topic |-> conf[r].topic, config |-> conf[r].config]
  BY <1>3 DEF Produced
<1>5. conf[r].topic \in Topics /\ conf[r].config \in Pairs
  BY DEF FlowInv, RouteInv, Confs
<1>6. [payload |-> message[r].payload, hop |-> message[r].hop + 1] \in Messages
  BY <1>2 DEF Messages, Payloads
<1>7. Produced(r) \in Records
  BY <1>4, <1>5, <1>6 DEF Records
<1>8. message[r].hop + 1 - 1 = message[r].hop /\ message[r].hop + 1 \in 1..Len(plan)
  BY <1>1, <1>2
<1>9. Carries(request[r], message[r].hop, message[r].payload)
  BY DEF FlowInv, CarryInv
<1>10. /\ Produced(r).of = r
       /\ Produced(r).value.payload = message[r].payload
       /\ Produced(r).value.hop = message[r].hop + 1
       /\ Produced(r).topic = conf[r].topic /\ Produced(r).config = conf[r].config
  BY <1>4
<1>11. Produced(r).value.hop - 1 = message[r].hop
  BY <1>2, <1>10
<1>12. Carries(request[r], Produced(r).value.hop - 1, Produced(r).value.payload)
  BY <1>9, <1>10, <1>11
<1>13. QED
  BY <1>7, <1>8, <1>10, <1>12 DEF FlowInv, RouteInv

\* A message is made of a request.
LEMMA ReceiveStep == ASSUME FlowInv, NEW r \in Requests, Receive(r) PROVE FlowInv'
<1>1. request[r] \in Sent
  BY DEF FlowInv, FlowTypeOK, Sent
<1>2. /\ Carries(request[r], 0, CreateMessageFromRequest(request[r]).payload)
      /\ CreateMessageFromRequest(request[r]) =
            [payload |-> CreateMessageFromRequest(request[r]).payload, hop |-> 0]
  BY <1>1, Received
<1>3. Len(plan) \in Nat
  BY PlansAssumption DEF FlowInv, FlowTypeOK
<1>4. CreateMessageFromRequest(request[r]).payload \in Payloads
  BY <1>1, <1>2, CarriedType
<1>5. CreateMessageFromRequest(request[r]) \in Messages
  BY <1>2, <1>4 DEF Messages, Payloads
<1>6. /\ stage' = [stage EXCEPT ![r] = "handling"]
      /\ message' = [message EXCEPT ![r] = CreateMessageFromRequest(request[r])]
      /\ UNCHANGED <<request, plan, conf, topics, consumed, seen, failed>>
  BY DEF Receive
<1>7. FlowTypeOK'
  BY <1>5, <1>6 DEF FlowInv, FlowTypeOK
<1>8. HopInv'
  BY <1>2, <1>3, <1>6 DEF FlowInv, FlowTypeOK, HopInv
<1>9. CarryInv'
  BY <1>2, <1>6 DEF FlowInv, FlowTypeOK, CarryInv
<1>10. RouteInv'
  BY <1>6 DEF FlowInv, FlowTypeOK, RouteInv
<1>11. RoutesAgree' /\ PayloadKept' /\ BatchLostToOne'
  BY <1>6 DEF FlowInv, RoutesAgree, PayloadKept, BatchLostToOne
<1>12. QED
  BY <1>7, <1>8, <1>9, <1>10, <1>11 DEF FlowInv

\* A produce call begins, or has no configuration.
LEMMA ProduceStep == ASSUME FlowInv, NEW r \in Requests, Produce(r) PROVE FlowInv'
<1> DEFINE step == plan[message[r].hop + 1]
<1>1. /\ stage[r] \in {"handling", "threw"} /\ message[r].hop < Len(plan)
      /\ conf' = [conf EXCEPT ![r] = Conf(step)]
      /\ stage' = [stage EXCEPT ![r] = IF conf'[r].config \in Configured THEN "producing"
                                 ELSE "threw"]
      /\ UNCHANGED <<request, plan, message, topics, consumed, seen, failed>>
  BY DEF Produce
<1>2. step \in [event: Pairs, way: Ways]
  <2>1. plan \in Seq([event: Pairs, way: Ways])
    BY PlansAssumption DEF FlowInv, FlowTypeOK
  <2>2. message[r].hop + 1 \in 1..Len(plan)
    BY <1>1, <2>1 DEF FlowInv, HopInv
  <2>3. QED
    BY <2>1, <2>2, ElementOfSeq
<1>3. /\ Conf(step) \in Confs
      /\ Conf(step).topic \in {Conf(step).config, Override,
                              CreateParticipantTopicConf("dfsp", Conf(step).config)}
  BY <1>2, ConfAgrees
<1>4. FlowTypeOK'
  BY <1>1, <1>3 DEF FlowInv, FlowTypeOK
<1>5. HopInv'
  BY <1>1 DEF FlowInv, FlowTypeOK, HopInv
<1>6. CarryInv'
  BY <1>1 DEF FlowInv, FlowTypeOK, CarryInv
<1>7. RouteInv'
  BY <1>1, <1>3 DEF FlowInv, FlowTypeOK, RouteInv
<1>8. RoutesAgree' /\ PayloadKept' /\ BatchLostToOne'
  BY <1>1 DEF FlowInv, RoutesAgree, PayloadKept, BatchLostToOne
<1>9. QED
  BY <1>4, <1>5, <1>6, <1>7, <1>8 DEF FlowInv

\* A message gets into its topic.
LEMMA AppendStep == ASSUME FlowInv, NEW r \in Requests, TopicAppends(r) PROVE FlowInv'
<1>1. /\ stage[r] = "producing" /\ topics' = topics \cup {Produced(r)}
      /\ UNCHANGED <<request, plan, stage, message, conf, consumed, seen, failed>>
  BY DEF TopicAppends
<1>2. /\ Produced(r) \in Records
      /\ Produced(r).value.hop \in 1..Len(plan)
      /\ Carries(request[r], Produced(r).value.hop - 1, Produced(r).value.payload)
      /\ Produced(r).of = r
      /\ Produced(r).topic \in {Produced(r).config, Override,
                                CreateParticipantTopicConf("dfsp", Produced(r).config)}
  BY <1>1, ProducedRecord
<1>3. FlowTypeOK'
  BY <1>1, <1>2 DEF FlowInv, FlowTypeOK
<1>4. HopInv'
  BY <1>1, <1>2 DEF FlowInv, HopInv
<1>5. CarryInv'
  BY <1>1, <1>2 DEF FlowInv, CarryInv
<1>6. RouteInv'
  BY <1>1 DEF FlowInv, RouteInv
<1>7. RoutesAgree' /\ PayloadKept' /\ BatchLostToOne'
  BY <1>1, <1>2 DEF FlowInv, RoutesAgree, PayloadKept, BatchLostToOne
<1>8. QED
  BY <1>3, <1>4, <1>5, <1>6, <1>7 DEF FlowInv

\* A produce call settles.
LEMMA SettleStep ==
    ASSUME FlowInv, NEW r \in Requests, ProduceResolves(r) \/ ProduceRejects(r)
    PROVE  FlowInv'
<1>1. /\ stage[r] = "producing"
      /\ \E l \in {"produced", "threw"} : stage' = [stage EXCEPT ![r] = l]
      /\ UNCHANGED <<request, plan, message, conf, topics, consumed, seen, failed>>
  BY DEF ProduceResolves, ProduceRejects
<1>2. FlowTypeOK'
  BY <1>1 DEF FlowInv, FlowTypeOK
<1>3. HopInv'
  BY <1>1 DEF FlowInv, FlowTypeOK, HopInv
<1>4. CarryInv'
  BY <1>1 DEF FlowInv, FlowTypeOK, CarryInv
<1>5. RouteInv'
  BY <1>1 DEF FlowInv, FlowTypeOK, RouteInv
<1>6. RoutesAgree' /\ PayloadKept' /\ BatchLostToOne'
  BY <1>1 DEF FlowInv, RoutesAgree, PayloadKept, BatchLostToOne
<1>7. QED
  BY <1>2, <1>3, <1>4, <1>5, <1>6 DEF FlowInv

\* What decoding a message of a topic gives.
LEMMA DecodedRecord ==
    ASSUME FlowInv, NEW s \in topics
    PROVE  /\ s.of \in Requests /\ s.value \in Messages /\ s.value.hop \in 1..Len(plan)
           /\ Carries(request[s.of], s.value.hop, s.value.payload)
           /\ DecodePayload(s.value.payload) # Threw =>
                 /\ Carries(request[s.of], s.value.hop, DecodePayload(s.value.payload))
                 /\ Arrives(request[s.of], s.value.hop, DecodePayload(s.value.payload))
                 /\ DecodePayload(s.value.payload) \in Payloads
           /\ DecodePayload(s.value.payload) = Threw =>
                 \/ request[s.of].media = "embedded"
                 \/ request[s.of].body \in Fragile /\ s.value.hop > 1
<1> DEFINE q == request[s.of]
           h == s.value.hop - 1
           p == s.value.payload
<1>1. s.of \in Requests /\ s.value \in Messages
  BY DEF FlowInv, FlowTypeOK, Records
<1>2. s.value.hop \in 1..Len(plan) /\ Carries(q, h, p)
  BY DEF FlowInv, HopInv, CarryInv
<1>3. Len(plan) \in Nat
  BY PlansAssumption DEF FlowInv, FlowTypeOK
<1>4. q \in Sent
  BY <1>1 DEF FlowInv, FlowTypeOK, Sent
<1>5. h \in Nat /\ h + 1 = s.value.hop
  BY <1>2, <1>3
<1> HIDE DEF q, h, p
<1>6. Carries(q, h + 1, p)
  BY <1>2, <1>5, CarriedOn
<1>7. \/ /\ DecodePayload(p) # Threw
         /\ Carries(q, h + 1, DecodePayload(p))
         /\ Arrives(q, h + 1, DecodePayload(p))
      \/ /\ DecodePayload(p) = Threw
         /\ \/ q.media = "embedded"
            \/ q.body \in Fragile /\ h + 1 > 1
  BY <1>2, <1>4, <1>5, Decodes
<1>8. h + 1 \in Nat
  BY <1>5
<1>9. Carries(q, h + 1, DecodePayload(p)) => DecodePayload(p) \in Payloads
  BY <1>4, <1>8, CarriedType
<1>10. QED
  BY <1>1, <1>2, <1>5, <1>6, <1>7, <1>9 DEF q, p

\* A batch is decoded, or thrown away.
LEMMA BatchStep ==
    ASSUME FlowInv, NEW b \in Batches, NEW clone \in BOOLEAN, DecodeMessages(b, clone)
    PROVE  FlowInv'
<1>1. /\ b \in SUBSET (topics \ consumed)
      /\ \A s \in b : stage[s.of] \in {"produced", "threw"}
  BY DEF Batches
<1>2. UNCHANGED <<request, plan, conf, topics>>
  BY DEF DecodeMessages
<1>3. CASE Undecodable(b)
  <2>1. failed' = failed \cup {b} /\ UNCHANGED <<stage, message, consumed, seen>>
    BY <1>3 DEF DecodeMessages
  <2>2. PICK s \in b : DecodePayload(s.value.payload) = Threw
    BY <1>3 DEF Undecodable
  <2>3. s \in topics
    BY <1>1
  <2>4. \/ request[s.of].media = "embedded"
        \/ request[s.of].body \in Fragile /\ s.value.hop > 1
    BY <2>2, <2>3, DecodedRecord
  <2>5. FlowTypeOK'
    BY <1>1, <1>2, <2>1 DEF FlowInv, FlowTypeOK
  <2>6. HopInv' /\ CarryInv' /\ RouteInv' /\ RoutesAgree' /\ PayloadKept'
    BY <1>2, <2>1 DEF FlowInv, HopInv, CarryInv, RouteInv, RoutesAgree, PayloadKept
  <2>7. BatchLostToOne'
    BY <1>2, <2>1, <2>4 DEF FlowInv, BatchLostToOne, Fragile
  <2>8. QED
    BY <2>5, <2>6, <2>7 DEF FlowInv
<1>4. CASE ~Undecodable(b)
  <2> DEFINE decoded(s) == DecodePayload(s.value.payload)
             read(r) == CHOOSE s \in b : s.of = r
             of == {s.of : s \in b}
  <2>1. /\ consumed' = consumed \cup b
        /\ seen' = seen \cup {[of |-> s.of, hop |-> s.value.hop,
                               payload |-> decoded(s)] : s \in b}
        /\ stage' = [r \in Requests |-> IF r \in of THEN "handling" ELSE stage[r]]
        /\ message' = [r \in Requests |->
               IF r \notin of THEN message[r]
               ELSE IF clone THEN [read(r).value EXCEPT !.payload = decoded(read(r))]
               ELSE read(r).value]
        /\ UNCHANGED failed
    BY <1>4 DEF DecodeMessages
  <2>2. \A s \in b : /\ s \in topics /\ decoded(s) # Threw
                     /\ s.of \in Requests /\ s.value \in Messages
                     /\ s.value.hop \in 1..Len(plan)
                     /\ Carries(request[s.of], s.value.hop, s.value.payload)
                     /\ Carries(request[s.of], s.value.hop, decoded(s))
                     /\ Arrives(request[s.of], s.value.hop, decoded(s))
                     /\ decoded(s) \in Payloads
    BY <1>1, <1>4, DecodedRecord DEF Undecodable
  <2>3. \A r \in of : read(r) \in b /\ read(r).of = r
    OBVIOUS
  <2> HIDE DEF decoded, read
  <2>4. ASSUME NEW r \in of
        PROVE  /\ message'[r] \in Messages /\ message'[r].hop \in 1..Len(plan)
               /\ Carries(request[r], message'[r].hop, message'[r].payload)
    <3>1. /\ read(r).value \in Messages /\ read(r).value.hop \in 1..Len(plan)
          /\ decoded(read(r)) \in Payloads /\ r \in Requests
          /\ Carries(request[r], read(r).value.hop, read(r).value.payload)
          /\ Carries(request[r], read(r).value.hop, decoded(read(r)))
      BY <2>2, <2>3
    <3>2. CASE clone
      <4>1. message'[r] = [read(r).value EXCEPT !.payload = decoded(read(r))]
        BY <2>1, <3>1, <3>2
      <4>2. message'[r] = [payload |-> decoded(read(r)), hop |-> read(r).value.hop]
        BY <3>1, <4>1 DEF Messages
      <4>3. message'[r] \in Messages
        BY <3>1, <4>2 DEF Messages, Payloads
      <4>4. QED
        BY <3>1, <4>2, <4>3
    <3>3. CASE ~clone
      <4>1. message'[r] = read(r).value
        BY <2>1, <3>1, <3>3
      <4>2. QED
        BY <3>1, <4>1
    <3>4. QED
      BY <3>2, <3>3
  <2>5. \A r \in Requests \ of : message'[r] = message[r] /\ stage'[r] = stage[r]
    BY <2>1
  <2>6. \A r \in of : stage'[r] = "handling"
    BY <2>1, <2>2
  <2>7. Len(plan) \in Nat
    BY PlansAssumption DEF FlowInv, FlowTypeOK
  <2>8. FlowTypeOK'
    <3>1. stage' \in [Requests -> {"arriving", "handling", "producing", "produced", "threw"}]
      BY <2>1 DEF FlowInv, FlowTypeOK
    <3>2. message' \in [Requests -> Messages]
      <4>1. \A r \in Requests : message'[r] \in Messages
        BY <2>4, <2>5 DEF FlowInv, FlowTypeOK
      <4>2. DOMAIN message' = Requests /\ message' = [r \in Requests |-> message'[r]]
        BY <2>1
      <4>3. QED
        BY <4>1, <4>2
    <3>3. consumed' \subseteq topics
      BY <1>1, <2>1 DEF FlowInv, FlowTypeOK
    <3>4. \A s \in seen' : s.of \in Requests /\ s.hop \in 1..Len(plan)
      BY <2>1, <2>2 DEF FlowInv, FlowTypeOK
    <3>5. QED
      BY <1>2, <2>1, <3>1, <3>2, <3>3, <3>4 DEF FlowInv, FlowTypeOK
  <2>9. HopInv'
    BY <1>2, <2>4, <2>5, <2>6, <2>7 DEF FlowInv, HopInv
  <2>10. CarryInv'
    BY <1>2, <2>4, <2>5 DEF FlowInv, CarryInv
  <2>11. RouteInv'
    BY <1>2, <2>5, <2>6 DEF FlowInv, RouteInv
  <2>12. PayloadKept'
    BY <1>2, <2>1, <2>2 DEF FlowInv, PayloadKept, Arrives, Lost
  <2>13. RoutesAgree' /\ BatchLostToOne'
    BY <1>2, <2>1 DEF FlowInv, RoutesAgree, BatchLostToOne
  <2>14. QED
    BY <2>8, <2>9, <2>10, <2>11, <2>12, <2>13 DEF FlowInv
<1>5. QED
  BY <1>3, <1>4

\* The invariant, in every reachable state.
THEOREM FlowCorrect == FlowSpec => []FlowInv
<1>1. FlowInit => FlowInv
  <2> SUFFICES ASSUME FlowInit PROVE FlowInv
    OBVIOUS
  <2>1. Nothing \in Payloads
    BY DEF Nothing, Value, Payloads, Media, Bodies
  <2>2. [payload |-> Nothing, hop |-> 0] \in Messages
    BY <2>1 DEF Messages, Payloads
  <2>3. FlowTypeOK
    BY <2>2 DEF FlowInit, FlowTypeOK
  <2>4. Len(plan) \in Nat
    BY <2>3, PlansAssumption DEF FlowTypeOK
  <2>5. QED
    BY <2>3, <2>4 DEF FlowInit, FlowInv, HopInv, CarryInv, RouteInv, RoutesAgree,
                      PayloadKept, BatchLostToOne
<1>2. FlowInv /\ [FlowNext]_flowVars => FlowInv'
  <2> SUFFICES ASSUME FlowInv, [FlowNext]_flowVars PROVE FlowInv'
    OBVIOUS
  <2>1. ASSUME NEW r \in Requests, Receive(r) PROVE FlowInv'
    BY <2>1, ReceiveStep
  <2>2. ASSUME NEW r \in Requests, Produce(r) PROVE FlowInv'
    BY <2>2, ProduceStep
  <2>3. ASSUME NEW r \in Requests, TopicAppends(r) PROVE FlowInv'
    BY <2>3, AppendStep
  <2>4. ASSUME NEW r \in Requests, ProduceResolves(r) \/ ProduceRejects(r) PROVE FlowInv'
    BY <2>4, SettleStep
  <2>5. ASSUME NEW b \in Batches, NEW clone \in BOOLEAN, DecodeMessages(b, clone)
        PROVE  FlowInv'
    BY <2>5, BatchStep
  <2>6. CASE UNCHANGED flowVars
    BY <2>6 DEF flowVars, FlowInv, FlowTypeOK, HopInv, CarryInv, RouteInv, RoutesAgree,
                PayloadKept, BatchLostToOne
  <2>7. QED
    BY <2>1, <2>2, <2>3, <2>4, <2>5, <2>6 DEF FlowNext
<1>3. QED
  BY <1>1, <1>2, PTL DEF FlowSpec

\* The variables keep their types.
THEOREM FlowTypeCorrect == FlowSpec => []FlowTypeOK
<1>1. FlowInv => FlowTypeOK
  BY DEF FlowInv
<1>2. QED
  BY <1>1, FlowCorrect, PTL

\* A message is produced to the topic whose configuration its producer was given, for every
\* plan: mapping a pair twice is mapping it once.
THEOREM RoutesCorrect == FlowSpec => []RoutesAgree
<1>1. FlowInv => RoutesAgree
  BY DEF FlowInv
<1>2. QED
  BY <1>1, FlowCorrect, PTL

\* What a client sent reaches every consumer, over any number of hops.
THEOREM PayloadsKept == FlowSpec => []PayloadKept
<1>1. FlowInv => PayloadKept
  BY DEF FlowInv
<1>2. QED
  BY <1>1, FlowCorrect, PTL

\* A batch is lost only to a message that the media type or a hop made undecodable.
THEOREM LossesCorrect == FlowSpec => []BatchLostToOne
<1>1. FlowInv => BatchLostToOne
  BY DEF FlowInv
<1>2. QED
  BY <1>1, FlowCorrect, PTL
=============================================================================

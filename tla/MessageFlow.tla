---------------------------- MODULE MessageFlow ----------------------------
(***************************************************************************)
(* A request on its way through a service: the plugin rawPayloadToDataUri  *)
(* turns its body into a data URI, createMessageFromRequest puts that into *)
(* a message, the produce functions of src/util/kafka/index.js send it to  *)
(* a topic, and consumers decode batches of messages (decodeMessages of    *)
(* src/util/streaming/protocol/index.js) and send them on.  The services   *)
(* that call these functions, and Kafka, are external.                     *)
(***************************************************************************)
EXTENDS KafkaTopics, Naturals, FiniteSets

CONSTANTS
    Requests,
    Plans,       \* for each hop: its event and the way it is produced
    Configured,  \* the pairs the PRODUCER configuration has
    MaxBatch

Ways == {"general", "override", "participant"}

Pairs == EventTypes \X EventActions

ASSUME PlansAssumption == Plans \subseteq Seq([event: Pairs, way: Ways])

\* Content types as encodePayload and decodePayload tell them apart: an allowed one that
\* is parsed, an allowed one that is not, one whose parameters only match the allowed
\* expression ("a/b; text/plain"), and one that does not match, or none at all.
Media == {"json", "text", "embedded", "other"}

\* JSON strings by what is in them: a word or anything else that cannot be decoded, the JSON
\* text of a number, of an object and of a word, a data URI of a text that is no JSON.
Strings == {"word", "digits", "quoted", "nested", "textUri"}

\* A body: empty, cut off by a stream error, not JSON, a JSON object, array or null, a number
\* or boolean, a string.
Bodies == {"empty", "aborted", "malformed", "object", "scalar"} \cup Strings

\* content.payload: a data URI, a parsed value, or the text of one, unparsed.
Payload(form, media, body) == [form |-> form, media |-> media, body |-> body]
Value(body) == Payload("value", "json", body)
Text(body)  == Payload("text", "json", body)
Nothing     == Value("empty")
Threw       == Payload("threw", "json", "empty")

VARIABLES
    request,  \* what the client sends
    plan,
    stage,    \* of the service that has the request's message
    message,  \* [payload, hop]: the message it works on
    conf,     \* topic and producer configuration of the produce call under way
    topics,   \* the messages in the topics
    consumed, \* those of them a consumer has read
    seen,     \* the decoded payload, at each hop
    failed    \* the batches decodeMessages threw on
flowVars == <<request, plan, stage, message, conf, topics, consumed, seen, failed>>

NoConf == [topic |-> <<>>, config |-> <<>>]

Messages == [payload: {Payload(f, m, b) : f \in {"uri", "value", "text"}, m \in Media,
                                          b \in Bodies},
             hop: Nat]

\* The topic a plan's override names.
Override == <<"override">>

Topics   == Pairs \cup {Override} \cup {CreateParticipantTopicConf("dfsp", p) : p \in Pairs}
Confs    == [topic: Topics, config: Pairs]
Records  == [of: Requests, value: Messages, topic: Topics, config: Pairs]

FlowTypeOK ==
    /\ request  \in [Requests -> [media: Media, body: Bodies]]
    /\ plan     \in Plans
    /\ stage    \in [Requests -> {"arriving", "handling", "producing", "produced", "threw"}]
    /\ message  \in [Requests -> Messages]
    /\ conf     \in [Requests -> Confs \cup {NoConf}]
    /\ topics   \subseteq Records
    /\ consumed \subseteq topics
    /\ \A s \in seen : s.of \in Requests /\ s.hop \in 1..Len(plan)
    /\ UNION failed \subseteq topics

-----------------------------------------------------------------------------
(* Payloads.                                                               *)

\* The allowed expression is looked for anywhere in the content type.
EncodePayload(media, body) ==
    IF media = "other" THEN Threw ELSE Payload("uri", media, body)

\* Mutant of RequestRawPayloadTransform: the data URI is assigned before the body is parsed.
RequestRawPayloadTransformFirst(q) == EncodePayload(q.media, q.body)

\* Threw leaves the request without a data URI.  The body is parsed first.
RequestRawPayloadTransform(q) ==
    IF q.body = "malformed" THEN Threw ELSE EncodePayload(q.media, q.body)

\* The plugin's handler: errors, of the stream or of the transformation, are swallowed.
DataUri(q) ==
    IF q.body \in {"empty", "aborted"} THEN Threw ELSE RequestRawPayloadTransform(q)

\* `payload || {}`.
CreateMessageFromRequest(q) ==
    [payload |-> IF DataUri(q) = Threw THEN Nothing ELSE DataUri(q), hop |-> 0]

JsonParse(body) == IF body = "malformed" THEN Threw ELSE Value(body)

\* Here the media type itself must be allowed; text/plain alone is not parsed.
ParseDecodedData(p) ==
    CASE p.media = "json"     -> JsonParse(p.body)
      [] p.media = "text"     -> Text(p.body)
      [] p.media = "embedded" -> Threw

\* What is decoded, or parsed, of the content of a JSON string.
Content(body) ==
    CASE body = "word"    -> Threw
      [] body = "digits"  -> Value("scalar")
      [] body = "quoted"  -> Value("object")
      [] body = "nested"  -> Value("word")
      [] body = "textUri" -> Text("malformed")

\* Mutant of DecodePayload: what is no data URI is parsed, objects too.
DecodePayloadUri(p) ==
    CASE p.form = "uri"   -> ParseDecodedData(p)
      [] p.form = "text"  -> JsonParse(p.body)
      [] p.form = "value" -> IF p.body \in Strings THEN Content(p.body) ELSE Threw

\* A string that is no data URI is parsed, an object is left alone.
DecodePayload(p) ==
    CASE p.form = "uri" -> ParseDecodedData(p)
      [] p.form = "text" -> JsonParse(p.body)
      [] p.form = "value" /\ p.body \in Strings -> Content(p.body)
      [] p.form = "value" /\ p.body = "scalar" -> Threw
      [] p.form = "value" /\ p.body \notin Strings \cup {"scalar"} -> p

-----------------------------------------------------------------------------
(* Steps.                                                                  *)

\* onPostAuth, and the route's handler, which makes a message of the request.
Receive(r) ==
    /\ stage[r] = "arriving"
    /\ stage' = [stage EXCEPT ![r] = "handling"]
    /\ message' = [message EXCEPT ![r] = CreateMessageFromRequest(request[r])]
    /\ UNCHANGED <<request, plan, conf, topics, consumed, seen, failed>>

\* topicConfig and kafkaConfig of produceGeneralMessage.
GeneralConf(event, override) ==
    LET mapped == GetFunctionalityAction(event)
    IN  [topic |-> CreateGeneralTopicConf(mapped, override), config |-> mapped]

\* topicConfig and kafkaConfig of produceParticipantMessage.
ParticipantConf(event) ==
    LET mapped == GetFunctionalityAction(event)
    IN  [topic |-> CreateParticipantTopicConf("dfsp", mapped), config |-> mapped]

Conf(step) ==
    CASE step.way = "general"     -> GeneralConf(step.event, <<>>)
      [] step.way = "override"    -> GeneralConf(step.event, Override)
      [] step.way = "participant" -> ParticipantConf(step.event)

\* A service sends its message on, or tries again after an error; getKafkaConfig throws
\* when there is no configuration for the pair.
Produce(r) ==
    LET step == plan[message[r].hop + 1] IN
    /\ stage[r] \in {"handling", "threw"}
    /\ message[r].hop < Len(plan)
    /\ conf' = [conf EXCEPT ![r] = Conf(step)]
    /\ stage' = [stage EXCEPT ![r] =
                     IF conf'[r].config \in Configured THEN "producing" ELSE "threw"]
    /\ UNCHANGED <<request, plan, message, topics, consumed, seen, failed>>

Produced(r) == [of |-> r, value |-> [message[r] EXCEPT !.hop = @ + 1],
                topic |-> conf[r].topic, config |-> conf[r].config]

TopicAppends(r) ==
    /\ stage[r] = "producing" /\ Produced(r) \notin topics
    /\ topics' = topics \cup {Produced(r)}
    /\ UNCHANGED <<request, plan, stage, message, conf, consumed, seen, failed>>

ProduceResolves(r) ==
    /\ stage[r] = "producing" /\ Produced(r) \in topics
    /\ stage' = [stage EXCEPT ![r] = "produced"]
    /\ UNCHANGED <<request, plan, message, conf, topics, consumed, seen, failed>>

\* The span rejects, or the producer does, whether Kafka has the message or not.
ProduceRejects(r) ==
    /\ stage[r] = "producing"
    /\ stage' = [stage EXCEPT ![r] = "threw"]
    /\ UNCHANGED <<request, plan, message, conf, topics, consumed, seen, failed>>

\* Batches: messages of one topic, of requests no produce call of which is under way.
Batches ==
    {b \in SUBSET (topics \ consumed) :
        /\ Cardinality(b) \in 1..MaxBatch
        /\ \A s, t \in b : s.topic = t.topic /\ (s.of = t.of => s = t)
        /\ \A s \in b : stage[s.of] \in {"produced", "threw"}}

\* One message it cannot decode makes decodeMessages throw for all.
Undecodable(b) == \E s \in b : DecodePayload(s.value.payload) = Threw

\* decodeMessages decodes clones; what a service sends on is the message as it was
\* consumed, or the clone.
DecodeMessages(b, clone) ==
    /\ b \notin failed
    /\ IF Undecodable(b)
       THEN /\ failed' = failed \cup {b}
            /\ UNCHANGED <<stage, message, consumed, seen>>
       ELSE LET read(r) == CHOOSE s \in b : s.of = r
                decoded(s) == DecodePayload(s.value.payload)
                of == {s.of : s \in b}
            IN  /\ consumed' = consumed \cup b
                /\ seen' = seen \cup {[of |-> s.of, hop |-> s.value.hop,
                                       payload |-> decoded(s)] : s \in b}
                /\ stage' = [r \in Requests |-> IF r \in of THEN "handling" ELSE stage[r]]
                /\ message' = [r \in Requests |->
                       IF r \notin of THEN message[r]
                       ELSE IF clone THEN [read(r).value EXCEPT !.payload = decoded(read(r))]
                       ELSE read(r).value]
                /\ UNCHANGED failed
    /\ UNCHANGED <<request, plan, conf, topics>>

-----------------------------------------------------------------------------
FlowInit ==
    /\ request \in [Requests -> [media: Media, body: Bodies]]
    /\ plan \in Plans
    /\ stage = [r \in Requests |-> "arriving"]
    /\ message = [r \in Requests |-> [payload |-> Nothing, hop |-> 0]]
    /\ conf = [r \in Requests |-> NoConf]
    /\ topics = {} /\ consumed = {} /\ seen = {} /\ failed = {}

FlowNext ==
    \/ \E r \in Requests : \/ Receive(r) \/ Produce(r) \/ TopicAppends(r)
                           \/ ProduceResolves(r) \/ ProduceRejects(r)
    \/ \E b \in Batches, clone \in BOOLEAN : DecodeMessages(b, clone)

FlowSpec == FlowInit /\ [][FlowNext]_flowVars

-----------------------------------------------------------------------------
(* Properties                                                              *)

\* A message is produced to the topic whose configuration its producer was given,
\* although produceGeneralMessage maps the pair once for the configuration and twice for
\* the topic; only a topic override and a participant's own topic differ.
RoutesAgree ==
    \A s \in topics :
        s.topic \in {s.config, Override, CreateParticipantTopicConf("dfsp", s.config)}

\* What a client sent reaches every consumer, unparsed when it came as text/plain.  It is
\* replaced by {} when it was empty, cut off, not JSON or of another media type.  What a
\* service sends on decoded is decoded again by the next: a text is parsed, and so is what
\* is in a JSON string.
PayloadKept ==
    \A s \in seen :
        LET q == request[s.of]
            text == q.media = "text"
        IN  IF q.media = "other" \/ q.body \in {"empty", "aborted", "malformed"}
            THEN s.payload = Nothing
            ELSE \/ s.payload = IF text THEN Text(q.body) ELSE Value(q.body)
                 \/ s.hop > 1 /\ text /\ s.payload = Value(q.body)
                 \/ /\ s.hop > IF text THEN 2 ELSE 1
                    /\ q.body \in Strings /\ s.payload = Content(q.body)

\* A batch is lost for all its messages only through one of them whose media type is not
\* allowed, or whose JSON number, boolean or string a service sent on decoded, unless what
\* is in the string decodes to an object.
BatchLostToOne ==
    \A b \in failed : \E s \in b :
        \/ request[s.of].media = "embedded"
        \/ request[s.of].body \in {"scalar"} \cup (Strings \ {"quoted"}) /\ s.value.hop > 1
=============================================================================

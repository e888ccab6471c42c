---------------------------- MODULE KafkaTopics ----------------------------
(***************************************************************************)
(* How src/util/kafka/index.js finds the topic and the configuration of an *)
(* event: a pair of a type ("functionality") and an action.  The template  *)
(* of a topic name and toUpperCase() are injective on the pairs below, so  *)
(* a topic, and a key of the configuration, is the pair it is made from.   *)
(***************************************************************************)
EXTENDS Sequences

\* Enum.Events.Event.Type and Action.
EventTypes == {
    "admin", "authorization", "account", "bulk", "bulkquote", "bulk-processing",
    "bulk-prepare", "bulk-fulfil", "consent", "consent-request", "endpointcache",
    "event", "fulfil", "fxquote", "fxtransfer", "get", "notification", "oracle",
    "position", "prepare", "quote", "service", "settlement", "settlementwindow",
    "thirdparty", "transaction-request", "transfer", "party", "participant",
    "deferredsettlement", "transfersettlement", "verification"}

EventActions == {
    "abort", "abort-duplicate", "abort-validation", "accept", "bulk-abort",
    "bulk-commit", "bulk-prepare", "bulk-prepare-duplicate", "bulk-processing",
    "bulk-timeout-received", "bulk-timeout-reserved", "bulk-get", "close", "commit",
    "create", "delete", "event", "fail", "fulfil", "fulfil-duplicate", "fx-fulfil",
    "fx-abort", "fx-commit", "fx-prepare", "fx-reject", "fx-reserve",
    "fx-prepare-duplicate", "fx-abort-validation", "fx-reserved-aborted",
    "fx-forwarded", "fx-fulfil-duplicate", "fx-abort-duplicate", "fx-timeout-received",
    "fx-timeout-reserved", "fx-get", "fx-notify", "get", "initiate", "limit-adjustment",
    "lookup", "position", "position-prepare", "position-fulfil", "prepare", "forwarded",
    "prepare-duplicate", "processing", "recordFundsIn", "recordFundsOutAbort",
    "recordFundsOutCommit", "recordFundsOutPrepareReserve", "reject", "resolve",
    "reserved-aborted", "request", "reserve", "settlement-window", "timeout-received",
    "timeout-reserved", "transfer", "patch", "put", "post"}

-----------------------------------------------------------------------------
(* Enum.Kafka.TopicMap: the pairs that share the topic of another pair.    *)

ToBulkProcessing == {"bulk-processing"} \X {
    "bulk-commit", "bulk-abort", "bulk-prepare", "bulk-timeout-received",
    "bulk-timeout-reserved", "fulfil-duplicate", "prepare-duplicate"}

ToFulfil == {"fulfil"} \X {"bulk-commit", "bulk-abort"}

ToNotification == {"notification"} \X {
    "abort", "abort-duplicate", "abort-validation", "bulk-abort", "bulk-commit",
    "bulk-prepare", "bulk-prepare-duplicate", "bulk-processing", "commit",
    "fulfil-duplicate", "get", "fx-get", "fx-notify", "bulk-get", "limit-adjustment",
    "position", "prepare", "forwarded", "fx-abort", "fx-abort-duplicate",
    "fx-abort-validation", "fx-commit", "fx-forwarded", "fx-fulfil-duplicate",
    "fx-prepare", "fx-prepare-duplicate", "fx-reject", "fx-reserve",
    "fx-timeout-received", "fx-timeout-reserved", "prepare-duplicate", "reject",
    "reserve", "reserved-aborted", "settlement-window", "timeout-received",
    "timeout-reserved"}

ToPosition == {"position"} \X {
    "bulk-commit", "bulk-abort", "bulk-prepare", "bulk-timeout-received",
    "bulk-timeout-reserved", "fx-abort", "fx-abort-validation", "fx-commit",
    "fx-prepare", "fx-reject", "fx-reserve", "prepare", "commit", "timeout-reserved",
    "fx-timeout-reserved", "reject", "reserve", "abort", "abort-validation"}

ToPrepare == {"prepare"} \X {"bulk-prepare"}

\* TopicMap[type][action], the pair itself where there is no entry.
TopicMap(event) ==
    CASE event \in ToBulkProcessing -> <<"bulk", "processing">>
      [] event \in ToFulfil         -> <<"transfer", "fulfil">>
      [] event \in ToNotification   -> <<"notification", "event">>
      [] event \in ToPosition       -> <<"transfer", "position">>
      [] event \in ToPrepare        -> <<"transfer", "prepare">>
      [] OTHER                      -> event

-----------------------------------------------------------------------------
(* Topics and configurations.                                              *)

\* Mutant of GetFunctionalityAction: the pair is taken as it is.
GetFunctionalityActionUnmapped(event) == event

\* The pair whose producer configuration is used, and whose topic.
GetFunctionalityAction(event) == TopicMap(event)

\* The general topic of a pair: it is looked up in the map, once more when the pair comes
\* from GetFunctionalityAction.
TransformGeneralTopicName(event) == TopicMap(event)

CreateGeneralTopicConf(event, override) ==
    IF override # <<>> THEN override ELSE TransformGeneralTopicName(event)

\* The topic a participant has for a pair, as it is.
CreateParticipantTopicConf(participantName, event) == <<participantName>> \o event
=============================================================================

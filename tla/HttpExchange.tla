---------------------------- MODULE HttpExchange ----------------------------
(***************************************************************************)
(* sendRequest of src/util/request.js between the services that call it    *)
(* and a server with the header validation plugin: the transformed headers,*)
(* the shared agent with its bounded number of sockets, the child span,    *)
(* the request's timeout and the classification of errors.  The server,    *)
(* the network, the signer and the event SDK are external.                 *)
(***************************************************************************)
EXTENDS HeaderValidation, HeaderTransformer

CONSTANTS
    Calls,        \* calls of sendRequest, each made by a service that may repeat it
    Inputs,       \* what each may be called with
    MaxSockets,   \* httpAgentMaxSockets
    MaxAttempts,  \* how often a service calls
    PeerApi       \* apiType of the server's plugin

ASSUME SocketsAssumption == {MaxSockets, MaxAttempts} \subseteq Nat \ {0}
ASSUME HubAssumption     == Hub \in Parties
ASSUME PeerAssumption    == PeerApi \in APITypes

\* Arguments of sendRequest.  complete: none of the required ones is missing.  client:
\* the x-client-id the gateway of the server adds.
HeaderValues == SUBSET ({NoResource} \cup [api: APITypes, version: Seq(Nat)])
Arguments ==
    [headers: HeaderSets(HeaderValues), method: {"GET", "POST", "PUT", "put"}, source: Parties,
     protocolVersions: [accept: SUBSET Seq(Nat), content: SUBSET Seq(Nat)],
     apiType: APITypes, length: {"usual", "huge"}, complete: BOOLEAN, span: BOOLEAN,
     signer: BOOLEAN, client: Parties \cup {Absent}, proxy: Parties \cup {Absent}]

ASSUME InputsAssumption == \A c \in Calls : \A in \in Inputs[c] : in \in Arguments

VARIABLES
    input,    \* arguments of a call
    pc,
    request,  \* the request on its way to the server, as the plugin sees it
    signature,\* whose signature it carries
    verdict,  \* what the plugin did with it
    answer,   \* the server's answer
    result,   \* how the call settled
    span,     \* the child span of the call
    attempts,
    tried     \* the versions of the server's list that the service has repeated with
vars == <<input, pc, request, signature, verdict, answer, result, span, attempts, tried>>

TypeOK ==
    /\ \A c \in Calls : pc[c] # "idle" => input[c] \in Arguments
    /\ pc \in [Calls -> {"idle", "queued", "sent", "finishing", "failing", "settled"}]
    /\ \A c \in Calls : request[c] = Absent \/ request[c] \in Requests
    /\ signature \in [Calls -> {"none", "caller", "signer"}]
    /\ span   \in [Calls -> {"none", "open", "finished", "failed"}]
    /\ \A c \in Calls : attempts[c] \in 0..MaxAttempts
    /\ tried  \in [Calls -> SUBSET {"accept", "content"}]
    /\ \A c \in Calls : (pc[c] = "settled") => result[c] # "none"

-----------------------------------------------------------------------------
(* The request as the server's plugin sees it.                             *)

\* parseAcceptHeader and parseContentTypeHeader: the other API's media type does not match,
\* nor do more than two numbers, nor a content type without a minor number.
WellFormed(v, name) ==
    /\ v # NoResource /\ v.api = PeerApi
    /\ Len(v.version) <= 2 /\ (name = "content" => Len(v.version) = 2)

Parsed(value, name) ==
    {IF WellFormed(v, name) THEN v.version ELSE Malformed : v \in value}

Config(in) == [httpMethod |-> in.method, source |-> in.source,
               protocolVersions |-> in.protocolVersions, apiType |-> in.apiType]

PeerRequest(in) ==
    LET headers == TransformHeaders(in.headers, Config(in)) IN
    [listed |-> TRUE, initiates |-> in.method \in {"GET", "POST"},
     accept |-> Parsed(headers.accept, "accept"), date |-> headers.date,
     length |-> in.length, content |-> Parsed(headers.content, "content"),
     client |-> in.client, source |-> headers.source, proxy |-> in.proxy]

Signature(in) ==
    IF in.signer THEN "signer" ELSE TransformHeaders(in.headers, Config(in)).signature

-----------------------------------------------------------------------------
(* sendRequest.                                                            *)

\* An error in the try block: the catch block composes the call's error from it and tells
\* the span, if there is one, before the call rejects.  Composing may throw, say because
\* the peer's errorInformation has a code nobody knows or because the request cannot be
\* turned into text: the call rejects with that, and the span is not told.
Throws(c, error) ==
    \/ /\ result' = [result EXCEPT ![c] = error]
       /\ pc' = [pc EXCEPT ![c] = IF span'[c] = "none" THEN "settled" ELSE "failing"]
    \/ /\ result' = [result EXCEPT ![c] = "COMPOSE_ERROR"]
       /\ pc' = [pc EXCEPT ![c] = "settled"]

\* Up to the await of axios, for a service's first call or its next one.
SendRequest(c, in) ==
    /\ pc[c] \in {"idle", "settled"}
    /\ attempts[c] < MaxAttempts
    /\ input' = [input EXCEPT ![c] = in]
    /\ span' = [span EXCEPT ![c] = IF in.span THEN "open" ELSE "none"]
    /\ attempts' = [attempts EXCEPT ![c] = @ + 1]
    /\ verdict' = [verdict EXCEPT ![c] = "none"]
    /\ answer'  = [answer EXCEPT ![c] = "none"]
    /\ \/ /\ ~in.complete
          /\ result' = [result EXCEPT ![c] = "MISSING_PARAMETERS"]
          /\ pc' = [pc EXCEPT ![c] = "settled"]
          /\ request' = [request EXCEPT ![c] = Absent]
          /\ UNCHANGED signature
       \/ \* transformHeaders throws, or the signer does.
          /\ in.complete /\ (TransformThrows(in.headers, Config(in)) \/ in.signer)
          /\ Throws(c, "DESTINATION_COMMUNICATION_ERROR")
          /\ request' = [request EXCEPT ![c] = Absent]
          /\ UNCHANGED signature
       \/ /\ in.complete /\ ~TransformThrows(in.headers, Config(in))
          /\ request' = [request EXCEPT ![c] = PeerRequest(in)]
          /\ signature' = [signature EXCEPT ![c] = Signature(in)]
          /\ result' = [result EXCEPT ![c] = "none"]
          /\ pc' = [pc EXCEPT ![c] = "queued"]

Call(c) ==
    /\ pc[c] = "idle"
    /\ \E in \in Inputs[c] : SendRequest(c, in)
    /\ UNCHANGED tried

\* The agent has a socket for the next request.
Dispatch(c) ==
    /\ pc[c] = "queued"
    /\ Cardinality({d \in Calls : pc[d] = "sent"}) < MaxSockets
    /\ pc' = [pc EXCEPT ![c] = "sent"]
    /\ UNCHANGED <<input, request, signature, verdict, answer, result, span, attempts, tried>>

\* The error of a response that axios rejects.
Classify(status) ==
    CASE status = "errorInformation" -> "PEER_ERROR"
      [] status = "404" -> "ID_NOT_FOUND"
      [] status = "4xx" -> "CLIENT_ERROR"
      [] status = "5xx" -> "DESTINATION_COMMUNICATION_ERROR"

\* The answer arrives: the socket is free again, and the span, if there is one, is awaited.
Respond(c) ==
    /\ pc[c] = "sent" /\ answer[c] # "none"
    /\ \/ /\ answer[c] = "2xx"
          /\ result' = [result EXCEPT ![c] = "ok"]
          /\ pc' = [pc EXCEPT ![c] = IF span[c] = "none" THEN "settled" ELSE "finishing"]
          /\ UNCHANGED span
       \/ /\ answer[c] # "2xx"
          /\ UNCHANGED span
          /\ Throws(c, Classify(answer[c]))
    /\ UNCHANGED <<input, request, signature, verdict, answer, attempts, tried>>

\* Mutant of Timeout: an error without a response is taken for a client error.
TimeoutClientError(c) ==
    /\ pc[c] = "sent"
    /\ UNCHANGED span
    /\ Throws(c, "CLIENT_ERROR")
    /\ UNCHANGED <<input, request, signature, verdict, answer, attempts, tried>>

\* Mutant of Timeout: a queued request times out, one that has a socket does not.
TimeoutQueued(c) ==
    /\ pc[c] = "queued"
    /\ UNCHANGED span
    /\ Throws(c, "DESTINATION_COMMUNICATION_ERROR")
    /\ UNCHANGED <<input, request, signature, verdict, answer, attempts, tried>>

\* httpRequestTimeoutMs, which a request gets with its socket, or the connection breaks.
\* The server may still have the request, or get it.
Timeout(c) ==
    /\ pc[c] = "sent"
    /\ UNCHANGED span
    /\ Throws(c, "DESTINATION_COMMUNICATION_ERROR")
    /\ UNCHANGED <<input, request, signature, verdict, answer, attempts, tried>>

\* sendRequestSpan.finish() resolves.
Finish(c) ==
    /\ pc[c] = "finishing"
    /\ span' = [span EXCEPT ![c] = "finished"]
    /\ pc' = [pc EXCEPT ![c] = "settled"]
    /\ UNCHANGED <<input, request, signature, verdict, answer, result, attempts, tried>>

\* It rejects, inside of the try block: the call reports an error although the server has
\* answered.
FinishFails(c) ==
    /\ pc[c] = "finishing"
    /\ UNCHANGED span
    /\ Throws(c, "DESTINATION_COMMUNICATION_ERROR")
    /\ UNCHANGED <<input, request, signature, verdict, answer, attempts, tried>>

\* Mutant of ReportError: the error is recorded, the span is not finished.
ReportErrorUnfinished(c) ==
    /\ pc[c] = "failing"
    /\ pc' = [pc EXCEPT ![c] = "settled"]
    /\ UNCHANGED <<input, request, signature, verdict, answer, result, span, attempts, tried>>

\* sendRequestSpan.error() and finish() resolve.
ReportError(c) ==
    /\ pc[c] = "failing"
    /\ span' = [span EXCEPT ![c] = "finished"]
    /\ pc' = [pc EXCEPT ![c] = "settled"]
    /\ UNCHANGED <<input, request, signature, verdict, answer, result, attempts, tried>>

\* One of them rejects: the call rejects with that error.
ReportFails(c) ==
    /\ pc[c] = "failing"
    /\ span' = [span EXCEPT ![c] = "failed"]
    /\ result' = [result EXCEPT ![c] = "SPAN_ERROR"]
    /\ pc' = [pc EXCEPT ![c] = "settled"]
    /\ UNCHANGED <<input, request, signature, verdict, answer, attempts, tried>>

-----------------------------------------------------------------------------
(* The server, and the services that call again.                           *)

\* The request reaches the plugin, now or, after a timeout, late; an error it throws is
\* answered with its errorInformation.
Validate(c) ==
    /\ pc[c] \in {"sent", "failing", "settled"}
    /\ verdict[c] = "none" /\ request[c] # Absent
    /\ verdict' = [verdict EXCEPT ![c] = OnPostAuth(request[c])]
    /\ answer' = [answer EXCEPT ![c] =
           IF verdict'[c] = "continue" THEN "none" ELSE "errorInformation"]
    /\ UNCHANGED <<input, pc, request, signature, result, span, attempts, tried>>

\* The handler answers, whatever it has done by then: an error, with or without its
\* errorInformation, does not say that it has done nothing.
HandlerAnswers(c) ==
    /\ verdict[c] = "continue" /\ answer[c] = "none"
    /\ \E status \in {"2xx", "errorInformation", "404", "4xx", "5xx"} :
          answer' = [answer EXCEPT ![c] = status]
    /\ UNCHANGED <<input, pc, request, signature, verdict, result, span, attempts, tried>>

\* The service repeats a refused call with a version the server has listed: in the
\* configuration for the hub, in the headers for a participant.
Repeat(c) ==
    \E name \in {"accept", "content"} :
       /\ pc[c] = "settled" /\ result[c] = "PEER_ERROR"
       /\ verdict[c] = IF name = "accept" THEN "REQUESTED_VERSION_NOT_SUPPORTED"
                       ELSE "SUPPLIED_VERSION_NOT_SUPPORTED"
       /\ \E v \in ExtensionList(IF name = "accept" THEN AcceptVersions ELSE ContentVersions) :
             SendRequest(c, [input[c] EXCEPT
                 !.protocolVersions[name] = {v},
                 !.headers[name] = {[api |-> PeerApi, version |-> v]}])
       /\ tried' = [tried EXCEPT ![c] = @ \cup {name}]

-----------------------------------------------------------------------------
Init ==
    /\ input = [c \in Calls |-> Absent]
    /\ pc = [c \in Calls |-> "idle"]
    /\ request = [c \in Calls |-> Absent] /\ signature = [c \in Calls |-> "none"]
    /\ verdict = [c \in Calls |-> "none"] /\ answer = [c \in Calls |-> "none"]
    /\ result = [c \in Calls |-> "none"]
    /\ span = [c \in Calls |-> "none"] /\ attempts = [c \in Calls |-> 0]
    /\ tried = [c \in Calls |-> {}]

Next ==
    \E c \in Calls :
        \/ Call(c) \/ Dispatch(c) \/ Respond(c) \/ Timeout(c)
        \/ Finish(c) \/ FinishFails(c) \/ ReportError(c) \/ ReportFails(c)
        \/ Validate(c) \/ HandlerAnswers(c) \/ Repeat(c)

Spec == Init /\ [][Next]_vars

\* Timers fire, the agent gives a free socket to a queued request, and the promises of the
\* span settle.
Fairness ==
    \A c \in Calls : /\ WF_vars(Timeout(c))
                     /\ SF_vars(Dispatch(c))
                     /\ WF_vars(Finish(c) \/ FinishFails(c))
                     /\ WF_vars(ReportError(c) \/ ReportFails(c))

FairSpec == Spec /\ Fairness

-----------------------------------------------------------------------------
(* Properties                                                              *)

\* The versions that sendRequest writes for the hub are supported by the server.
Supported(in) ==
    LET given == in.protocolVersions
        r == in.headers.resource
        content == IF r \in DOMAIN ResourceVersions THEN ResourceVersions[r]
                   ELSE IF r \in DOMAIN DefaultFxVersions THEN <<2, 0>> ELSE <<1, 0>>
    IN  /\ r \in DOMAIN ResourceVersions \cup DOMAIN DefaultAPIVersions \cup DOMAIN DefaultFxVersions
        /\ (IF given.accept = {} THEN {<<content[1]>>} ELSE given.accept) \subseteq AcceptVersions
        /\ (IF given.content = {} THEN {content} ELSE given.content)
               \subseteq {v \in ContentVersions : Len(v) = 2}

\* What sendRequest sends for the hub passes the validation of a server of the same API
\* that supports the configured versions, whatever versions, and whichever form of the
\* API, the caller's own headers have, and however large the payload is: the limit that
\* the server compares it with is undefined.
AcceptedByPeer ==
    \A c \in Calls :
        LET in == input[c] IN
        /\ pc[c] # "idle" /\ in.source = Hub /\ in.apiType = PeerApi /\ in.headers.date = "valid"
        /\ HasResourceInfo(in.headers.accept) /\ HasResourceInfo(in.headers.content)
        /\ Supported(in) /\ in.client = Absent
        => verdict[c] \in {"none", "continue"}

\* The versions that the list names and the server does not support: it makes up the
\* minor number 0 of a major version that stands without one, as in ['1', '1.1'].
MadeUp(supported) == {<<v[1], 0>> : v \in {w \in supported : Len(w) = 1}} \ supported

\* A version the server lists as supported is one it then accepts, so a call that was
\* refused for its version gets through with any version of the list, for the hub and for
\* a participant, except one the list has made up.
ListedVersionAccepted ==
    \A c \in Calls : \A name \in tried[c] :
        verdict[c] = (IF name = "accept" THEN "REQUESTED_VERSION_NOT_SUPPORTED"
                      ELSE "SUPPLIED_VERSION_NOT_SUPPORTED") =>
            \E v \in MadeUp(IF name = "accept" THEN AcceptVersions ELSE ContentVersions) :
                input[c].protocolVersions[name] = {v}

\* The hub never sends the signature of the participant whose headers it forwards, and a
\* PUT has no Accept header unless the caller wrote the header's name, or the method, in
\* another case.
OutgoingHeaders ==
    \A c \in Calls :
        /\ pc[c] = "sent" /\ input[c].source = Hub => signature[c] # "caller"
        /\ pc[c] = "sent" /\ input[c].method \in {"PUT", "put"} /\ request[c].accept # {} =>
               input[c].headers.mixedCase \/ input[c].method = "put"

\* A call says that the server did or refused what it asked only if that is what the server
\* answered; so the server has done with the request when a service repeats it after a
\* refusal.  A server that failed, was silent or is late is never taken for one that has
\* refused, however the timeout, the late answer and the span's promises interleave.
OutcomeFromServer ==
    \A c \in Calls : pc[c] = "settled" =>
        /\ result[c] = "ok" => answer[c] = "2xx"
        /\ result[c] = "PEER_ERROR" => answer[c] = "errorInformation"
        /\ result[c] \in {"ID_NOT_FOUND", "CLIENT_ERROR"} => answer[c] \in {"404", "4xx"}

\* A settled call leaves its span open only if a parameter was missing or the error it
\* should have rejected with could not be composed.
SpanFinished ==
    \A c \in Calls : pc[c] = "settled" /\ span[c] = "open" =>
        result[c] \in {"MISSING_PARAMETERS", "COMPOSE_ERROR"}

\* Every call settles, although a queued one waits for a socket without a timeout: those
\* that have one time out.
CallsSettle == \A c \in Calls : pc[c] = "queued" ~> pc[c] = "settled"
=============================================================================

------------------------- MODULE HttpExchangeProofs -------------------------
(* Theorems about HttpExchange, for every set of calls, versions and bounds. *)
EXTENDS HttpExchange, WellFoundedInduction, SequenceTheorems, TLAPS

-----------------------------------------------------------------------------
(* The checks of the plugin.                                               *)

\* A set of numbers that is not empty has a least one.
LEMMA LeastOf ==
    ASSUME NEW S \in SUBSET Nat, S # {}
    PROVE  Min(S) \in S /\ \A i \in S : Min(S) <= i
<1> DEFINE R == OpToRel(<, Nat)
<1>1. IsWellFoundedOn(R, Nat)
  BY NatLessThanWellFounded
<1>2. \A x, y \in Nat : x < y => <<x, y>> \in R
  BY DEF OpToRel
<1> HIDE DEF R
<1>3. PICK x \in S : \A y \in S : <<y, x>> \notin R
  BY <1>1, WFMin
<1>4. ASSUME NEW y \in S PROVE x <= y
  <2>1. ~(y < x)
    BY <1>2, <1>3
  <2>2. x \in Nat /\ y \in Nat
    OBVIOUS
  <2>3. QED
    BY <2>1, <2>2
<1>5. QED
  BY <1>4 DEF Min

\* The errors of the plugin.
ErrorCodes == {"VALIDATION_ERROR", "REQUIRE_ACCEPT_HEADER", "INVALID_ACCEPT_HEADER",
    "REQUESTED_VERSION_NOT_SUPPORTED", "MISSING_DATE", "INVALID_DATE", "TOO_LARGE_PAYLOAD",
    "REQUIRE_CONTENT_TYPE_HEADER", "INVALID_CONTENT_TYPE_HEADER",
    "SUPPLIED_VERSION_NOT_SUPPORTED"}
Verdicts == {"none", "continue"} \cup ErrorCodes

\* The checks by their numbers.
LEMMA ErrorsNumbered ==
    ASSUME NEW r
    PROVE  /\ DOMAIN Errors(r) = 1..10
           /\ \A i \in 1..10 : Errors(r)[i][2] \in ErrorCodes
           /\ \A i \in 1..10 : Errors(r)[i][2] = "REQUESTED_VERSION_NOT_SUPPORTED" => i = 4
           /\ \A i \in 1..10 : Errors(r)[i][2] = "SUPPLIED_VERSION_NOT_SUPPORTED" => i = 10
<1>1. DOMAIN Errors(r) = 1..10
  BY DEF Errors
<1>2. \A i \in 1..10 : Errors(r)[i][2] \in ErrorCodes
  BY DEF Errors, ErrorCodes
<1>3. \A i \in 1..10 : Errors(r)[i][2] = "REQUESTED_VERSION_NOT_SUPPORTED" => i = 4
  BY DEF Errors
<1>4. \A i \in 1..10 : Errors(r)[i][2] = "SUPPLIED_VERSION_NOT_SUPPORTED" => i = 10
  BY DEF Errors
<1>5. QED
  BY <1>1, <1>2, <1>3, <1>4

\* onPostAuth throws the first error it finds.
LEMMA FirstError ==
    ASSUME NEW r, OnPostAuth(r) # "continue"
    PROVE  \E i \in 1..10 : /\ Errors(r)[i][1] /\ OnPostAuth(r) = Errors(r)[i][2]
                            /\ \A j \in 1..10 : Errors(r)[j][1] => i <= j
<1> DEFINE found == {i \in DOMAIN Errors(r) : Errors(r)[i][1]}
<1>1. found # {} /\ OnPostAuth(r) = Errors(r)[Min(found)][2]
  BY DEF OnPostAuth
<1>2. found \subseteq 1..10 /\ \A j \in 1..10 : Errors(r)[j][1] => j \in found
  BY ErrorsNumbered
<1>3. Min(found) \in found /\ \A j \in found : Min(found) <= j
  BY <1>1, <1>2, LeastOf
<1>4. Min(found) \in 1..10 /\ Errors(r)[Min(found)][1]
  BY <1>2, <1>3
<1> HIDE DEF found
<1>5. QED
  BY <1>1, <1>2, <1>3, <1>4

\* The plugin lets a request continue or answers with one of its errors.
LEMMA VerdictType == ASSUME NEW r PROVE OnPostAuth(r) \in Verdicts
<1>1. OnPostAuth(r) # "continue" => OnPostAuth(r) \in ErrorCodes
  BY FirstError, ErrorsNumbered
<1>2. QED
  BY <1>1 DEF Verdicts

\* A request that only names a version the server supports in its Accept header, or none,
\* is not refused for that version; nor for the one of its content.
LEMMA VersionAccepted ==
    ASSUME NEW r
    PROVE  /\ r.accept = {} \/ Malformed \in r.accept \/ r.accept \cap AcceptVersions # {}
                 => OnPostAuth(r) # "REQUESTED_VERSION_NOT_SUPPORTED"
           /\ Malformed \in r.content \/ r.content \cap ContentVersions # {}
                 => OnPostAuth(r) # "SUPPLIED_VERSION_NOT_SUPPORTED"
<1>1. /\ Errors(r)[3][1] <=> Malformed \in r.accept
      /\ Errors(r)[4][1] <=> r.accept # {} /\ r.accept \cap AcceptVersions = {}
      /\ Errors(r)[9][1] <=> Malformed \in r.content
      /\ Errors(r)[10][1] <=> r.content \cap ContentVersions = {}
  BY DEF Errors
<1>2. ASSUME OnPostAuth(r) = "REQUESTED_VERSION_NOT_SUPPORTED"
      PROVE  Errors(r)[4][1] /\ ~Errors(r)[3][1]
  <2>1. PICK i \in 1..10 : /\ Errors(r)[i][1] /\ OnPostAuth(r) = Errors(r)[i][2]
                           /\ \A j \in 1..10 : Errors(r)[j][1] => i <= j
    BY <1>2, FirstError
  <2>2. i = 4
    BY <1>2, <2>1, ErrorsNumbered
  <2>3. ~(4 <= 3) /\ 3 \in 1..10
    OBVIOUS
  <2>4. QED
    BY <2>1, <2>2, <2>3
<1>3. ASSUME OnPostAuth(r) = "SUPPLIED_VERSION_NOT_SUPPORTED"
      PROVE  Errors(r)[10][1] /\ ~Errors(r)[9][1]
  <2>1. PICK i \in 1..10 : /\ Errors(r)[i][1] /\ OnPostAuth(r) = Errors(r)[i][2]
                           /\ \A j \in 1..10 : Errors(r)[j][1] => i <= j
    BY <1>3, FirstError
  <2>2. i = 10
    BY <1>3, <2>1, ErrorsNumbered
  <2>3. ~(10 <= 9) /\ 9 \in 1..10
    OBVIOUS
  <2>4. QED
    BY <2>1, <2>2, <2>3
<1>4. QED
  BY <1>1, <1>2, <1>3

\* A request continues when no check finds an error.
LEMMA NoError ==
    ASSUME NEW r, ~InvalidSource(r), r.initiates => r.accept # {},
           Malformed \notin r.accept, r.accept = {} \/ r.accept \cap AcceptVersions # {},
           r.date = "valid", Malformed \notin r.content, r.content \cap ContentVersions # {}
    PROVE  OnPostAuth(r) = "continue"
<1>1. ~Errors(r)[1][1] /\ ~Errors(r)[2][1] /\ ~Errors(r)[3][1] /\ ~Errors(r)[4][1]
  BY DEF Errors
<1>2. ~Errors(r)[5][1] /\ ~Errors(r)[6][1] /\ ~Errors(r)[7][1]
  BY DEF Errors, Exceeds, MaxContentLength
<1>3. ~Errors(r)[8][1] /\ ~Errors(r)[9][1] /\ ~Errors(r)[10][1]
  BY DEF Errors
<1>4. \A i \in 1..10 : i \in {1, 2, 3, 4, 5, 6, 7, 8, 9, 10}
  OBVIOUS
<1>5. QED
  BY <1>1, <1>2, <1>3, <1>4, FirstError

-----------------------------------------------------------------------------
(* The request that sendRequest composes.                                  *)

Names == {"accept", "content"}

\* A header's value before TransformHeaders removes it or the plugin parses it.
ValueFor(in, name) ==
    IF in.source = Hub THEN HubHeader(in.headers, name, Config(in)) ELSE in.headers[name]

\* The fields of the request.
LEMMA RequestFields ==
    ASSUME NEW in
    PROVE  /\ PeerRequest(in).accept =
                  IF RemovesAccept(in.headers, Config(in)) THEN {}
                  ELSE Parsed(ValueFor(in, "accept"), "accept")
           /\ PeerRequest(in).content = Parsed(ValueFor(in, "content"), "content")
           /\ PeerRequest(in).listed = TRUE
           /\ PeerRequest(in).initiates = (in.method \in {"GET", "POST"})
           /\ PeerRequest(in).date = in.headers.date /\ PeerRequest(in).length = in.length
           /\ PeerRequest(in).client = in.client /\ PeerRequest(in).source = in.source
           /\ PeerRequest(in).proxy = in.proxy
<1>1. Parsed({}, "accept") = {}
  BY DEF Parsed
<1>2. QED
  BY <1>1 DEF PeerRequest, TransformHeaders, ValueFor, Config

\* The versions of a known resource.
LEMMA VersionsOf ==
    ASSUME NEW r \in DOMAIN resourceVersions
    PROVE  /\ resourceVersions[r].accept \in Seq(Nat) /\ resourceVersions[r].content \in Seq(Nat)
           /\ r \in DOMAIN ResourceVersions =>
                 /\ resourceVersions[r].content = ResourceVersions[r]
                 /\ resourceVersions[r].accept = <<ResourceVersions[r][1]>>
           /\ r \notin DOMAIN ResourceVersions /\ r \in DOMAIN DefaultFxVersions =>
                 /\ resourceVersions[r].content = <<2, 0>> /\ resourceVersions[r].accept = <<2>>
           /\ r \notin DOMAIN ResourceVersions /\ r \notin DOMAIN DefaultFxVersions =>
                 /\ resourceVersions[r].content = <<1, 0>> /\ resourceVersions[r].accept = <<1>>
<1>1. r \in DOMAIN ResourceVersions \cup DOMAIN DefaultAPIVersions \cup DOMAIN DefaultFxVersions
  BY DEF resourceVersions
<1>2. /\ <<1>> \in Seq(Nat) /\ <<1, 0>> \in Seq(Nat)
      /\ <<2>> \in Seq(Nat) /\ <<2, 0>> \in Seq(Nat)
  OBVIOUS
<1>3. CASE r \in DOMAIN ResourceVersions
  <2>1. ResourceVersions[r] \in Seq(Nat) /\ ResourceVersions[r] # <<>>
    BY <1>3, ResourceVersionsAssumption
  <2>2. /\ Head(ResourceVersions[r]) = ResourceVersions[r][1]
        /\ ResourceVersions[r][1] \in Nat
    BY <2>1
  <2>3. resourceVersions[r] =
            [content |-> ResourceVersions[r], accept |-> <<Head(ResourceVersions[r])>>]
    BY <1>1, <1>3 DEF resourceVersions
  <2>4. <<ResourceVersions[r][1]>> \in Seq(Nat)
    BY <2>2
  <2>5. QED
    BY <1>3, <2>1, <2>2, <2>3, <2>4
<1>4. CASE r \notin DOMAIN ResourceVersions /\ r \in DOMAIN DefaultFxVersions
  <2>1. r \notin DOMAIN DefaultAPIVersions
    BY <1>4 DEF DefaultAPIVersions, DefaultFxVersions
  <2>2. resourceVersions[r] = DefaultFxVersions[r]
    BY <1>1, <1>4, <2>1 DEF resourceVersions
  <2>3. DefaultFxVersions[r] = [content |-> <<2, 0>>, accept |-> <<2>>]
    BY <1>4 DEF DefaultFxVersions
  <2>4. QED
    BY <1>2, <1>4, <2>2, <2>3
<1>5. CASE r \notin DOMAIN ResourceVersions /\ r \notin DOMAIN DefaultFxVersions
  <2>1. r \in DOMAIN DefaultAPIVersions
    BY <1>1, <1>5
  <2>2. resourceVersions[r] = DefaultAPIVersions[r]
    BY <1>1, <1>5, <2>1 DEF resourceVersions
  <2>3. DefaultAPIVersions[r] = [content |-> <<1, 0>>, accept |-> <<1>>]
    BY <2>1 DEF DefaultAPIVersions
  <2>4. QED
    BY <1>2, <1>5, <2>2, <2>3
<1>6. QED
  BY <1>3, <1>4, <1>5

\* A given version is one of those given.
LEMMA GivenVersion == ASSUME NEW S, S # {} PROVE (CHOOSE v \in S : TRUE) \in S
  OBVIOUS

\* What the hub writes in a header: nothing, a media type that names no resource, or its
\* form of the API with a given version, or the configured one of the resource.
LEMMA HubWrites ==
    ASSUME NEW in \in Arguments, NEW name \in Names, in.source = Hub
    PROVE  \/ ValueFor(in, name) = {} /\ in.headers[name] = {}
           \/ ValueFor(in, name) = {NoResource} /\ ~HasResourceInfo(in.headers[name])
           \/ \E v \in in.protocolVersions[name] :
                 ValueFor(in, name) = {[api |-> in.apiType, version |-> v]}
           \/ /\ in.protocolVersions[name] = {} /\ in.headers[name] # {}
              /\ ResourceKnown(in.headers, name)
              /\ ValueFor(in, name) = {[api |-> in.apiType,
                                        version |-> resourceVersions[in.headers.resource][name]]}
<1>1. /\ Config(in).apiType = in.apiType
      /\ Config(in).protocolVersions = in.protocolVersions
  BY DEF Config
<1>2. ValueFor(in, name) = HubHeader(in.headers, name, Config(in))
  BY DEF ValueFor
<1>3. HasResourceInfo(in.headers[name]) => ResourceKnown(in.headers, name)
  BY DEF ResourceKnown
<1>4. QED
  BY <1>1, <1>2, <1>3, GivenVersion DEF HubHeader

\* Arguments, field by field.
LEMMA ArgumentFields ==
    ASSUME NEW in \in Arguments
    PROVE  /\ in.headers \in HeaderSets(HeaderValues)
           /\ in.headers.accept \in HeaderValues /\ in.headers.content \in HeaderValues
           /\ in.headers.date \in {"absent", "malformed", "valid"}
           /\ in.headers.signature \in {"none", "caller"}
           /\ in.method \in {"GET", "POST", "PUT", "put"} /\ in.source \in Parties
           /\ in.protocolVersions.accept \subseteq Seq(Nat)
           /\ in.protocolVersions.content \subseteq Seq(Nat)
           /\ in.apiType \in APITypes /\ in.length \in {"usual", "huge"}
           /\ in.complete \in BOOLEAN /\ in.span \in BOOLEAN /\ in.signer \in BOOLEAN
           /\ in.client \in Parties \cup {Absent} /\ in.proxy \in Parties \cup {Absent}
<1>1. in.headers \in HeaderSets(HeaderValues)
  BY DEF Arguments
<1>2. QED
  BY <1>1 DEF Arguments, HeaderSets

\* A header that is sent has a value that a header may have.
LEMMA ValueType ==
    ASSUME NEW in \in Arguments, NEW name \in Names, ~TransformThrows(in.headers, Config(in))
    PROVE  ValueFor(in, name) \in HeaderValues
<1>1. in.headers[name] \in HeaderValues /\ in.protocolVersions[name] \subseteq Seq(Nat)
  BY ArgumentFields DEF Names
<1>2. in.apiType \in APITypes
  BY ArgumentFields
<1>3. \A v \in Seq(Nat) : {[api |-> in.apiType, version |-> v]} \in HeaderValues
  BY <1>2 DEF HeaderValues
<1>4. CASE in.source # Hub
  BY <1>1, <1>4 DEF ValueFor
<1>5. CASE in.source = Hub
  <2>1. ASSUME in.protocolVersions[name] = {}, in.headers[name] # {},
               ResourceKnown(in.headers, name)
        PROVE  resourceVersions[in.headers.resource][name] \in Seq(Nat)
    <3>1. ~UnknownVersion(in.headers, name, in.protocolVersions)
      BY <1>5 DEF TransformThrows, Config, Names
    <3>2. in.headers.resource \in DOMAIN resourceVersions
      BY <2>1, <3>1 DEF UnknownVersion
    <3>3. QED
      BY <3>2, VersionsOf DEF Names
  <2>2. {} \in HeaderValues /\ {NoResource} \in HeaderValues
    BY DEF HeaderValues
  <2>3. ASSUME NEW v \in in.protocolVersions[name],
               ValueFor(in, name) = {[api |-> in.apiType, version |-> v]}
        PROVE  ValueFor(in, name) \in HeaderValues
    BY <1>1, <1>3, <2>3
  <2>4. ASSUME in.protocolVersions[name] = {}, in.headers[name] # {},
               ResourceKnown(in.headers, name),
               ValueFor(in, name) = {[api |-> in.apiType,
                                      version |-> resourceVersions[in.headers.resource][name]]}
        PROVE  ValueFor(in, name) \in HeaderValues
    BY <1>3, <2>1, <2>4
  <2>5. QED
    BY <1>5, <2>2, <2>3, <2>4, HubWrites
<1>6. QED
  BY <1>4, <1>5

\* The plugin parses it to versions, or finds it malformed.
LEMMA ParsedType ==
    ASSUME NEW value \in HeaderValues, NEW name
    PROVE  Parsed(value, name) \subseteq {Malformed} \cup Seq(Nat)
<1>1. \A v \in value : v # NoResource => v \in [api: APITypes, version: Seq(Nat)]
  BY DEF HeaderValues
<1>2. QED
  BY <1>1 DEF Parsed, WellFormed

\* What sendRequest composes is a request.
LEMMA PeerRequestType ==
    ASSUME NEW in \in Arguments, ~TransformThrows(in.headers, Config(in))
    PROVE  PeerRequest(in) \in Requests /\ Signature(in) \in {"none", "caller", "signer"}
<1>1. /\ Parsed(ValueFor(in, "accept"), "accept") \subseteq {Malformed} \cup Seq(Nat)
      /\ Parsed(ValueFor(in, "content"), "content") \subseteq {Malformed} \cup Seq(Nat)
  BY ValueType, ParsedType DEF Names
<1>2. PeerRequest(in) = [listed |-> PeerRequest(in).listed, initiates |-> PeerRequest(in).initiates,
         accept |-> PeerRequest(in).accept, date |-> PeerRequest(in).date,
         length |-> PeerRequest(in).length, content |-> PeerRequest(in).content,
         client |-> PeerRequest(in).client, source |-> PeerRequest(in).source,
         proxy |-> PeerRequest(in).proxy]
  BY DEF PeerRequest
<1>3. /\ PeerRequest(in).accept \subseteq {Malformed} \cup Seq(Nat)
      /\ PeerRequest(in).content \subseteq {Malformed} \cup Seq(Nat)
  BY <1>1, RequestFields
<1>4. PeerRequest(in).listed \in BOOLEAN /\ PeerRequest(in).initiates \in BOOLEAN
  BY DEF PeerRequest
<1>5. /\ PeerRequest(in).date \in {"absent", "malformed", "valid"}
      /\ PeerRequest(in).length \in {"usual", "huge"}
      /\ PeerRequest(in).client \in Parties \cup {Absent}
      /\ PeerRequest(in).source \in Parties \cup {Absent}
      /\ PeerRequest(in).proxy \in Parties \cup {Absent}
  BY RequestFields, ArgumentFields
<1>6. PeerRequest(in) \in Requests
  BY <1>2, <1>3, <1>4, <1>5 DEF Requests
<1>7. Signature(in) \in {"none", "caller", "signer"}
  BY ArgumentFields DEF Signature, TransformHeaders
<1>8. QED
  BY <1>6, <1>7

\* A version of the list that a refusal comes with.
LEMMA ListedVersion ==
    ASSUME NEW name \in Names,
           NEW v \in ExtensionList(IF name = "accept" THEN AcceptVersions ELSE ContentVersions)
    PROVE  v \in Seq(Nat) /\ Len(v) = 2
<1>1. PICK w \in AcceptVersions \cup ContentVersions :
          w # <<>> /\ v = <<w[1], IF Len(w) = 2 THEN w[2] ELSE 0>>
  BY DEF ExtensionList, anyVersion
<1>2. w \in Seq(Nat) /\ Len(w) \in Nat /\ Len(w) # 0
  BY <1>1, VersionsAssumption, EmptySeq, LenProperties
<1>3. w[1] \in Nat /\ (Len(w) = 2 => w[2] \in Nat)
  BY <1>2, ElementOfSeq
<1>4. QED
  BY <1>1, <1>3

\* The arguments of a call that is repeated with a version.
Again(in, name, v) ==
    [in EXCEPT !.protocolVersions[name] = {v},
               !.headers[name] = {[api |-> PeerApi, version |-> v]}]

\* They differ in that version only.
LEMMA AgainFields ==
    ASSUME NEW in \in Arguments, NEW name \in Names, NEW v \in Seq(Nat)
    PROVE  /\ Again(in, name, v) \in Arguments
           /\ Again(in, name, v).headers[name] = {[api |-> PeerApi, version |-> v]}
           /\ Again(in, name, v).protocolVersions[name] = {v}
           /\ \A other \in Names \ {name} :
                 /\ Again(in, name, v).headers[other] = in.headers[other]
                 /\ Again(in, name, v).protocolVersions[other] = in.protocolVersions[other]
<1>1. /\ in.headers \in HeaderSets(HeaderValues)
      /\ in.protocolVersions \in [accept: SUBSET Seq(Nat), content: SUBSET Seq(Nat)]
  BY DEF Arguments
<1>2. {[api |-> PeerApi, version |-> v]} \in HeaderValues /\ {v} \in SUBSET Seq(Nat)
  BY PeerAssumption DEF HeaderValues
<1> DEFINE headers == [in.headers EXCEPT ![name] = {[api |-> PeerApi, version |-> v]}]
           versions == [in.protocolVersions EXCEPT ![name] = {v}]
<1>3. /\ headers \in HeaderSets(HeaderValues)
      /\ headers[name] = {[api |-> PeerApi, version |-> v]}
      /\ \A other \in Names \ {name} : headers[other] = in.headers[other]
  <2>1. CASE name = "accept"
    BY <1>1, <1>2, <2>1 DEF HeaderSets, Names
  <2>2. CASE name = "content"
    BY <1>1, <1>2, <2>2 DEF HeaderSets, Names
  <2>3. QED
    BY <2>1, <2>2 DEF Names
<1>4. /\ versions \in [accept: SUBSET Seq(Nat), content: SUBSET Seq(Nat)]
      /\ versions[name] = {v}
      /\ \A other \in Names \ {name} : versions[other] = in.protocolVersions[other]
  <2>1. CASE name = "accept"
    BY <1>1, <1>2, <2>1 DEF Names
  <2>2. CASE name = "content"
    BY <1>1, <1>2, <2>2 DEF Names
  <2>3. QED
    BY <2>1, <2>2 DEF Names
<1>5. Again(in, name, v) = [in EXCEPT !.protocolVersions = versions, !.headers = headers]
  BY DEF Again, Arguments
<1> HIDE DEF headers, versions
<1>6. /\ Again(in, name, v) \in Arguments
      /\ Again(in, name, v).headers = headers /\ Again(in, name, v).protocolVersions = versions
  BY <1>3, <1>4, <1>5 DEF Arguments
<1>7. QED
  BY <1>3, <1>4, <1>6

-----------------------------------------------------------------------------
(* The steps of a call.                                                    *)

Results == {"none", "ok", "PEER_ERROR", "ID_NOT_FOUND", "CLIENT_ERROR",
            "DESTINATION_COMMUNICATION_ERROR", "MISSING_PARAMETERS", "COMPOSE_ERROR",
            "SPAN_ERROR"}
Answers == {"none", "2xx", "errorInformation", "404", "4xx", "5xx"}
Settling == {"finishing", "failing", "settled"}

Ranges ==
    /\ input \in [Calls -> Arguments \cup {Absent}]
    /\ pc \in [Calls -> {"idle", "queued", "sent"} \cup Settling]
    /\ request \in [Calls -> Requests \cup {Absent}]
    /\ signature \in [Calls -> {"none", "caller", "signer"}]
    /\ verdict \in [Calls -> Verdicts] /\ answer \in [Calls -> Answers]
    /\ result \in [Calls -> Results]
    /\ span \in [Calls -> {"none", "open", "finished", "failed"}]
    /\ attempts \in [Calls -> 0..MaxAttempts] /\ tried \in [Calls -> SUBSET Names]

\* A call has its arguments, and, once its request was answered or given up, a result.
Begun(c) ==
    /\ pc[c] # "idle" => input[c] \in Arguments
    /\ pc[c] \in Settling => result[c] # "none"

Step(c) ==
    \/ Call(c) \/ Dispatch(c) \/ Respond(c) \/ Timeout(c) \/ Finish(c) \/ FinishFails(c)
    \/ ReportError(c) \/ ReportFails(c) \/ Validate(c) \/ HandlerAnswers(c) \/ Repeat(c)

Same(d) ==
    /\ input'[d] = input[d] /\ pc'[d] = pc[d] /\ request'[d] = request[d]
    /\ signature'[d] = signature[d] /\ verdict'[d] = verdict[d] /\ answer'[d] = answer[d]
    /\ result'[d] = result[d] /\ span'[d] = span[d]
    /\ attempts'[d] = attempts[d] /\ tried'[d] = tried[d]

\* A service repeats a call with a version of the list in the place of the one refused.
LEMMA RepeatIs ==
    ASSUME NEW c \in Calls, Repeat(c), input[c] \in Arguments
    PROVE  /\ pc[c] = "settled" /\ result[c] = "PEER_ERROR"
           /\ \E name \in Names :
                 \E v \in ExtensionList(IF name = "accept" THEN AcceptVersions
                                        ELSE ContentVersions) :
                    /\ Again(input[c], name, v) \in Arguments
                    /\ SendRequest(c, Again(input[c], name, v))
                    /\ tried' = [tried EXCEPT ![c] = @ \cup {name}]
<1>1. PICK name \in Names :
          /\ pc[c] = "settled" /\ result[c] = "PEER_ERROR"
          /\ \E v \in ExtensionList(IF name = "accept" THEN AcceptVersions ELSE ContentVersions) :
                SendRequest(c, Again(input[c], name, v))
          /\ tried' = [tried EXCEPT ![c] = @ \cup {name}]
  BY DEF Repeat, Names, Again
<1>2. PICK v \in ExtensionList(IF name = "accept" THEN AcceptVersions ELSE ContentVersions) :
          SendRequest(c, Again(input[c], name, v))
  BY <1>1
<1>3. Again(input[c], name, v) \in Arguments
  BY ListedVersion, AgainFields
<1>4. QED
  BY <1>1, <1>2, <1>3

\* How a call of sendRequest begins, with its first or its next arguments.
SentWith(c, in) ==
    /\ input' = [input EXCEPT ![c] = in]
    /\ verdict' = [verdict EXCEPT ![c] = "none"] /\ answer' = [answer EXCEPT ![c] = "none"]
    /\ span' = [span EXCEPT ![c] = IF in.span THEN "open" ELSE "none"]
    /\ attempts[c] < MaxAttempts /\ attempts' = [attempts EXCEPT ![c] = @ + 1]
    /\ \/ /\ pc' = [pc EXCEPT ![c] = "settled"] /\ request' = [request EXCEPT ![c] = Absent]
          /\ result' = [result EXCEPT ![c] = "MISSING_PARAMETERS"] /\ signature' = signature
       \/ /\ pc' = [pc EXCEPT ![c] = "settled"] /\ request' = [request EXCEPT ![c] = Absent]
          /\ result' = [result EXCEPT ![c] = "COMPOSE_ERROR"] /\ signature' = signature
       \/ /\ pc' = [pc EXCEPT ![c] = IF span'[c] = "none" THEN "settled" ELSE "failing"]
          /\ result' = [result EXCEPT ![c] = "DESTINATION_COMMUNICATION_ERROR"]
          /\ request' = [request EXCEPT ![c] = Absent] /\ signature' = signature
       \/ /\ ~TransformThrows(in.headers, Config(in))
          /\ pc' = [pc EXCEPT ![c] = "queued"] /\ result' = [result EXCEPT ![c] = "none"]
          /\ request' = [request EXCEPT ![c] = PeerRequest(in)]
          /\ signature' = [signature EXCEPT ![c] = Signature(in)]

\* A first call, or a repeated one.
LEMMA Sends ==
    ASSUME NEW c \in Calls, Begun(c), Call(c) \/ Repeat(c)
    PROVE  \E in \in Arguments : /\ SentWith(c, in)
                                 /\ \/ pc[c] = "idle" /\ tried' = tried
                                    \/ /\ pc[c] = "settled"
                                       /\ \E name \in Names :
                                             /\ tried' = [tried EXCEPT ![c] = @ \cup {name}]
                                             /\ \E v \in ExtensionList(IF name = "accept"
                                                       THEN AcceptVersions ELSE ContentVersions) :
                                                   in = Again(input[c], name, v)
<1>1. ASSUME NEW in \in Arguments, SendRequest(c, in) PROVE SentWith(c, in)
  BY <1>1 DEF SendRequest, SentWith, Throws
<1>2. CASE Call(c)
  <2>1. PICK in \in Inputs[c] : SendRequest(c, in)
    BY <1>2 DEF Call
  <2>2. in \in Arguments
    BY InputsAssumption
  <2>3. pc[c] = "idle" /\ tried' = tried
    BY <1>2 DEF Call
  <2>4. QED
    BY <1>1, <2>1, <2>2, <2>3
<1>3. CASE Repeat(c)
  <2>1. pc[c] = "settled" /\ input[c] \in Arguments
    BY <1>3 DEF Repeat, Begun
  <2>2. QED
    BY <1>1, <1>3, <2>1, RepeatIs
<1>4. QED
  BY <1>2, <1>3

\* A step of a call leaves the others alone.
LEMMA Others ==
    ASSUME Ranges, NEW c \in Calls, Begun(c), Step(c), NEW d \in Calls, d # c
    PROVE  Same(d)
<1> USE DEF Ranges, Same
<1>1. CASE Call(c) \/ Repeat(c)
  <2>1. PICK in : SentWith(c, in)
    BY <1>1, Sends
  <2>2. tried' = tried \/ \E name : tried' = [tried EXCEPT ![c] = @ \cup {name}]
    BY <1>1, Sends
  <2>3. tried'[d] = tried[d]
    BY <2>2
  <2>4. QED
    BY <2>1, <2>3 DEF SentWith
<1>2. CASE Dispatch(c)
  BY <1>2 DEF Dispatch
<1>3. CASE Respond(c)
  BY <1>3 DEF Respond, Throws
<1>4. CASE Timeout(c)
  BY <1>4 DEF Timeout, Throws
<1>5. CASE Finish(c)
  BY <1>5 DEF Finish
<1>6. CASE FinishFails(c)
  BY <1>6 DEF FinishFails, Throws
<1>7. CASE ReportError(c)
  BY <1>7 DEF ReportError
<1>8. CASE ReportFails(c)
  BY <1>8 DEF ReportFails
<1>9. CASE Validate(c)
  BY <1>9 DEF Validate
<1>10. CASE HandlerAnswers(c)
  BY <1>10 DEF HandlerAnswers
<1>11. QED
  BY <1>1, <1>2, <1>3, <1>4, <1>5, <1>6, <1>7, <1>8, <1>9, <1>10 DEF Step

TypeInv == Ranges /\ \A c \in Calls : Begun(c)

\* The variables keep their types.
LEMMA RangesStep ==
    ASSUME Ranges, NEW c \in Calls, Begun(c), Step(c)
    PROVE  Ranges' /\ Begun(c)'
<1> USE DEF Ranges, Begun, Settling, Results, Answers
<1>1. CASE Call(c) \/ Repeat(c)
  <2>1. PICK in \in Arguments : /\ SentWith(c, in)
                                /\ \/ tried' = tried
                                   \/ \E name \in Names :
                                         tried' = [tried EXCEPT ![c] = @ \cup {name}]
    BY <1>1, Sends
  <2>2. tried' \in [Calls -> SUBSET Names]
    BY <2>1
  <2>3. /\ input' \in [Calls -> Arguments \cup {Absent}] /\ input'[c] \in Arguments
        /\ verdict' \in [Calls -> Verdicts] /\ answer' \in [Calls -> Answers]
        /\ span' \in [Calls -> {"none", "open", "finished", "failed"}]
    BY <2>1 DEF SentWith, Verdicts
  <2>4. attempts' \in [Calls -> 0..MaxAttempts]
    <3>1. attempts[c] \in 0..MaxAttempts /\ attempts[c] < MaxAttempts
      BY <2>1 DEF SentWith
    <3>2. attempts[c] + 1 \in 0..MaxAttempts
      BY <3>1, SocketsAssumption
    <3>3. QED
      BY <2>1, <3>2 DEF SentWith
  <2>5. /\ pc' \in [Calls -> {"idle", "queued", "sent"} \cup Settling]
        /\ result' \in [Calls -> Results] /\ (pc'[c] \in Settling => result'[c] # "none")
    BY <2>1 DEF SentWith
  <2>6. /\ request' \in [Calls -> Requests \cup {Absent}]
        /\ signature' \in [Calls -> {"none", "caller", "signer"}]
    BY <2>1, PeerRequestType DEF SentWith
  <2>7. QED
    BY <2>2, <2>3, <2>4, <2>5, <2>6
<1>2. CASE Dispatch(c)
  BY <1>2 DEF Dispatch
<1>3. CASE Respond(c)
  <2>1. answer[c] # "2xx" /\ answer[c] # "none" => Classify(answer[c]) \in Results \ {"none"}
    BY DEF Classify
  <2>2. QED
    BY <1>3, <2>1 DEF Respond, Throws
<1>4. CASE Timeout(c)
  BY <1>4 DEF Timeout, Throws
<1>5. CASE Finish(c)
  BY <1>5 DEF Finish
<1>6. CASE FinishFails(c)
  BY <1>6 DEF FinishFails, Throws
<1>7. CASE ReportError(c)
  BY <1>7 DEF ReportError
<1>8. CASE ReportFails(c)
  BY <1>8 DEF ReportFails
<1>9. CASE Validate(c)
  <2>1. verdict' \in [Calls -> Verdicts]
    BY <1>9, VerdictType DEF Validate
  <2>2. QED
    BY <1>9, <2>1 DEF Validate
<1>10. CASE HandlerAnswers(c)
  <2>1. answer' \in [Calls -> Answers]
    BY <1>10 DEF HandlerAnswers
  <2>2. QED
    BY <1>10, <2>1 DEF HandlerAnswers
<1>11. QED
  BY <1>1, <1>2, <1>3, <1>4, <1>5, <1>6, <1>7, <1>8, <1>9, <1>10 DEF Step

\* Every step of the system keeps them.
LEMMA TypeStep == TypeInv /\ [Next]_vars => TypeInv'
<1> SUFFICES ASSUME TypeInv, [Next]_vars PROVE TypeInv'
  OBVIOUS
<1>1. ASSUME NEW c \in Calls, Step(c) PROVE TypeInv'
  <2>1. Ranges /\ \A d \in Calls : Begun(d)
    BY DEF TypeInv
  <2>2. Ranges' /\ Begun(c)'
    BY <1>1, <2>1, RangesStep
  <2>3. ASSUME NEW d \in Calls, d # c PROVE Begun(d)'
    BY <1>1, <2>1, <2>3, Others DEF Same, Begun
  <2>4. QED
    BY <2>2, <2>3 DEF TypeInv
<1>2. CASE UNCHANGED vars
  BY <1>2 DEF vars, TypeInv, Ranges, Begun
<1>3. QED
  BY <1>1, <1>2 DEF Next, Step

\* The variables keep their types.
THEOREM TypeCorrect == Spec => [](TypeInv /\ TypeOK)
<1>1. Init => TypeInv
  BY SocketsAssumption DEF Init, TypeInv, Ranges, Begun, Settling, Verdicts, Answers, Results, Names
<1>2. TypeInv => TypeOK
  BY DEF TypeInv, Ranges, Begun, Settling, Names, TypeOK
<1>3. QED
  BY <1>1, <1>2, TypeStep, PTL DEF Spec

-----------------------------------------------------------------------------
(* The outcome of a call.                                                  *)

\* The result of a call that was answered is the one its answer calls for, from the moment
\* the answer arrives; the error of a call that gave its request up is none of them.
Told(c) ==
    /\ result[c] = "ok" => answer[c] = "2xx"
    /\ result[c] = "PEER_ERROR" => answer[c] = "errorInformation"
    /\ result[c] \in {"ID_NOT_FOUND", "CLIENT_ERROR"} => answer[c] \in {"404", "4xx"}
OutcomeCall(c) ==
    /\ verdict[c] = "none" => answer[c] = "none"
    /\ pc[c] \in {"finishing", "failing", "settled"} => Told(c)
OutcomeInv == \A c \in Calls : OutcomeCall(c)

\* A step of a call keeps its outcome right.
LEMMA OutcomeStep ==
    ASSUME Ranges, NEW c \in Calls, Begun(c), OutcomeCall(c), Step(c)
    PROVE  OutcomeCall(c)'
<1> USE DEF Ranges, OutcomeCall, Told
<1>1. CASE Call(c) \/ Repeat(c)
  <2>1. PICK in \in Arguments : SentWith(c, in)
    BY <1>1, Sends
  <2>2. verdict'[c] = "none" /\ answer'[c] = "none"
    BY <2>1 DEF SentWith
  <2>3. \/ pc'[c] = "queued"
        \/ result'[c] \in {"MISSING_PARAMETERS", "COMPOSE_ERROR",
                            "DESTINATION_COMMUNICATION_ERROR"}
    BY <2>1 DEF SentWith
  <2>4. QED
    BY <2>2, <2>3
<1>2. CASE Dispatch(c)
  BY <1>2 DEF Dispatch
<1>3. CASE Respond(c)
  <2>1. /\ answer[c] \in {"errorInformation", "404", "4xx", "5xx", "2xx"}
        /\ UNCHANGED <<verdict, answer>>
    BY <1>3 DEF Respond, Answers
  <2>2. CASE answer[c] = "2xx"
    BY <1>3, <2>1, <2>2 DEF Respond
  <2>3. CASE answer[c] # "2xx"
    <3>1. result'[c] \in {Classify(answer[c]), "COMPOSE_ERROR"}
      BY <1>3, <2>3 DEF Respond, Throws
    <3>2. QED
      BY <2>1, <2>3, <3>1 DEF Classify
  <2>4. QED
    BY <2>2, <2>3
<1>4. CASE Timeout(c)
  BY <1>4 DEF Timeout, Throws
<1>5. CASE Finish(c)
  BY <1>5 DEF Finish
<1>6. CASE FinishFails(c)
  BY <1>6 DEF FinishFails, Throws
<1>7. CASE ReportError(c)
  BY <1>7 DEF ReportError
<1>8. CASE ReportFails(c)
  BY <1>8 DEF ReportFails
<1>9. CASE Validate(c)
  <2>1. verdict[c] = "none" /\ answer[c] = "none" /\ UNCHANGED <<pc, result>>
    BY <1>9 DEF Validate
  <2>2. verdict'[c] # "none"
    BY <1>9, FirstError, ErrorsNumbered DEF Validate, ErrorCodes
  <2>3. QED
    BY <2>1, <2>2
<1>10. CASE HandlerAnswers(c)
  BY <1>10 DEF HandlerAnswers
<1>11. QED
  BY <1>1, <1>2, <1>3, <1>4, <1>5, <1>6, <1>7, <1>8, <1>9, <1>10 DEF Step

\* What a settled call says of the server is what the server has answered: a timeout, a
\* failed or a silent server is never taken for a refusal, although answers are late,
\* spans fail and errors cannot be composed.
THEOREM OutcomeCorrect == Spec => []OutcomeFromServer
<1>1. Init => OutcomeInv
  BY DEF Init, OutcomeInv, OutcomeCall
<1>2. TypeInv /\ OutcomeInv /\ [Next]_vars => OutcomeInv'
  <2> SUFFICES ASSUME TypeInv, OutcomeInv, [Next]_vars PROVE OutcomeInv'
    OBVIOUS
  <2>1. ASSUME NEW c \in Calls, Step(c) PROVE OutcomeInv'
    <3>1. Ranges /\ \A d \in Calls : Begun(d) /\ OutcomeCall(d)
      BY DEF TypeInv, OutcomeInv
    <3>2. OutcomeCall(c)'
      BY <2>1, <3>1, OutcomeStep
    <3>3. ASSUME NEW d \in Calls, d # c PROVE OutcomeCall(d)'
      BY <2>1, <3>1, <3>3, Others DEF Same, OutcomeCall, Told
    <3>4. QED
      BY <3>2, <3>3 DEF OutcomeInv
  <2>2. CASE UNCHANGED vars
    BY <2>2 DEF vars, OutcomeInv, OutcomeCall, Told
  <2>3. QED
    BY <2>1, <2>2 DEF Next, Step
<1>3. OutcomeInv => OutcomeFromServer
  BY DEF OutcomeInv, OutcomeCall, Told, OutcomeFromServer
<1>4. QED
  BY <1>1, <1>2, <1>3, TypeCorrect, PTL DEF Spec

-----------------------------------------------------------------------------
(* Spans.                                                                  *)

\* A step of a call leaves its span open only if a parameter was missing or composing threw.
SpanCall(c) ==
    pc[c] = "settled" /\ span[c] = "open" =>
        result[c] \in {"MISSING_PARAMETERS", "COMPOSE_ERROR"}

\* A span that was opened is finished, or its end has failed, unless a parameter was missing
\* or the call's error could not be composed.
THEOREM SpansCorrect == Spec => []SpanFinished
<1>1. Init => SpanFinished
  BY DEF Init, SpanFinished
<1>2. TypeInv /\ SpanFinished /\ [Next]_vars => SpanFinished'
  <2> SUFFICES ASSUME TypeInv, SpanFinished, [Next]_vars PROVE SpanFinished'
    OBVIOUS
  <2>0. Ranges /\ \A d \in Calls : Begun(d) /\ SpanCall(d)
    BY DEF TypeInv, SpanFinished, SpanCall
  <2>1. ASSUME NEW c \in Calls, Step(c) PROVE SpanCall(c)'
    <3> USE <2>0 DEF Ranges, SpanCall
    <3>1. CASE Call(c) \/ Repeat(c)
      <4>1. PICK in \in Arguments : SentWith(c, in)
        BY <3>1, Sends
      <4>2. QED
        BY <4>1 DEF SentWith
    <3>2. CASE Dispatch(c)
      BY <3>2 DEF Dispatch
    <3>3. CASE Respond(c)
      BY <3>3 DEF Respond, Throws
    <3>4. CASE Timeout(c)
      BY <3>4 DEF Timeout, Throws
    <3>5. CASE Finish(c) \/ ReportError(c) \/ ReportFails(c)
      BY <3>5 DEF Finish, ReportError, ReportFails
    <3>6. CASE FinishFails(c)
      BY <3>6 DEF FinishFails, Throws
    <3>7. CASE Validate(c) \/ HandlerAnswers(c)
      BY <3>7 DEF Validate, HandlerAnswers
    <3>8. QED
      BY <2>1, <3>1, <3>2, <3>3, <3>4, <3>5, <3>6, <3>7 DEF Step
  <2>2. ASSUME NEW c \in Calls, Step(c) PROVE SpanFinished'
    <3>1. ASSUME NEW d \in Calls, d # c PROVE SpanCall(d)'
      BY <2>0, <2>2, <3>1, Others DEF Same, SpanCall
    <3>2. QED
      BY <2>1, <2>2, <3>1 DEF SpanFinished, SpanCall
  <2>3. CASE UNCHANGED vars
    BY <2>3 DEF vars, SpanFinished
  <2>4. QED
    BY <2>2, <2>3 DEF Next, Step
<1>3. QED
  BY <1>1, <1>2, TypeCorrect, PTL DEF Spec

-----------------------------------------------------------------------------
(* What is sent, and what the plugin makes of it.                          *)

\* The request of a call is the one its arguments make, the verdict is about that request,
\* and a call in the queue or on a socket has one, with its signature.
RequestCall(c) ==
    /\ request[c] # Absent => pc[c] # "idle" /\ request[c] = PeerRequest(input[c])
    /\ pc[c] \in {"queued", "sent"} =>
          request[c] = PeerRequest(input[c]) /\ signature[c] = Signature(input[c])
    /\ verdict[c] # "none" =>
          pc[c] # "idle" /\ request[c] = PeerRequest(input[c])
          /\ verdict[c] = OnPostAuth(request[c])
RequestInv == \A c \in Calls : RequestCall(c)

\* A header that was repeated with a version of the list has that version still.
TriedCall(c) ==
    \A name \in tried[c] :
        /\ pc[c] # "idle"
        /\ \E v \in ExtensionList(IF name = "accept" THEN AcceptVersions ELSE ContentVersions) :
              /\ input[c].headers[name] = {[api |-> PeerApi, version |-> v]}
              /\ input[c].protocolVersions[name] = {v}
TriedInv == \A c \in Calls : TriedCall(c)

\* A step of a call keeps its request the one of its arguments.
LEMMA RequestStep ==
    ASSUME Ranges, NEW c \in Calls, Begun(c), RequestCall(c), TriedCall(c), Step(c)
    PROVE  RequestCall(c)' /\ TriedCall(c)'
<1> USE DEF Ranges, RequestCall, TriedCall
<1>1. CASE Call(c) \/ Repeat(c)
  <2>1. PICK in \in Arguments :
            /\ SentWith(c, in)
            /\ \/ pc[c] = "idle" /\ tried' = tried
               \/ /\ pc[c] = "settled"
                  /\ \E name \in Names :
                        /\ tried' = [tried EXCEPT ![c] = @ \cup {name}]
                        /\ \E v \in ExtensionList(IF name = "accept" THEN AcceptVersions
                                                  ELSE ContentVersions) :
                              in = Again(input[c], name, v)
    BY <1>1, Sends
  <2>2. /\ input'[c] = in /\ verdict'[c] = "none" /\ pc'[c] # "idle"
        /\ \/ request'[c] = Absent /\ pc'[c] \notin {"queued", "sent"}
           \/ request'[c] = PeerRequest(in) /\ signature'[c] = Signature(in)
    BY <2>1 DEF SentWith
  <2>3. RequestCall(c)'
    BY <2>2
  <2>4. CASE pc[c] = "idle" /\ tried' = tried
    <3>1. \A name \in tried'[c] : FALSE
      BY <2>4
    <3>2. QED
      BY <2>3, <3>1
  <2>5. CASE pc[c] = "settled"
    <3>0. PICK name \in Names :
              /\ tried' = [tried EXCEPT ![c] = @ \cup {name}]
              /\ \E v \in ExtensionList(IF name = "accept" THEN AcceptVersions
                                        ELSE ContentVersions) :
                    in = Again(input[c], name, v)
      BY <2>1, <2>5
    <3>1. PICK v \in ExtensionList(IF name = "accept" THEN AcceptVersions ELSE ContentVersions) :
              tried' = [tried EXCEPT ![c] = @ \cup {name}] /\ in = Again(input[c], name, v)
      BY <3>0
    <3>2. v \in Seq(Nat) /\ input[c] \in Arguments
      BY <2>5, ListedVersion DEF Begun
    <3>3. /\ in.headers[name] = {[api |-> PeerApi, version |-> v]}
          /\ in.protocolVersions[name] = {v}
          /\ \A other \in Names \ {name} :
                /\ in.headers[other] = input[c].headers[other]
                /\ in.protocolVersions[other] = input[c].protocolVersions[other]
      BY <3>1, <3>2, AgainFields
    <3>4. tried'[c] = tried[c] \cup {name} /\ tried[c] \subseteq Names
      BY <3>1
    <3>5. ASSUME NEW other \in tried'[c]
          PROVE  \E w \in ExtensionList(IF other = "accept" THEN AcceptVersions
                                        ELSE ContentVersions) :
                    /\ in.headers[other] = {[api |-> PeerApi, version |-> w]}
                    /\ in.protocolVersions[other] = {w}
      <4>1. CASE other = name
        BY <3>3, <4>1
      <4>2. CASE other # name
        BY <3>3, <3>4, <3>5, <4>2
      <4>3. QED
        BY <4>1, <4>2
    <3>6. QED
      BY <2>2, <2>3, <3>5
  <2>6. QED
    BY <2>1, <2>3, <2>4, <2>5
<1>2. CASE Dispatch(c)
  BY <1>2 DEF Dispatch
<1>3. CASE Respond(c)
  BY <1>3 DEF Respond, Throws
<1>4. CASE Timeout(c)
  BY <1>4 DEF Timeout, Throws
<1>5. CASE Finish(c)
  BY <1>5 DEF Finish
<1>6. CASE FinishFails(c)
  BY <1>6 DEF FinishFails, Throws
<1>7. CASE ReportError(c)
  BY <1>7 DEF ReportError
<1>8. CASE ReportFails(c)
  BY <1>8 DEF ReportFails
<1>9. CASE Validate(c)
  BY <1>9 DEF Validate
<1>10. CASE HandlerAnswers(c)
  BY <1>10 DEF HandlerAnswers
<1>11. QED
  BY <1>1, <1>2, <1>3, <1>4, <1>5, <1>6, <1>7, <1>8, <1>9, <1>10 DEF Step

\* Requests and verdicts belong to the arguments of their calls.
THEOREM RequestsCorrect == Spec => [](RequestInv /\ TriedInv)
<1>1. Init => RequestInv /\ TriedInv
  BY DEF Init, RequestInv, RequestCall, TriedInv, TriedCall
<1>2. TypeInv /\ RequestInv /\ TriedInv /\ [Next]_vars => (RequestInv /\ TriedInv)'
  <2> SUFFICES ASSUME TypeInv, RequestInv, TriedInv, [Next]_vars
               PROVE  (RequestInv /\ TriedInv)'
    OBVIOUS
  <2>1. ASSUME NEW c \in Calls, Step(c) PROVE (RequestInv /\ TriedInv)'
    <3>1. Ranges /\ \A d \in Calls : Begun(d) /\ RequestCall(d) /\ TriedCall(d)
      BY DEF TypeInv, RequestInv, TriedInv
    <3>2. RequestCall(c)' /\ TriedCall(c)'
      BY <2>1, <3>1, RequestStep
    <3>3. ASSUME NEW d \in Calls, d # c PROVE RequestCall(d)' /\ TriedCall(d)'
      BY <2>1, <3>1, <3>3, Others DEF Same, RequestCall, TriedCall
    <3>4. QED
      BY <3>2, <3>3 DEF RequestInv, TriedInv
  <2>2. CASE UNCHANGED vars
    BY <2>2 DEF vars, RequestInv, RequestCall, TriedInv, TriedCall
  <2>3. QED
    BY <2>1, <2>2 DEF Next, Step
<1>3. QED
  BY <1>1, <1>2, TypeCorrect, PTL DEF Spec

\* The hub never sends the signature of the participant whose headers it forwards, and no
\* Accept header with a PUT, unless the caller wrote its name or the method in another case.
THEOREM HeadersCorrect == Spec => []OutgoingHeaders
<1>1. ASSUME NEW in PROVE in.source = Hub => Signature(in) # "caller"
  BY DEF Signature, TransformHeaders, RemovesSignature, Config
<1>2. ASSUME NEW in
      PROVE  in.method = "PUT" /\ ~in.headers.mixedCase => PeerRequest(in).accept = {}
  BY RequestFields DEF RemovesAccept, Config
<1>3. TypeInv /\ RequestInv => OutgoingHeaders
  <2> SUFFICES ASSUME TypeInv, RequestInv, NEW c \in Calls, pc[c] = "sent"
               PROVE  /\ input[c].source = Hub => signature[c] # "caller"
                      /\ input[c].method \in {"PUT", "put"} /\ request[c].accept # {} =>
                            input[c].headers.mixedCase \/ input[c].method = "put"
    BY DEF OutgoingHeaders
  <2>1. request[c] = PeerRequest(input[c]) /\ signature[c] = Signature(input[c])
    BY DEF RequestInv, RequestCall
  <2>2. QED
    BY <1>1, <1>2, <2>1
<1>4. QED
  BY <1>3, TypeCorrect, RequestsCorrect, PTL

\* What the hub sends, for a resource with configured versions that the server supports,
\* has one version of each header, of the server's list.
LEMMA HubSends ==
    ASSUME NEW in \in Arguments, in.source = Hub, in.apiType = PeerApi,
           HasResourceInfo(in.headers.accept), HasResourceInfo(in.headers.content),
           Supported(in)
    PROVE  /\ \E v \in AcceptVersions : Parsed(ValueFor(in, "accept"), "accept") = {v}
           /\ \E v \in ContentVersions : Parsed(ValueFor(in, "content"), "content") = {v}
<1> DEFINE r == in.headers.resource
<1>1. ASSUME NEW v \in Seq(Nat), NEW name \in Names, Len(v) <= 2,
             name = "content" => Len(v) = 2
      PROVE  Parsed({[api |-> in.apiType, version |-> v]}, name) = {v}
  <2>1. [api |-> in.apiType, version |-> v] # NoResource
    BY NoResourceAssumption, PeerAssumption
  <2>2. QED
    BY <1>1, <2>1 DEF Parsed, WellFormed
<1>2. r \in DOMAIN resourceVersions
  BY DEF Supported, resourceVersions
<1>3. ASSUME in.protocolVersions.accept = {}
      PROVE  resourceVersions[r].accept \in AcceptVersions
  <2>1. CASE r \in DOMAIN ResourceVersions
    BY <1>2, <1>3, <2>1, VersionsOf DEF Supported
  <2>2. CASE r \notin DOMAIN ResourceVersions /\ r \in DOMAIN DefaultFxVersions
    BY <1>2, <1>3, <2>2, VersionsOf DEF Supported
  <2>3. CASE r \notin DOMAIN ResourceVersions /\ r \notin DOMAIN DefaultFxVersions
    BY <1>2, <1>3, <2>3, VersionsOf DEF Supported
  <2>4. QED
    BY <2>1, <2>2, <2>3
<1>4. ASSUME in.protocolVersions.content = {}
      PROVE  /\ resourceVersions[r].content \in ContentVersions
             /\ Len(resourceVersions[r].content) = 2
  <2>1. CASE r \in DOMAIN ResourceVersions
    BY <1>2, <1>4, <2>1, VersionsOf DEF Supported
  <2>2. CASE r \notin DOMAIN ResourceVersions /\ r \in DOMAIN DefaultFxVersions
    BY <1>2, <1>4, <2>2, VersionsOf DEF Supported
  <2>3. CASE r \notin DOMAIN ResourceVersions /\ r \notin DOMAIN DefaultFxVersions
    BY <1>2, <1>4, <2>3, VersionsOf DEF Supported
  <2>4. QED
    BY <2>1, <2>2, <2>3
<1>5. /\ \A v \in in.protocolVersions.accept : v \in AcceptVersions
      /\ \A v \in in.protocolVersions.content : v \in ContentVersions /\ Len(v) = 2
  BY DEF Supported
<1>6. \A v \in AcceptVersions \cup ContentVersions : v \in Seq(Nat) /\ Len(v) <= 2
  BY VersionsAssumption
<1>7. /\ in.headers.accept # {} /\ in.headers.content # {}
      /\ "accept" \in Names /\ "content" \in Names
  BY DEF HasResourceInfo, Names
<1>8. \E v \in AcceptVersions : ValueFor(in, "accept") = {[api |-> in.apiType, version |-> v]}
  BY <1>3, <1>5, <1>7, HubWrites
<1>9. \E v \in ContentVersions : /\ Len(v) = 2
                                 /\ ValueFor(in, "content") = {[api |-> in.apiType, version |-> v]}
  BY <1>4, <1>5, <1>7, HubWrites
<1>10. QED
  BY <1>1, <1>6, <1>7, <1>8, <1>9

\* A request that the hub composes passes the plugin of a server of the same form of the
\* API that supports the configured versions, whatever the headers it was made from.
THEOREM PeerAccepts == Spec => []AcceptedByPeer
<1>1. ASSUME NEW in \in Arguments, in.source = Hub, in.apiType = PeerApi,
             in.headers.date = "valid", HasResourceInfo(in.headers.accept),
             HasResourceInfo(in.headers.content), Supported(in), in.client = Absent
      PROVE  OnPostAuth(PeerRequest(in)) = "continue"
  <2>1. PICK a \in AcceptVersions : Parsed(ValueFor(in, "accept"), "accept") = {a}
    BY <1>1, HubSends
  <2>2. PICK v \in ContentVersions : Parsed(ValueFor(in, "content"), "content") = {v}
    BY <1>1, HubSends
  <2>3. a # Malformed /\ v # Malformed
    BY VersionsAssumption, MalformedAssumption
  <2>4. /\ PeerRequest(in).content = {v} /\ PeerRequest(in).accept \in {{}, {a}}
        /\ PeerRequest(in).date = "valid" /\ PeerRequest(in).client = Absent
    BY <1>1, <2>1, <2>2, RequestFields
  <2>5. PeerRequest(in).initiates => PeerRequest(in).accept = {a}
    <3>1. in.method \in {"GET", "POST"} => ~RemovesAccept(in.headers, Config(in))
      BY DEF RemovesAccept, Config
    <3>2. QED
      BY <2>1, <3>1, RequestFields
  <2>6. ~InvalidSource(PeerRequest(in))
    BY <2>4 DEF InvalidSource
  <2>7. QED
    BY <2>3, <2>4, <2>5, <2>6, NoError
<1>2. TypeInv /\ RequestInv => AcceptedByPeer
  BY <1>1 DEF TypeInv, Begun, RequestInv, RequestCall, AcceptedByPeer
<1>3. QED
  BY <1>2, TypeCorrect, RequestsCorrect, PTL

\* The header of a call that was repeated with a version of the list has one the server
\* supports, or no version of its form of the API.
LEMMA ListedSent ==
    ASSUME NEW in \in Arguments, NEW name \in Names, NEW v \in Seq(Nat), Len(v) = 2,
           in.headers[name] = {[api |-> PeerApi, version |-> v]},
           in.protocolVersions[name] = {v}
    PROVE  Parsed(ValueFor(in, name), name) \in {{v}, {Malformed}}
<1>1. [api |-> PeerApi, version |-> v] # NoResource
  BY NoResourceAssumption, PeerAssumption
<1>2. \E api \in APITypes : ValueFor(in, name) = {[api |-> api, version |-> v]}
  <2>1. CASE in.source = Hub
    <3>1. HasResourceInfo(in.headers[name]) /\ in.headers[name] # {}
      BY <1>1 DEF HasResourceInfo
    <3>2. ValueFor(in, name) = {[api |-> in.apiType, version |-> v]}
      BY <2>1, <3>1, HubWrites
    <3>3. QED
      BY <3>2, ArgumentFields
  <2>2. CASE in.source # Hub
    BY <2>2, PeerAssumption DEF ValueFor
  <2>3. QED
    BY <2>1, <2>2
<1>3. PICK api \in APITypes : ValueFor(in, name) = {[api |-> api, version |-> v]}
  BY <1>2
<1>4. [api |-> api, version |-> v] # NoResource
  BY NoResourceAssumption
<1>5. QED
  BY <1>3, <1>4 DEF Parsed

\* What the list names is supported, or it has made its minor number up.
LEMMA ListNames ==
    ASSUME NEW S, \A w \in S : w \in Seq(Nat) /\ Len(w) <= 2
    PROVE  ExtensionList(S) \subseteq S \cup MadeUp(S)
<1> SUFFICES ASSUME NEW w \in S, w # <<>>,
                    <<w[1], IF Len(w) = 2 THEN w[2] ELSE 0>> \notin S
             PROVE  <<w[1], IF Len(w) = 2 THEN w[2] ELSE 0>> \in MadeUp(S)
  BY DEF ExtensionList, anyVersion
<1>1. w \in Seq(Nat) /\ Len(w) \in {1, 2}
  <2>1. w \in Seq(Nat) /\ Len(w) \in Nat /\ Len(w) <= 2
    BY LenProperties
  <2>2. Len(w) # 0
    BY <2>1, EmptySeq
  <2>3. \A n \in Nat : n <= 2 /\ n # 0 => n \in {1, 2}
    OBVIOUS
  <2>4. Len(w) \in {1, 2}
    BY <2>1, <2>2, <2>3
  <2>5. QED
    BY <2>1, <2>4
<1>2. Len(w) # 2
  <2>1. Len(w) = 2 => w = <<w[1], w[2]>>
    BY <1>1
  <2>2. QED
    BY <2>1
<1>3. QED
  BY <1>1, <1>2 DEF MadeUp

\* A call that was refused for its version gets through with any version of the list that
\* the server answered with, unless the list has made that version up.
THEOREM ListHolds == Spec => []ListedVersionAccepted
<1> DEFINE versions(name) == IF name = "accept" THEN AcceptVersions ELSE ContentVersions
           Refusal(name) == IF name = "accept" THEN "REQUESTED_VERSION_NOT_SUPPORTED"
                            ELSE "SUPPLIED_VERSION_NOT_SUPPORTED"
<1>1. ASSUME NEW in \in Arguments, NEW name \in Names, NEW v \in ExtensionList(versions(name)),
             in.headers[name] = {[api |-> PeerApi, version |-> v]},
             in.protocolVersions[name] = {v}, v \in versions(name)
      PROVE  OnPostAuth(PeerRequest(in)) # Refusal(name)
  <2>1. Parsed(ValueFor(in, name), name) \in {{v}, {Malformed}}
    BY <1>1, ListedVersion, ListedSent
  <2>2. CASE name = "accept"
    <3>1. PeerRequest(in).accept \in {{}, {v}, {Malformed}} /\ v \in AcceptVersions
      BY <1>1, <2>1, <2>2, RequestFields
    <3>2. QED
      BY <2>2, <3>1, VersionAccepted
  <2>3. CASE name = "content"
    <3>1. PeerRequest(in).content \in {{v}, {Malformed}} /\ v \in ContentVersions
      BY <1>1, <2>1, <2>3, RequestFields
    <3>2. QED
      BY <2>3, <3>1, VersionAccepted
  <2>4. QED
    BY <2>2, <2>3 DEF Names
<1>2. ASSUME NEW name \in Names
      PROVE  ExtensionList(versions(name)) \subseteq versions(name) \cup MadeUp(versions(name))
  <2>1. \A w \in versions(name) : w \in Seq(Nat) /\ Len(w) <= 2
    BY VersionsAssumption
  <2>2. QED
    BY <2>1, ListNames
<1>3. TypeInv /\ RequestInv /\ TriedInv => ListedVersionAccepted
  <2> SUFFICES ASSUME TypeInv, RequestInv, TriedInv, NEW c \in Calls, NEW name \in tried[c],
                      verdict[c] = Refusal(name)
               PROVE  \E v \in MadeUp(versions(name)) : input[c].protocolVersions[name] = {v}
    BY DEF ListedVersionAccepted
  <2>1. name \in Names /\ pc[c] # "idle" /\ input[c] \in Arguments
    BY DEF TypeInv, Ranges, Begun, TriedInv, TriedCall
  <2>2. PICK v \in ExtensionList(versions(name)) :
            /\ input[c].headers[name] = {[api |-> PeerApi, version |-> v]}
            /\ input[c].protocolVersions[name] = {v}
    BY DEF TriedInv, TriedCall
  <2>3. verdict[c] = OnPostAuth(PeerRequest(input[c]))
    BY DEF RequestInv, RequestCall
  <2>4. v \notin versions(name)
    BY <1>1, <2>1, <2>2, <2>3
  <2>5. QED
    BY <1>2, <2>1, <2>2, <2>4
<1>4. QED
  BY <1>3, TypeCorrect, RequestsCorrect, PTL
=============================================================================

------------------------- MODULE HeaderTransformer -------------------------
(***************************************************************************)
(* transformHeaders of src/util/headers/transformer.js: the headers of a   *)
(* request that a service sends on, for itself or for the hub.             *)
(*                                                                         *)
(* A header value is a set: {} for none, {NoResource}, or {[api, version]} *)
(* for a media type of the API, in its FSPIOP or its ISO 20022 form, of    *)
(* the resource that the URL is about.  NoResource covers the media types  *)
(* that name no resource, which is also what makeAcceptContentTypeHeader   *)
(* makes of an undefined resource.                                         *)
(***************************************************************************)
EXTENDS Naturals, Sequences

CONSTANTS
    Hub,               \* the source that hubNameRegex matches
    ResourceVersions,  \* RESOURCE_VERSIONS: content versions of some resources
    NoResource

APITypes == {"fspiop", "iso20022"}

\* The format that parseResourceVersions demands begins with a number.
ASSUME ResourceVersionsAssumption ==
    \A r \in DOMAIN ResourceVersions : ResourceVersions[r] \in Seq(Nat) \ {<<>>}
ASSUME NoResourceAssumption == NoResource \notin [api: APITypes, version: Seq(Nat)]

\* Headers.DEFAULT_API_VERSIONS
DefaultAPIVersions ==
    [r \in {"parties", "participants", "quotes", "bulkQuotes", "bulkTransfers",
            "transactionRequests", "authorizations", "transfers", "custom", "thirdparty",
            "services"} |-> [content |-> <<1, 0>>, accept |-> <<1>>]]

DefaultFxVersions ==
    [r \in {"fxQuotes", "fxTransfers"} |-> [content |-> <<2, 0>>, accept |-> <<2>>]]

\* Mutant of resourceVersions: the Accept version is not cut to its first number.
resourceVersionsUncut ==
    [r \in DOMAIN ResourceVersions \cup DOMAIN DefaultAPIVersions \cup DOMAIN DefaultFxVersions |->
        IF r \in DOMAIN ResourceVersions
        THEN [content |-> ResourceVersions[r], accept |-> ResourceVersions[r]]
        ELSE IF r \in DOMAIN DefaultAPIVersions THEN DefaultAPIVersions[r]
        ELSE DefaultFxVersions[r]]

\* The defaults, replaced where RESOURCE_VERSIONS names the resource.
resourceVersions ==
    [r \in DOMAIN ResourceVersions \cup DOMAIN DefaultAPIVersions \cup DOMAIN DefaultFxVersions |->
        IF r \in DOMAIN ResourceVersions
        THEN [content |-> ResourceVersions[r], accept |-> <<Head(ResourceVersions[r])>>]
        ELSE IF r \in DOMAIN DefaultAPIVersions THEN DefaultAPIVersions[r]
        ELSE DefaultFxVersions[r]]

-----------------------------------------------------------------------------
(* The headers a caller passes, and the configuration sendRequest adds.    *)
(* Names in another case than the lower one are kept as they are.          *)

HeaderSets(values) ==
    [resource: STRING, accept: values, content: values,
     contentFirst: BOOLEAN,               \* the order of the two names in the object
     mixedCase: BOOLEAN,                  \* "Accept", "FSPIOP-Signature"
     date: {"absent", "malformed", "valid"},
     source: BOOLEAN,                     \* is there an fspiop-source?
     signature: {"none", "caller"}]

\* SwitchDefaultHeaders
SwitchDefaultHeaders(resource, version) ==
    LET mediaType == {[api |-> "fspiop", version |-> version]} IN
    [resource |-> resource, accept |-> mediaType, content |-> mediaType,
     contentFirst |-> FALSE, mixedCase |-> FALSE, date |-> "valid", source |-> TRUE,
     signature |-> "none"]

\* getResourceInfoFromHeader finds the resource in both forms of the media type.
HasResourceInfo(value) == value # {} /\ NoResource \notin value

\* resourceType, when the loop is at `name`: of the first of the two headers that has one.
ResourceKnown(headers, name) ==
    \/ HasResourceInfo(headers[name])
    \/ name = "accept"  /\ headers.contentFirst  /\ HasResourceInfo(headers.content)
    \/ name = "content" /\ ~headers.contentFirst /\ HasResourceInfo(headers.accept)

\* versions: protocolVersions[name], {} when it is not given.
UnknownVersion(headers, name, versions) ==
    /\ headers[name] # {} /\ ResourceKnown(headers, name)
    /\ versions[name] = {} /\ headers.resource \notin DOMAIN resourceVersions

\* makeAcceptContentTypeHeader with what the loop has found.
HubHeader(headers, name, config) ==
    IF headers[name] = {} THEN {}
    ELSE IF ~ResourceKnown(headers, name) THEN {NoResource}
    ELSE {[api |-> config.apiType, version |->
             IF config.protocolVersions[name] # {}
             THEN CHOOSE v \in config.protocolVersions[name] : TRUE
             ELSE resourceVersions[headers.resource][name]]}

\* resourceVersions[resourceType] is undefined, or no source header to match.
TransformThrows(headers, config) ==
    \/ /\ config.source = Hub
       /\ \E name \in {"accept", "content"} :
             UnknownVersion(headers, name, config.protocolVersions)
    \/ ~headers.source

\* Mutant of RemovesSignature: the signature is deleted under its lower-case name.
RemovesSignatureLowerCase(headers, config) == config.source = Hub /\ ~headers.mixedCase

RemovesSignature(headers, config) == config.source = Hub

\* Only under the lower-case name, and only when the method is written 'PUT'.
RemovesAccept(headers, config) == config.httpMethod = "PUT" /\ ~headers.mixedCase

\* transformHeaders.  Host and Content-Length are dropped, the destination and the HTTP
\* method are those of the configuration, a date is kept or rewritten as the same one.
TransformHeaders(headers, config) ==
    LET value(name) == IF config.source = Hub THEN HubHeader(headers, name, config)
                       ELSE headers[name]
    IN  [accept    |-> IF RemovesAccept(headers, config) THEN {} ELSE value("accept"),
         content   |-> value("content"),
         date      |-> headers.date,
         source    |-> config.source,
         signature |-> IF RemovesSignature(headers, config) THEN "none"
                       ELSE headers.signature]
=============================================================================

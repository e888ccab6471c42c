-------------------------- MODULE HeaderValidation --------------------------
(***************************************************************************)
(* The hapi plugin of src/util/hapi/plugins/headerValidation.js and the    *)
(* parsing of src/util/headerValidation/index.js, as operators: the        *)
(* onPostAuth extension lets a request continue or throws the first error  *)
(* it finds.  HttpExchange sends requests to a server that has the plugin. *)
(***************************************************************************)
EXTENDS Naturals, Sequences, FiniteSetsExt

CONSTANTS
    AcceptVersions,   \* supportedProtocolAcceptVersions
    ContentVersions,  \* supportedProtocolContentVersions
    Parties,          \* values of x-client-id and of the fspiop headers
    Malformed,        \* a header that does not match its regular expression
    Absent

\* A version is the sequence of its numbers: <<1>>, <<1, 0>>.  anyVersion is <<>>.
anyVersion == <<>>

ASSUME VersionsAssumption ==
    \A v \in AcceptVersions \cup ContentVersions : v \in Seq(Nat) /\ Len(v) <= 2
ASSUME AbsentAssumption == Absent \notin Parties
ASSUME MalformedAssumption == Malformed \notin Seq(Nat)

-----------------------------------------------------------------------------
(* Parsing.  Headers are reduced to what the checks tell apart.            *)

\* accept: absent ({}), malformed, or the versions of its comma-separated parts, where a
\* part without a version stands for anyVersion.  content-type: one version, which must
\* have a minor number.
Requests ==
    [listed: BOOLEAN,                       \* is the resource a configured one?
     initiates: BOOLEAN,                    \* is the method GET, POST or DELETE?
     accept: SUBSET ({Malformed} \cup Seq(Nat)),
     date:   {"absent", "malformed", "valid"},
     length: {"usual", "huge"},             \* content-length; no limit allows a huge one
     content: SUBSET ({Malformed} \cup Seq(Nat)),
     client: Parties \cup {Absent},         \* x-client-id
     source: Parties \cup {Absent},
     proxy:  Parties \cup {Absent}]

\* Mutant of ExtensionList: a missing minor number becomes 1.
ExtensionListMinorOne(supported) ==
    {<<v[1], IF Len(v) = 2 THEN v[2] ELSE 1>> : v \in supported \ {anyVersion}}

\* convertSupportedVersionToExtensionList: a missing minor number becomes 0.
ExtensionList(supported) ==
    {<<v[1], IF Len(v) = 2 THEN v[2] ELSE 0>> : v \in supported \ {anyVersion}}

-----------------------------------------------------------------------------
(* The checks of onPostAuth, in their order.                               *)

\* validateProxySourceHeaders
InvalidSource(r) ==
    /\ r.client # Absent
    /\ \/ r.proxy # Absent /\ (r.proxy # r.client \/ r.proxy = r.source)
       \/ r.proxy = Absent /\ r.source # r.client

\* MAX_CONTENT_LENGTH is imported from a module that does not export it: it is
\* undefined, and a comparison with undefined is false.
MaxContentLength == "undefined"
Exceeds(length, limit) == limit # "undefined" /\ length = "huge"

Errors(r) == <<
    <<InvalidSource(r),                                          "VALIDATION_ERROR">>,
    <<r.initiates /\ r.accept = {},                          "REQUIRE_ACCEPT_HEADER">>,
    <<Malformed \in r.accept,                                    "INVALID_ACCEPT_HEADER">>,
    <<r.accept # {} /\ r.accept \cap AcceptVersions = {},
                                                  "REQUESTED_VERSION_NOT_SUPPORTED">>,
    <<r.date = "absent",                                         "MISSING_DATE">>,
    <<r.date = "malformed",                                      "INVALID_DATE">>,
    <<Exceeds(r.length, MaxContentLength),                       "TOO_LARGE_PAYLOAD">>,
    <<r.content = {},                                            "REQUIRE_CONTENT_TYPE_HEADER">>,
    <<Malformed \in r.content,                                   "INVALID_CONTENT_TYPE_HEADER">>,
    <<r.content \cap ContentVersions = {},
                                                  "SUPPLIED_VERSION_NOT_SUPPORTED">> >>

OnPostAuth(r) ==
    LET found == {i \in DOMAIN Errors(r) : Errors(r)[i][1]}
    IN  IF ~r.listed \/ found = {} THEN "continue" ELSE Errors(r)[Min(found)][2]
=============================================================================

--------------------------- MODULE MCHttpExchange ---------------------------
EXTENDS HttpExchange, TLC

CONSTANTS c1, c2, dfsp, proxy

\* 1 without 1.0, the plugin's own example, and 3 without 3.0: the lists name 1.0 and 3.0.
PeerAccepts  == {<<1>>, <<1, 1>>, <<2>>, <<2, 0>>, anyVersion}
PeerContents == {<<1, 0>>, <<1, 1>>, <<2, 0>>, <<2, 1>>, <<3>>}
Overridden   == [r \in {"transfers"} |-> <<2, 1>>]

Media(api, version) == {[api |-> api, version |-> version]}

Values == {{}, {NoResource}, Media("fspiop", <<1, 1>>), Media("fspiop", <<1, 1, 0>>),
           Media("iso20022", <<3, 0>>)}

Headers == {h \in
    [resource: {"quotes", "fxQuotes", "transfers", "oracle"}, accept: Values, content: Values,
     contentFirst: BOOLEAN, mixedCase: BOOLEAN, date: {"valid", "absent"},
     source: BOOLEAN, signature: {"none", "caller"}] :
    /\ h.date = "absent" => h.accept = h.content /\ h.resource = "quotes"
    /\ h.signature = "none" => h.source /\ ~h.mixedCase
    /\ ~h.source => h.accept = h.content
    /\ h.accept # h.content => h.resource = "quotes"
    /\ h.accept = h.content => h.contentFirst
    /\ h.mixedCase \/ h.signature = "caller" =>
           h.accept = h.content /\ h.resource = "quotes"}

Default == [headers |-> SwitchDefaultHeaders("quotes", <<1, 0>>), method |-> "GET",
    source |-> Hub, protocolVersions |-> [accept |-> {}, content |-> {}],
    apiType |-> "fspiop", length |-> "usual", complete |-> TRUE, span |-> TRUE,
    signer |-> FALSE, client |-> Absent, proxy |-> Absent]

\* One call with every set of headers, for the hub and for a participant, and with the
\* other arguments varied one at a time; another that takes part in the race for a socket.
SomeInputs == (c1 :> (
    {[Default EXCEPT !.headers = h, !.source = s, !.method = m] :
        h \in Headers, s \in {Hub, dfsp}, m \in {"GET"}}
    \cup {[Default EXCEPT !.headers = h, !.method = m] :
        h \in {g \in Headers : g.accept = g.content /\ g.resource = "quotes"},
        m \in {"PUT", "put"}}
    \cup {[Default EXCEPT !.protocolVersions = [accept |-> a, content |-> v]] :
        a \in {{}, {<<3>>}}, v \in {{}, {<<3, 0>>}, {<<1>>}}}
    \cup {[Default EXCEPT !.complete = FALSE], [Default EXCEPT !.signer = TRUE],
          [Default EXCEPT !.apiType = "iso20022"], [Default EXCEPT !.length = "huge"],
          [Default EXCEPT !.client = dfsp],
          [Default EXCEPT !.client = proxy, !.proxy = proxy]}))
    @@ (c2 :> {Default, [Default EXCEPT !.span = FALSE]})
=============================================================================

--------------------------- MODULE MCMessageFlow ---------------------------
EXTENDS MessageFlow, TLC

Step(type, action, way) == [event |-> <<type, action>>, way |-> way]

\* One pair of every row of TopicMap, pairs outside of it, every way to produce, and
\* a third hop, at which a text that was sent on decoded twice is decoded again.
SomePlans == {
    <<Step("prepare", "bulk-prepare", "general"), Step("position", "prepare", "general")>>,
    <<Step("bulk-processing", "bulk-commit", "general"), Step("fulfil", "bulk-abort", "participant")>>,
    <<Step("transfer", "get", "general"), Step("notification", "commit", "override")>>,
    <<Step("position", "prepare", "general"), Step("notification", "abort", "general"),
      Step("notification", "abort", "override")>>}

\* A configuration that has a pair the map replaces, and lacks (transfer, get).
SomeConfigured == {<<"transfer", "prepare">>, <<"transfer", "position">>,
    <<"transfer", "fulfil">>, <<"bulk", "processing">>, <<"notification", "event">>,
    <<"position", "prepare">>}

Symmetric == Permutations(Requests)
=============================================================================

---------------------------- MODULE HealthCheck ----------------------------
(***************************************************************************)
(* HealthCheck of src/healthCheck/HealthCheck.js in a service that keeps   *)
(* its database in a KnexWrapper.  The checks are given by the service:    *)
(* one asks the wrapper whether it is connected, one sends it a query, one *)
(* asks a broker.                                                          *)
(***************************************************************************)
EXTENDS KnexWrapper

VARIABLES
    brokerUp,
    answers,  \* of the checks of a getHealth()
    health,   \* what it resolved with
    services, \* does it hold the answers of the checks?
    critical, \* the counter app_critical_total, by its label
    seenUp    \* history: the services that were up since a getHealth() was called
healthVars == <<brokerUp, answers, health, services, critical, seenUp>>
vars == <<knexVars, healthVars>>

Checks == {"connection", "datastore", "broker"}
Statuses == {"OK", "DOWN"}

TypeOK ==
    /\ KnexTypeOK
    /\ brokerUp \in BOOLEAN
    /\ answers \in [Healths -> [Checks -> Statuses \cup {None, "rejected"}]]
    /\ health \in [Healths -> Statuses \cup {None}] /\ services \in [Healths -> BOOLEAN]
    /\ critical \in [Checks \cup {"general"} -> Nat]
    /\ seenUp \in [Healths -> SUBSET Checks]

-----------------------------------------------------------------------------
(* getHealth.                                                              *)

\* The services that are up as things stand.  isConnected is right when a SELECT 1 has
\* succeeded and no disconnect() has resolved since; a query succeeds when MySQL runs it.
Up(h) ==
    {s \in Checks :
        \/ s = "connection" /\ reached
        \/ s = "datastore" /\ h \in queried
        \/ s = "broker" /\ brokerUp}

\* Promise.all calls every check.  The first one reads the flag at once.
GetHealth(h) ==
    /\ Call(h, "query")
    /\ answers' = [answers EXCEPT ![h].connection = IF isConnected THEN "OK" ELSE "DOWN"]
    /\ UNCHANGED <<brokerUp, health, services, critical>>

QueryChecked(h) ==
    /\ answers[h].datastore = None /\ pc[h] \in {"resolved", "rejected"}
    /\ answers' = [answers EXCEPT ![h].datastore = IF pc[h] = "resolved" THEN "OK" ELSE "rejected"]
    /\ UNCHANGED <<knexVars, brokerUp, health, services, critical>>

BrokerChecked(h) ==
    /\ pc[h] # "idle" /\ answers[h].broker = None
    /\ \E answer_ \in {IF brokerUp THEN "OK" ELSE "DOWN", "rejected"} :
          answers' = [answers EXCEPT ![h].broker = answer_]
    /\ UNCHANGED <<knexVars, brokerUp, health, services, critical>>

\* Mutant of EvaluateServiceHealth: the last service decides.
EvaluateServiceHealthLast(h) == answers[h].broker # "DOWN"

EvaluateServiceHealth(h) == \A s \in Checks : answers[h][s] # "DOWN"

\* setSubServiceMetrics and setGeneralMetrics.
Count(down, isHealthy) ==
    critical' = [label \in DOMAIN critical |->
        critical[label] + IF label \in down \/ (label = "general" /\ ~isHealthy) THEN 1 ELSE 0]

\* Every check has answered.
Fulfilled(h) ==
    /\ health[h] = None /\ \A s \in Checks : answers[h][s] \in Statuses
    /\ health' = [health EXCEPT ![h] = IF EvaluateServiceHealth(h) THEN "OK" ELSE "DOWN"]
    /\ services' = [services EXCEPT ![h] = TRUE]
    /\ Count({s \in Checks : answers[h][s] = "DOWN"}, EvaluateServiceHealth(h))
    /\ UNCHANGED <<knexVars, brokerUp, answers>>

\* A check rejects, whatever the others do: the answer has no services, and none is counted.
Rejected(h) ==
    /\ health[h] = None /\ \E s \in Checks : answers[h][s] = "rejected"
    /\ health' = [health EXCEPT ![h] = "DOWN"]
    /\ Count({}, FALSE)
    /\ UNCHANGED <<knexVars, brokerUp, answers, services>>

BrokerSwitch ==
    /\ brokerUp' = ~brokerUp
    /\ UNCHANGED <<knexVars, answers, health, services, critical>>

-----------------------------------------------------------------------------
Init ==
    /\ KnexInit
    /\ brokerUp \in BOOLEAN
    /\ answers = [h \in Healths |-> [s \in Checks |-> None]]
    /\ health = [h \in Healths |-> None] /\ services = [h \in Healths |-> FALSE]
    /\ critical = [label \in Checks \cup {"general"} |-> 0]
    /\ seenUp = [h \in Healths |-> {}]

\* What a getHealth() could have seen since it was called.
See == seenUp' = [h \in Healths |->
    IF pc'[h] = "idle" \/ health[h] # None THEN seenUp[h] ELSE seenUp[h] \cup Up(h) \cup Up(h)']

Next ==
    /\ process \notin {"exited", "forced"}
    /\ \/ KnexNext /\ UNCHANGED <<brokerUp, answers, health, services, critical>>
       \/ \E h \in Healths :
             GetHealth(h) \/ QueryChecked(h) \/ BrokerChecked(h) \/ Fulfilled(h) \/ Rejected(h)
       \/ BrokerSwitch
    /\ See

Spec == Init /\ [][Next]_vars

-----------------------------------------------------------------------------
(* Properties                                                              *)

\* The health is OK only if every service that was asked has been up at some time since
\* getHealth was called, be it that they never were at one time.
HealthIsRecent == \A h \in Healths : health[h] = "OK" => seenUp[h] = Checks

=============================================================================

--------------------------- MODULE DatabaseProofs ---------------------------
(* Theorems about the two parts that work on a database: the health check  *)
(* of a service with its KnexWrapper, for every set of calls and every     *)
(* number of retries and outages, and the duplicate check, for every set   *)
(* of calls, ids and hashes.                                               *)
EXTENDS DuplicateCheck, HealthCheck, SequenceTheorems, TLAPS

-----------------------------------------------------------------------------
(* The steps of the wrapper.                                               *)

CallStep(c) ==
    \/ Begin(c) \/ Connected(c) \/ NotConnected(c) \/ AttemptAgain(c)
    \/ ExecuteWithErrorCount(c) \/ Disconnected(c) \/ Executes(c) \/ Fails(c)

Errors == {"KnexTimeoutError", "ECONNREFUSED", "ER_LOCK_DEADLOCK", "ER_DUP_ENTRY", "destroyed"}

\* An error has one of the codes.
LEMMA CodeOf == ASSUME NEW error PROVE DefineErrorCode(error) \in Codes
<1>1. CASE error = "KnexTimeoutError"
  BY <1>1 DEF DefineErrorCode, Codes
<1>2. CASE error = "ECONNREFUSED"
  BY <1>2 DEF DefineErrorCode, Codes
<1>3. CASE error = "ER_LOCK_DEADLOCK"
  BY <1>3 DEF DefineErrorCode, Codes
<1>4. CASE error = "ER_DUP_ENTRY"
  BY <1>4 DEF DefineErrorCode, Codes
<1>5. CASE error \notin {"KnexTimeoutError", "ECONNREFUSED", "ER_LOCK_DEADLOCK", "ER_DUP_ENTRY"}
  <2>1. DefineErrorCode(error) = IF isConnected THEN "unknown_db_error" ELSE "not_connected"
    BY <1>5 DEF DefineErrorCode
  <2>2. QED
    BY <2>1 DEF Codes
<1>6. QED
  BY <1>1, <1>2, <1>3, <1>4, <1>5

\* What an error counts.
LEMMA Counted ==
    ASSUME KnexTypeOK, NEW c \in Calls, HandleError(c)
    PROVE  /\ errorCount' \in [Calls -> Seq(Counts)]
           /\ Len(errorCount'[c]) = Len(errorCount[c]) + 1
           /\ \A d \in Calls \ {c} : errorCount'[d] = errorCount[d]
           /\ pc' = [pc EXCEPT ![c] = "rejected"]
<1>1. PICK code \in {DefineErrorCode(answer[c]), "lost"} :
          /\ errorCount' = [errorCount EXCEPT ![c] = Append(@, code)]
          /\ pc' = [pc EXCEPT ![c] = "rejected"]
  BY DEF HandleError
<1>2. code \in Counts /\ errorCount[c] \in Seq(Counts)
  BY CodeOf DEF KnexTypeOK, Counts
<1>3. /\ Append(errorCount[c], code) \in Seq(Counts)
      /\ Len(Append(errorCount[c], code)) = Len(errorCount[c]) + 1
  BY <1>2
<1>4. QED
  BY <1>1, <1>3 DEF KnexTypeOK

\* A query of a health check, or another call, begins.
LEMMA CallType ==
    ASSUME KnexTypeOK, NEW c \in Calls, NEW what \in {"connect", "query", "disconnect"},
           Call(c, what)
    PROVE  KnexTypeOK'
  BY DEF Call, Ask, KnexTypeOK

\* A step of a call keeps the variables of the wrapper in their types.
LEMMA CallStepType ==
    ASSUME KnexTypeOK, NEW c \in Calls, CallStep(c)
    PROVE  KnexTypeOK'
<1> USE CallsAssumption, BoundsAssumption
<1>1. CASE Begin(c)
  BY <1>1, CallType DEF Begin
<1>2. CASE Connected(c)
  BY <1>2 DEF Connected, KnexTypeOK
<1>3. CASE NotConnected(c)
  <2>1. CASE attempt[c] < Retries
    <3>1. attempt[c] + 1 \in 0..Retries
      BY <2>1 DEF KnexTypeOK
    <3>2. QED
      BY <1>3, <2>1, <3>1 DEF NotConnected, KnexTypeOK
  <2>2. CASE ~(attempt[c] < Retries)
    <3>1. HandleError(c) /\ UNCHANGED <<attempt, answer>>
      BY <1>3, <2>2 DEF NotConnected
    <3>2. QED
      BY <1>3, <3>1, Counted DEF NotConnected, KnexTypeOK
  <2>3. QED
    BY <2>1, <2>2
<1>4. CASE AttemptAgain(c)
  BY <1>4 DEF AttemptAgain, Ask, KnexTypeOK
<1>5. CASE ExecuteWithErrorCount(c)
  <2>1. CASE answer[c] = "ok"
    BY <1>5, <2>1 DEF ExecuteWithErrorCount, KnexTypeOK
  <2>2. CASE answer[c] # "ok"
    <3>1. HandleError(c)
      BY <1>5, <2>2 DEF ExecuteWithErrorCount
    <3>2. QED
      BY <1>5, <3>1, Counted DEF ExecuteWithErrorCount, KnexTypeOK
  <2>3. QED
    BY <2>1, <2>2
<1>6. CASE Disconnected(c)
  BY <1>6 DEF Disconnected, KnexTypeOK
<1>7. CASE Executes(c)
  BY <1>7 DEF Executes, Answers, KnexTypeOK
<1>8. CASE Fails(c)
  <2>1. PICK error \in Errors : Answers(c, error) /\ UNCHANGED <<reached, queried>>
    BY <1>8 DEF Fails, Errors
  <2>2. answer' \in [Calls -> {None, "ok", "KnexTimeoutError", "ECONNREFUSED",
                               "ER_LOCK_DEADLOCK", "ER_DUP_ENTRY", "destroyed"}]
    BY <2>1 DEF Answers, KnexTypeOK, Errors
  <2>3. QED
    BY <2>1, <2>2 DEF Answers, KnexTypeOK
<1>9. QED
  BY <1>1, <1>2, <1>3, <1>4, <1>5, <1>6, <1>7, <1>8 DEF CallStep

\* So does every step of the wrapper.
LEMMA KnexTypeStep == KnexTypeOK /\ KnexNext => KnexTypeOK'
<1> SUFFICES ASSUME KnexTypeOK, KnexNext PROVE KnexTypeOK'
  OBVIOUS
<1>1. ASSUME NEW c \in Calls, CallStep(c) PROVE KnexTypeOK'
  BY <1>1, CallStepType
<1>2. CASE Exit
  BY <1>2 DEF Exit, RunHooks, KnexTypeOK
<1>3. CASE Exited
  BY <1>3 DEF Exited, KnexTypeOK
<1>4. CASE PoolDestroyed
  BY <1>4 DEF PoolDestroyed, KnexTypeOK
<1>5. CASE Outage
  <2>1. up => outages + 1 \in 0..MaxOutages
    BY <1>5, BoundsAssumption DEF Outage, KnexTypeOK
  <2>2. outages' \in 0..MaxOutages
    BY <1>5, <2>1 DEF Outage, KnexTypeOK
  <2>3. QED
    BY <1>5, <2>2 DEF Outage, KnexTypeOK
<1>6. QED
  BY <1>1, <1>2, <1>3, <1>4, <1>5 DEF KnexNext, CallStep

Own == <<brokerUp, answers, health, services, critical>>

\* A step of the service is one of the wrapper, or of a health check, or the broker's.
LEMMA StepIs ==
    ASSUME Next
    PROVE  /\ process \notin {"exited", "forced"} /\ See
           /\ \/ KnexNext /\ UNCHANGED Own
              \/ \E h \in Healths : /\ pc[h] = "idle" /\ Call(h, "query")
                                    /\ GetHealth(h)
              \/ UNCHANGED knexVars
<1>1. Next
  OBVIOUS
<1>2. QED
  BY <1>1 DEF Next, Own, GetHealth, Call, QueryChecked, BrokerChecked, Fulfilled, Rejected,
              BrokerSwitch

\* The variables of the wrapper keep their types.
LEMMA KnexTypeNext == KnexTypeOK /\ [Next]_vars => KnexTypeOK'
<1> SUFFICES ASSUME KnexTypeOK, [Next]_vars PROVE KnexTypeOK'
  OBVIOUS
<1>1. CASE UNCHANGED knexVars
  BY <1>1 DEF knexVars, KnexTypeOK
<1>2. CASE KnexNext
  BY <1>2, KnexTypeStep
<1>3. ASSUME NEW h \in Healths, Call(h, "query") PROVE KnexTypeOK'
  BY <1>3, CallsAssumption, CallType
<1>4. CASE UNCHANGED vars
  BY <1>1, <1>4 DEF vars
<1>5. QED
  BY <1>1, <1>2, <1>3, <1>4, StepIs

\* What the checks, and the counter, may hold.
HealthTypeOK ==
    /\ brokerUp \in BOOLEAN
    /\ answers \in [Healths -> [Checks -> Statuses \cup {None, "rejected"}]]
    /\ health \in [Healths -> Statuses \cup {None}] /\ services \in [Healths -> BOOLEAN]
    /\ critical \in [Checks \cup {"general"} -> Nat]
    /\ seenUp \in [Healths -> SUBSET Checks]

\* They keep their types.
LEMMA HealthTypeNext == HealthTypeOK /\ [Next]_vars => HealthTypeOK'
<1> SUFFICES ASSUME HealthTypeOK, [Next]_vars PROVE HealthTypeOK'
  OBVIOUS
<1> USE DEF HealthTypeOK, Checks, Statuses
<1>1. CASE UNCHANGED vars
  BY <1>1 DEF vars, healthVars
<1>2. CASE Next
  <2>1. seenUp' \in [Healths -> SUBSET Checks]
    <3>1. \A h \in Healths : Up(h) \subseteq Checks /\ Up(h)' \subseteq Checks
      BY DEF Up
    <3>2. See
      BY <1>2 DEF Next
    <3>3. QED
      BY <3>1, <3>2 DEF See
  <2>2. ASSUME NEW down, NEW isHealthy, Count(down, isHealthy)
        PROVE  critical' \in [Checks \cup {"general"} -> Nat]
    BY <2>2 DEF Count
  <2>3. CASE UNCHANGED Own
    BY <2>1, <2>3 DEF Own
  <2>4. ASSUME NEW h \in Healths, GetHealth(h) PROVE HealthTypeOK'
    BY <2>1, <2>4 DEF GetHealth
  <2>5. ASSUME NEW h \in Healths, QueryChecked(h) PROVE HealthTypeOK'
    BY <2>1, <2>5 DEF QueryChecked
  <2>6. ASSUME NEW h \in Healths, BrokerChecked(h) PROVE HealthTypeOK'
    BY <2>1, <2>6 DEF BrokerChecked
  <2>7. ASSUME NEW h \in Healths, Fulfilled(h) PROVE HealthTypeOK'
    BY <2>1, <2>2, <2>7 DEF Fulfilled
  <2>8. ASSUME NEW h \in Healths, Rejected(h) PROVE HealthTypeOK'
    BY <2>1, <2>2, <2>8 DEF Rejected
  <2>9. CASE BrokerSwitch
    BY <2>1, <2>9 DEF BrokerSwitch
  <2>10. QED
    BY <1>2, <2>3, <2>4, <2>5, <2>6, <2>7, <2>8, <2>9 DEF Next, Own
<1>3. QED
  BY <1>1, <1>2

\* The variables keep their types.
THEOREM TypeCorrect == Spec => []TypeOK
<1>1. Init => KnexTypeOK /\ HealthTypeOK
  <2> SUFFICES ASSUME Init PROVE KnexTypeOK /\ HealthTypeOK
    OBVIOUS
  <2>1. KnexTypeOK
    <3>1. 0 \in 0..Retries /\ 0 \in 0..MaxOutages /\ 0 \in Nat
      BY BoundsAssumption
    <3>2. <<>> \in Seq(Counts)
      OBVIOUS
    <3>3. errorCount \in [Calls -> Seq(Counts)]
      BY <3>2 DEF Init, KnexInit
    <3>4. QED
      BY <3>1, <3>3 DEF Init, KnexInit, KnexTypeOK
  <2>2. HealthTypeOK
    BY DEF Init, HealthTypeOK, Checks, Statuses
  <2>3. QED
    BY <2>1, <2>2
<1>2. KnexTypeOK /\ HealthTypeOK => TypeOK
  BY DEF HealthTypeOK, TypeOK
<1>3. QED
  BY <1>1, <1>2, KnexTypeNext, HealthTypeNext, PTL DEF Spec

-----------------------------------------------------------------------------
(* The pool, and the errors that are counted.                              *)

\* A wrapper that says it is connected has an exit hook; a process that waits for its hooks
\* has run them.
HookInv ==
    /\ isConnected => hooks > 0
    /\ process = "exiting" => pool # "open"

\* What a call has counted.
CountCall(c) ==
    /\ pc[c] = "idle" => errorCount[c] = <<>>
    /\ pc[c] = "destroying" => kind[c] = "disconnect"
    /\ kind[c] \in {"connect", "query"} =>
          Len(errorCount[c]) = IF pc[c] = "rejected" THEN 1 ELSE 0
CountInv == \A c \in Calls : CountCall(c)

\* A step that leaves the wrapper to exit, and its flag.
LEMMA HookStep ==
    KnexTypeOK /\ HookInv /\ PoolClosedAtExit /\ [Next]_vars => HookInv' /\ PoolClosedAtExit'
<1> SUFFICES ASSUME KnexTypeOK, HookInv, PoolClosedAtExit, [Next]_vars
             PROVE  HookInv' /\ PoolClosedAtExit'
  OBVIOUS
<1> USE DEF KnexTypeOK, HookInv, PoolClosedAtExit
<1>1. CASE UNCHANGED knexVars
  BY <1>1 DEF knexVars
<1>2. ASSUME process \notin {"exited", "forced"}, KnexNext PROVE HookInv' /\ PoolClosedAtExit'
  <2>1. ASSUME NEW c \in Calls, CallStep(c) PROVE HookInv' /\ process' = process
    <3>1. CASE Connected(c)
      BY <3>1 DEF Connected
    <3>2. CASE Disconnected(c)
      BY <3>2 DEF Disconnected
    <3>3. CASE /\ UNCHANGED <<isConnected, hooks, process>>
               /\ pool' = pool \/ pool' = "destroying"
      BY <3>3
    <3>4. QED
      BY <2>1, <3>1, <3>2, <3>3 DEF CallStep, Begin, Call, NotConnected, AttemptAgain,
         ExecuteWithErrorCount, Executes, Fails, Answers
  <2>2. CASE Exit
    BY <2>2 DEF Exit, RunHooks
  <2>3. CASE Exited
    BY <2>3 DEF Exited, CalledBack
  <2>4. CASE PoolDestroyed
    BY <2>4 DEF PoolDestroyed
  <2>5. CASE Outage
    BY <2>5 DEF Outage
  <2>6. QED
    BY <1>2, <2>1, <2>2, <2>3, <2>4, <2>5 DEF KnexNext, CallStep
<1>3. ASSUME NEW h \in Healths, Call(h, "query") PROVE HookInv' /\ PoolClosedAtExit'
  BY <1>3 DEF Call
<1>4. CASE UNCHANGED vars
  BY <1>1, <1>4 DEF vars
<1>5. QED
  BY <1>1, <1>2, <1>3, <1>4, StepIs

\* A connected service that has exited has closed its pool, or has begun to when the exit was
\* forced.
THEOREM ExitCorrect == Spec => []PoolClosedAtExit
<1>1. Init => HookInv /\ PoolClosedAtExit
  BY DEF Init, KnexInit, HookInv, PoolClosedAtExit
<1>2. TypeOK => KnexTypeOK
  BY DEF TypeOK
<1>3. QED
  BY <1>1, <1>2, HookStep, TypeCorrect, PTL DEF Spec

\* A step of a call leaves the others alone.
LEMMA KnexOthers ==
    ASSUME KnexTypeOK, NEW c \in Calls, CallStep(c), NEW d \in Calls, d # c
    PROVE  /\ pc'[d] = pc[d] /\ kind'[d] = kind[d] /\ answer'[d] = answer[d]
           /\ errorCount'[d] = errorCount[d]
<1>1. CASE Begin(c)
  BY <1>1 DEF Begin, Call, Ask, KnexTypeOK
<1>2. CASE Connected(c)
  BY <1>2 DEF Connected, KnexTypeOK
<1>3. CASE NotConnected(c)
  BY <1>3 DEF NotConnected, HandleError, KnexTypeOK
<1>4. CASE AttemptAgain(c)
  BY <1>4 DEF AttemptAgain, Ask, KnexTypeOK
<1>5. CASE ExecuteWithErrorCount(c)
  BY <1>5 DEF ExecuteWithErrorCount, HandleError, KnexTypeOK
<1>6. CASE Disconnected(c)
  BY <1>6 DEF Disconnected, KnexTypeOK
<1>7. CASE Executes(c)
  BY <1>7 DEF Executes, Answers, KnexTypeOK
<1>8. CASE Fails(c)
  BY <1>8 DEF Fails, Answers, KnexTypeOK
<1>9. QED
  BY <1>1, <1>2, <1>3, <1>4, <1>5, <1>6, <1>7, <1>8 DEF CallStep

\* The beginning of a call has counted nothing.
LEMMA CountBegins ==
    ASSUME KnexTypeOK, NEW c \in Calls, NEW what \in {"connect", "query", "disconnect"},
           Call(c, what), NEW d \in Calls, CountCall(d)
    PROVE  CountCall(d)'
<1>1. errorCount[d] = <<>> => Len(errorCount[d]) = 0
  BY EmptySeq
<1>2. QED
  BY <1>1 DEF Call, CountCall, KnexTypeOK

\* A call counts an error when it rejects, and only then.
LEMMA CountStep ==
    ASSUME KnexTypeOK, NEW c \in Calls, CallStep(c), CountCall(c)
    PROVE  CountCall(c)'
<1>1. CASE Begin(c)
  BY <1>1, CountBegins DEF Begin
<1>2. CASE Connected(c)
  BY <1>2 DEF Connected, Answered, CountCall, KnexTypeOK
<1>3. CASE NotConnected(c)
  <2>1. CASE attempt[c] < Retries
    BY <1>3, <2>1 DEF NotConnected, Answered, CountCall, KnexTypeOK
  <2>2. CASE ~(attempt[c] < Retries)
    <3>1. HandleError(c) /\ kind'[c] = kind[c] /\ pc[c] = "asked" /\ kind[c] = "connect"
      BY <1>3, <2>2 DEF NotConnected, Answered
    <3>2. Len(errorCount'[c]) = Len(errorCount[c]) + 1 /\ pc'[c] = "rejected"
      BY <3>1, Counted DEF KnexTypeOK
    <3>3. Len(errorCount[c]) = 0
      BY <3>1 DEF CountCall
    <3>4. QED
      BY <3>1, <3>2, <3>3 DEF CountCall
  <2>3. QED
    BY <2>1, <2>2
<1>4. CASE AttemptAgain(c)
  BY <1>4 DEF AttemptAgain, CountCall, KnexTypeOK
<1>5. CASE ExecuteWithErrorCount(c)
  <2>1. CASE answer[c] = "ok"
    BY <1>5, <2>1 DEF ExecuteWithErrorCount, Answered, CountCall, KnexTypeOK
  <2>2. CASE answer[c] # "ok"
    <3>1. HandleError(c) /\ kind'[c] = kind[c] /\ pc[c] = "asked" /\ kind[c] = "query"
      BY <1>5, <2>2 DEF ExecuteWithErrorCount, Answered
    <3>2. Len(errorCount'[c]) = Len(errorCount[c]) + 1 /\ pc'[c] = "rejected"
      BY <3>1, Counted DEF KnexTypeOK
    <3>3. Len(errorCount[c]) = 0
      BY <3>1 DEF CountCall
    <3>4. QED
      BY <3>1, <3>2, <3>3 DEF CountCall
  <2>3. QED
    BY <2>1, <2>2
<1>6. CASE Disconnected(c)
  BY <1>6 DEF Disconnected, CountCall, KnexTypeOK
<1>7. CASE Executes(c)
  BY <1>7 DEF Executes, Answers, CountCall, KnexTypeOK
<1>8. CASE Fails(c)
  BY <1>8 DEF Fails, Answers, CountCall, KnexTypeOK
<1>9. QED
  BY <1>1, <1>2, <1>3, <1>4, <1>5, <1>6, <1>7, <1>8 DEF CallStep

\* However many attempts fail, a call counts one error when it rejects, and none otherwise.
THEOREM CountsCorrect == Spec => []FailuresCounted
<1>1. Init => CountInv
  BY EmptySeq DEF Init, KnexInit, CountInv, CountCall
<1>2. KnexTypeOK /\ CountInv /\ [Next]_vars => CountInv'
  <2> SUFFICES ASSUME KnexTypeOK, CountInv, [Next]_vars, NEW d \in Calls PROVE CountCall(d)'
    BY DEF CountInv
  <2>0. \A c \in Calls : CountCall(c)
    BY DEF CountInv
  <2>1. CASE UNCHANGED knexVars
    BY <2>0, <2>1 DEF knexVars, CountCall
  <2>2. ASSUME NEW c \in Calls, CallStep(c) PROVE CountCall(d)'
    <3>1. CASE d = c
      BY <2>0, <2>2, <3>1, CountStep
    <3>2. CASE d # c
      BY <2>0, <2>2, <3>2, KnexOthers DEF CountCall
    <3>3. QED
      BY <3>1, <3>2
  <2>3. CASE Exit \/ Exited \/ PoolDestroyed \/ Outage
    BY <2>0, <2>3 DEF Exit, Exited, PoolDestroyed, Outage, CountCall
  <2>4. ASSUME NEW h \in Healths, Call(h, "query") PROVE CountCall(d)'
    BY <2>0, <2>4, CallsAssumption, CountBegins
  <2>5. CASE UNCHANGED vars
    BY <2>1, <2>5 DEF vars
  <2>6. QED
    BY <2>1, <2>2, <2>3, <2>4, <2>5, StepIs DEF KnexNext, CallStep
<1>3. CountInv => FailuresCounted
  BY DEF CountInv, CountCall, FailuresCounted
<1>4. TypeOK => KnexTypeOK
  BY DEF TypeOK
<1>5. QED
  BY <1>1, <1>2, <1>3, <1>4, TypeCorrect, PTL DEF Spec

-----------------------------------------------------------------------------
(* What a health check has seen.                                           *)

\* What a call may have in hand: a connect() that has succeeded keeps the pool from being
\* destroyed until it has said so, and has reached the database if no disconnect() came
\* between; a query that MySQL has not answered has not resolved.
ReachCall(c) ==
    /\ pc[c] \in {"idle", "waiting"} => answer[c] = None
    /\ pc[c] = "asked" /\ answer[c] = "ok" =>
          /\ pool # "destroyed"
          /\ kind[c] = "connect" => reached
    /\ kind[c] = "query" /\ pc[c] = "resolved" => answer[c] = "ok"
    /\ answer[c] = "ok" => c \in queried
    /\ pc[c] = "destroying" => kind[c] = "disconnect"
    /\ c \in Healths => kind[c] = IF pc[c] = "idle" THEN None ELSE "query"
ReachInv == (isConnected => reached) /\ \A c \in Calls : ReachCall(c)

\* The beginning of a call changes nothing of that.
LEMMA ReachBegins ==
    ASSUME KnexTypeOK, ReachInv, NEW c \in Calls,
           NEW what \in {"connect", "query", "disconnect"},
           Call(c, what), c \in Healths => what = "query"
    PROVE  ReachInv'
<1>1. isConnected' => reached'
  BY DEF ReachInv, Call
<1>2. /\ pc' = [pc EXCEPT ![c] = IF what = "disconnect" THEN "destroying" ELSE "asked"]
      /\ kind' = [kind EXCEPT ![c] = what] /\ pc[c] = "idle"
      /\ pool' # "destroyed" \/ pool = "destroyed"
      /\ \A d \in Calls : d # c => answer'[d] = answer[d]
      /\ answer'[c] \in {answer[c], None, "destroyed"}
      /\ UNCHANGED <<reached, queried>>
  BY DEF Call, Ask, KnexTypeOK
<1>3. ASSUME NEW d \in Calls PROVE ReachCall(d)'
  <2>1. ReachCall(d)
    BY DEF ReachInv
  <2>2. CASE d = c
    <3>1. answer'[c] # "ok"
      BY <1>2, <2>1, <2>2, NoneAssumption DEF ReachCall
    <3>2. /\ pc'[c] \in {"destroying", "asked"} /\ kind'[c] = what
          /\ pc'[c] = "destroying" => what = "disconnect"
      BY <1>2 DEF KnexTypeOK
    <3>3. QED
      BY <2>2, <3>1, <3>2 DEF ReachCall
  <2>3. CASE d # c
    <3>1. pc'[d] = pc[d] /\ kind'[d] = kind[d] /\ answer'[d] = answer[d]
      BY <1>2, <2>3 DEF KnexTypeOK
    <3>2. QED
      BY <1>2, <2>1, <3>1 DEF ReachCall
  <2>4. QED
    BY <2>2, <2>3
<1>4. QED
  BY <1>1, <1>3 DEF ReachInv

\* A step of a call keeps it right for that call.
LEMMA ReachSelf ==
    ASSUME KnexTypeOK, ReachInv, NEW c \in Calls, CallStep(c), ~Begin(c)
    PROVE  ReachCall(c)'
<1>0. ReachCall(c)
  BY DEF ReachInv
<1> USE NoneAssumption DEF ReachCall, KnexTypeOK, Answered
<1>1. CASE Connected(c)
  BY <1>0, <1>1 DEF Connected
<1>2. CASE NotConnected(c)
  BY <1>0, <1>2 DEF NotConnected, HandleError
<1>3. CASE AttemptAgain(c)
  BY <1>0, <1>3 DEF AttemptAgain, Ask
<1>4. CASE ExecuteWithErrorCount(c)
  BY <1>0, <1>4 DEF ExecuteWithErrorCount, HandleError
<1>5. CASE Disconnected(c)
  BY <1>0, <1>5 DEF Disconnected
<1>6. CASE Executes(c)
  BY <1>0, <1>6 DEF Executes, Answers
<1>7. CASE Fails(c)
  <2>1. PICK error \in Errors : Answers(c, error) /\ UNCHANGED <<reached, queried>>
    BY <1>7 DEF Fails, Errors
  <2>2. error # "ok"
    BY DEF Errors
  <2>3. QED
    BY <1>0, <2>1, <2>2 DEF Answers
<1>8. QED
  BY <1>1, <1>2, <1>3, <1>4, <1>5, <1>6, <1>7 DEF CallStep

\* A step of a call keeps it right for the others: only a disconnect() forgets that the
\* database was reached, when the pool is destroyed.
LEMMA ReachOthers ==
    ASSUME KnexTypeOK, ReachInv, NEW c \in Calls, CallStep(c), ~Begin(c),
           NEW d \in Calls, d # c
    PROVE  ReachCall(d)'
<1>0. ReachCall(d)
  BY DEF ReachInv
<1>1. /\ pc'[d] = pc[d] /\ kind'[d] = kind[d] /\ answer'[d] = answer[d]
  BY KnexOthers
<1>2. pool' = pool /\ queried \subseteq queried'
  BY DEF CallStep, Connected, NotConnected, AttemptAgain, ExecuteWithErrorCount, Disconnected,
     Executes, Fails, Answers
<1>3. CASE Disconnected(c)
  <2>1. pool = "destroyed"
    BY <1>3 DEF Disconnected
  <2>2. QED
    BY <1>0, <1>1, <1>2, <2>1 DEF ReachCall
<1>4. CASE ~Disconnected(c)
  <2>1. reached => reached'
    BY <1>4 DEF CallStep, Connected, NotConnected, AttemptAgain, ExecuteWithErrorCount,
       Executes, Fails
  <2>2. QED
    BY <1>0, <1>1, <1>2, <2>1 DEF ReachCall
<1>5. QED
  BY <1>3, <1>4

\* A wrapper that says it is connected has reached the database.
LEMMA FlagStep ==
    ASSUME KnexTypeOK, ReachInv, NEW c \in Calls, CallStep(c), ~Begin(c)
    PROVE  isConnected' => reached'
<1>0. ReachCall(c) /\ (isConnected => reached)
  BY DEF ReachInv
<1>1. CASE Connected(c)
  BY <1>0, <1>1 DEF Connected, Answered, ReachCall
<1>2. CASE Disconnected(c)
  BY <1>0, <1>2 DEF Disconnected
<1>3. CASE Executes(c)
  BY <1>0, <1>3 DEF Executes, Answers
<1>4. CASE UNCHANGED <<isConnected, reached>>
  BY <1>0, <1>4
<1>5. QED
  BY <1>1, <1>2, <1>3, <1>4 DEF CallStep, NotConnected, AttemptAgain, ExecuteWithErrorCount,
     Fails, Answers

\* Every step keeps what calls have in hand.
LEMMA ReachStep == KnexTypeOK /\ ReachInv /\ [Next]_vars => ReachInv'
<1> SUFFICES ASSUME KnexTypeOK, ReachInv, [Next]_vars PROVE ReachInv'
  OBVIOUS
<1>1. CASE UNCHANGED knexVars
  BY <1>1 DEF knexVars, ReachInv, ReachCall
<1>2. ASSUME NEW c \in Calls, CallStep(c) PROVE ReachInv'
  <2>1. CASE Begin(c)
    BY <2>1, ReachBegins DEF Begin
  <2>2. CASE ~Begin(c)
    BY <1>2, <2>2, FlagStep, ReachSelf, ReachOthers DEF ReachInv
  <2>3. QED
    BY <2>1, <2>2
<1>3. CASE PoolDestroyed
  <2>1. \A c \in Calls : ~(pc[c] = "asked" /\ answer[c] = "ok")
    BY <1>3, NoneAssumption DEF PoolDestroyed, Answered
  <2>2. UNCHANGED <<isConnected, reached, pc, kind, answer, queried>>
    BY <1>3 DEF PoolDestroyed
  <2>3. QED
    BY <2>1, <2>2 DEF ReachInv, ReachCall
<1>4. CASE Exit \/ Exited \/ Outage
  <2>1. /\ UNCHANGED <<isConnected, reached, pc, kind, answer, queried>>
        /\ pool' = "destroyed" => pool = "destroyed"
    BY <1>4 DEF Exit, RunHooks, Exited, Outage
  <2>2. QED
    BY <2>1 DEF ReachInv, ReachCall
<1>5. ASSUME NEW h \in Healths, Call(h, "query") PROVE ReachInv'
  BY <1>5, CallsAssumption, ReachBegins
<1>6. CASE UNCHANGED vars
  BY <1>1, <1>6 DEF vars
<1>7. QED
  BY <1>1, <1>2, <1>3, <1>4, <1>5, <1>6, StepIs DEF KnexNext, CallStep

\* A service that has answered OK was up at some time since the health check began.
SeenHealth(h) ==
    /\ health[h] = None => \A s \in Checks : answers[h][s] = "OK" => s \in seenUp[h]
    /\ health[h] = "OK" => seenUp[h] = Checks
SeenInv == \A h \in Healths : SeenHealth(h)

\* What was seen is kept, and grows by what is up while the health check is under way.
LEMMA Sees ==
    ASSUME KnexTypeOK, HealthTypeOK, See, NEW h \in Healths
    PROVE  /\ seenUp[h] \subseteq seenUp'[h] /\ seenUp'[h] \subseteq Checks
           /\ pc'[h] # "idle" /\ health[h] = None => Up(h) \subseteq seenUp'[h]
<1>1. Up(h) \subseteq Checks /\ Up(h)' \subseteq Checks
  BY DEF Up, Checks
<1>2. QED
  BY <1>1 DEF See, HealthTypeOK

\* Every step keeps what health checks have seen.
LEMMA SeenStep ==
    ASSUME KnexTypeOK, HealthTypeOK, ReachInv, SeenInv, Next, NEW d \in Healths
    PROVE  SeenHealth(d)'
<1>0. SeenHealth(d) /\ See /\ d \in Calls /\ ReachCall(d) /\ (isConnected => reached)
  BY CallsAssumption DEF SeenInv, Next, ReachInv
<1>1. /\ seenUp[d] \subseteq seenUp'[d] /\ seenUp'[d] \subseteq Checks
      /\ pc'[d] # "idle" /\ health[d] = None => Up(d) \subseteq seenUp'[d]
  BY <1>0, Sees
<1>2. CASE answers'[d] = answers[d] /\ health'[d] = health[d]
  BY <1>0, <1>1, <1>2 DEF SeenHealth
<1>3. CASE GetHealth(d)
  <2>1. /\ answers' = [answers EXCEPT ![d].connection = IF isConnected THEN "OK" ELSE "DOWN"]
        /\ UNCHANGED health /\ pc'[d] = "asked"
    BY <1>0, <1>3 DEF GetHealth, Call, KnexTypeOK
  <2>2. answers'[d].connection = "OK" => isConnected
    BY <2>1 DEF HealthTypeOK, Checks
  <2>3. \A s \in Checks \ {"connection"} : answers'[d][s] = answers[d][s]
    BY <2>1 DEF HealthTypeOK
  <2>4. isConnected => "connection" \in Up(d)
    BY <1>0 DEF Up, Checks
  <2>5. QED
    BY <1>0, <1>1, <2>1, <2>2, <2>3, <2>4 DEF SeenHealth
<1>4. CASE QueryChecked(d)
  <2>1. /\ answers' = [answers EXCEPT ![d].datastore =
                           IF pc[d] = "resolved" THEN "OK" ELSE "rejected"]
        /\ UNCHANGED health /\ pc[d] # "idle" /\ pc'[d] = pc[d]
    BY <1>4 DEF QueryChecked, knexVars
  <2>2. answers'[d].datastore = "OK" => d \in queried
    BY <1>0, <2>1 DEF HealthTypeOK, Checks, ReachCall
  <2>3. \A s \in Checks \ {"datastore"} : answers'[d][s] = answers[d][s]
    BY <2>1 DEF HealthTypeOK
  <2>4. d \in queried => "datastore" \in Up(d)
    BY DEF Up, Checks
  <2>5. QED
    BY <1>0, <1>1, <2>1, <2>2, <2>3, <2>4 DEF SeenHealth
<1>5. CASE BrokerChecked(d)
  <2>1. /\ \E answer_ \in {IF brokerUp THEN "OK" ELSE "DOWN", "rejected"} :
               answers' = [answers EXCEPT ![d].broker = answer_]
        /\ UNCHANGED health /\ pc[d] # "idle" /\ pc'[d] = pc[d]
    BY <1>5 DEF BrokerChecked, knexVars
  <2>2. answers'[d].broker = "OK" => brokerUp
    BY <2>1 DEF HealthTypeOK, Checks
  <2>3. \A s \in Checks \ {"broker"} : answers'[d][s] = answers[d][s]
    BY <2>1 DEF HealthTypeOK
  <2>4. brokerUp => "broker" \in Up(d)
    BY DEF Up, Checks
  <2>5. QED
    BY <1>0, <1>1, <2>1, <2>2, <2>3, <2>4 DEF SeenHealth
<1>6. CASE Fulfilled(d)
  <2>1. /\ health[d] = None /\ \A s \in Checks : answers[d][s] \in Statuses
        /\ health'[d] = IF EvaluateServiceHealth(d) THEN "OK" ELSE "DOWN"
    BY <1>6 DEF Fulfilled, HealthTypeOK
  <2>2. health'[d] = "OK" => \A s \in Checks : answers[d][s] = "OK"
    BY <2>1 DEF EvaluateServiceHealth, Statuses
  <2>3. health'[d] # None
    BY <2>1, NoneAssumption
  <2>4. QED
    BY <1>0, <1>1, <2>1, <2>2, <2>3 DEF SeenHealth
<1>7. CASE Rejected(d)
  <2>1. health'[d] = "DOWN"
    BY <1>7 DEF Rejected, HealthTypeOK
  <2>2. QED
    BY <2>1, NoneAssumption DEF SeenHealth
<1>8. ASSUME NEW h \in Healths, h # d,
             GetHealth(h) \/ QueryChecked(h) \/ BrokerChecked(h) \/ Fulfilled(h) \/ Rejected(h)
      PROVE  answers'[d] = answers[d] /\ health'[d] = health[d]
  BY <1>8 DEF GetHealth, QueryChecked, BrokerChecked, Fulfilled, Rejected, HealthTypeOK
<1>9. CASE KnexNext /\ UNCHANGED Own
  BY <1>2, <1>9 DEF Own
<1>10. CASE BrokerSwitch
  BY <1>2, <1>10 DEF BrokerSwitch
<1>11. QED
  BY <1>2, <1>3, <1>4, <1>5, <1>6, <1>7, <1>8, <1>9, <1>10 DEF Next, Own

\* The health is OK only if every service that was asked has been up at some time since
\* getHealth was called.
THEOREM HealthCorrect == Spec => []HealthIsRecent
<1>1. Init => ReachInv
  BY NoneAssumption DEF Init, KnexInit, ReachInv, ReachCall
<1>2. Init => SeenInv
  BY NoneAssumption DEF Init, SeenInv, SeenHealth, Checks
<1>3. KnexTypeOK /\ HealthTypeOK /\ ReachInv /\ SeenInv /\ [Next]_vars => SeenInv'
  <2>1. UNCHANGED vars /\ SeenInv => SeenInv'
    BY DEF vars, healthVars, SeenInv, SeenHealth
  <2>2. QED
    BY <2>1, SeenStep DEF SeenInv
<1>4. SeenInv => HealthIsRecent
  BY DEF SeenInv, SeenHealth, HealthIsRecent
<1>5. TypeOK => KnexTypeOK /\ HealthTypeOK
  BY DEF TypeOK, HealthTypeOK
<1>6. QED
  BY <1>1, <1>2, <1>3, <1>4, <1>5, ReachStep, TypeCorrect, PTL DEF Spec

-----------------------------------------------------------------------------
(* The duplicate check.                                                    *)

\* The variables keep their types.
THEOREM ComparatorTypeCorrect == ComparatorSpec => []ComparatorTypeOK
<1>1. ComparatorInit => ComparatorTypeOK
  BY DEF ComparatorInit, ComparatorTypeOK, Missing
<1>2. ComparatorTypeOK /\ [ComparatorNext]_comparatorVars => ComparatorTypeOK'
  <2> SUFFICES ASSUME ComparatorTypeOK, [ComparatorNext]_comparatorVars PROVE ComparatorTypeOK'
    OBVIOUS
  <2> USE MissAssumption DEF ComparatorTypeOK, Missing, Goto
  <2>1. ASSUME NEW c \in Comparisons, NullArgument(c) PROVE ComparatorTypeOK'
    BY <2>1 DEF NullArgument
  <2>2. ASSUME NEW c \in Comparisons, NEW i \in Ids, NEW h \in Hashes,
               DuplicateCheckComparator(c, i, h)
        PROVE ComparatorTypeOK'
    BY <2>2 DEF DuplicateCheckComparator
  <2>3. ASSUME NEW c \in Comparisons, Found(c) PROVE ComparatorTypeOK'
    BY <2>3 DEF Found
  <2>4. ASSUME NEW c \in Comparisons, NEW m \in Misses, NotFound(c, m) PROVE ComparatorTypeOK'
    BY <2>4 DEF NotFound
  <2>5. ASSUME NEW c \in Comparisons, Save(c) PROVE ComparatorTypeOK'
    BY <2>5 DEF Save
  <2>6. ASSUME NEW c \in Comparisons, SaveConflicts(c) PROVE ComparatorTypeOK'
    BY <2>6 DEF SaveConflicts
  <2>7. ASSUME NEW c \in Comparisons, TableFails(c) PROVE ComparatorTypeOK'
    BY <2>7 DEF TableFails
  <2>8. CASE UNCHANGED comparatorVars
    BY <2>8 DEF comparatorVars
  <2>9. QED
    BY <2>1, <2>2, <2>3, <2>4, <2>5, <2>6, <2>7, <2>8 DEF ComparatorNext
<1>3. QED
  BY <1>1, <1>2, PTL DEF ComparatorSpec

-----------------------------------------------------------------------------
\* Whatever saveHashFunc does on conflict: a call that resolved left a row behind;
\* one that is to save found none, so nothing had resolved on its id before it began.
LookupInv ==
    /\ \A c \in Comparisons :
          /\ stage[c] \in {"new", "lookup", "save"} => record[c] = "null" /\ ~saved[c]
          /\ stage[c] = "new" => earlier[c] = {}
          /\ stage[c] = "resolved" =>
                table[id[c]] # Absent /\ record[c] \in Hashes \cup {"null"}
    /\ \A c, d \in Comparisons : c \in earlier[d] =>
          /\ stage[c] = "resolved"
          /\ id[c] = id[d] => stage[d] # "save"
    /\ LaterIsDuplicate

\* Without overwriting: rows are final, so every verdict refers to the same hash.
RowInv ==
    /\ NoOverwrite =>
          \A c \in Comparisons :
             /\ First(c) => table[id[c]] = hash[c]
             /\ HasDuplicateId(c) => table[id[c]] = record[c]
    /\ OneFirst

\* A save that never resolves false: what is not a duplicate was saved.
SavedInv ==
    "false" \notin onConflict =>
        \A c \in Comparisons : stage[c] = "resolved" /\ ~HasDuplicateId(c) => saved[c]

\* A step keeps LookupInv.
LEMMA LookupStep == ComparatorTypeOK /\ LookupInv /\ [ComparatorNext]_comparatorVars => LookupInv'
<1> SUFFICES ASSUME ComparatorTypeOK, LookupInv, [ComparatorNext]_comparatorVars PROVE LookupInv'
  OBVIOUS
<1> USE AbsentAssumption, MissAssumption
    DEF ComparatorTypeOK, LookupInv, LaterIsDuplicate, HasDuplicateId, Missing, Goto
<1>1. ASSUME NEW c \in Comparisons, NullArgument(c) PROVE LookupInv'
  BY <1>1 DEF NullArgument
<1>2. ASSUME NEW c \in Comparisons, NEW i \in Ids, NEW h \in Hashes,
             DuplicateCheckComparator(c, i, h)
      PROVE LookupInv'
  BY <1>2 DEF DuplicateCheckComparator
<1>3. ASSUME NEW c \in Comparisons, Found(c) PROVE LookupInv'
  BY <1>3 DEF Found
<1>4. ASSUME NEW c \in Comparisons, NEW m \in Misses, NotFound(c, m) PROVE LookupInv'
  BY <1>4 DEF NotFound
<1>5. ASSUME NEW c \in Comparisons, Save(c) PROVE LookupInv'
  BY <1>5 DEF Save
<1>6. ASSUME NEW c \in Comparisons, SaveConflicts(c) PROVE LookupInv'
  BY <1>6 DEF SaveConflicts
<1>7. ASSUME NEW c \in Comparisons, TableFails(c) PROVE LookupInv'
  BY <1>7 DEF TableFails
<1>8. CASE UNCHANGED comparatorVars
  BY <1>8 DEF comparatorVars
<1>9. QED
  BY <1>1, <1>2, <1>3, <1>4, <1>5, <1>6, <1>7, <1>8 DEF ComparatorNext

\* The invariant behind LaterIsDuplicate, in every reachable state.
THEOREM LaterCorrect == ComparatorSpec => [](ComparatorTypeOK /\ LookupInv)
<1>1. ComparatorInit => LookupInv
  BY DEF ComparatorInit, LookupInv, LaterIsDuplicate
<1>2. QED
  BY <1>1, LookupStep, ComparatorTypeCorrect, PTL DEF ComparatorSpec

\* A message checked after another of its id was reported is a duplicate.
THEOREM LaterIsDuplicateHolds == ComparatorSpec => []LaterIsDuplicate
<1>1. LookupInv => LaterIsDuplicate
  BY DEF LookupInv
<1>2. QED
  BY <1>1, LaterCorrect, PTL

-----------------------------------------------------------------------------
\* Without overwriting, a step keeps RowInv.
LEMMA RowStep ==
  ComparatorTypeOK /\ LookupInv /\ RowInv /\ [ComparatorNext]_comparatorVars => RowInv'
<1> SUFFICES ASSUME ComparatorTypeOK, LookupInv, RowInv, [ComparatorNext]_comparatorVars PROVE RowInv'
  OBVIOUS
<1> USE AbsentAssumption, MissAssumption
    DEF ComparatorTypeOK, LookupInv, NoOverwrite, RowInv, OneFirst, First, HasDuplicateId,
        Missing, Goto
<1>1. ASSUME NEW c \in Comparisons, NullArgument(c) PROVE RowInv'
  BY <1>1 DEF NullArgument
<1>2. ASSUME NEW c \in Comparisons, NEW i \in Ids, NEW h \in Hashes,
             DuplicateCheckComparator(c, i, h)
      PROVE RowInv'
  BY <1>2 DEF DuplicateCheckComparator
<1>3. ASSUME NEW c \in Comparisons, Found(c) PROVE RowInv'
  BY <1>3 DEF Found
<1>4. ASSUME NEW c \in Comparisons, NEW m \in Misses, NotFound(c, m) PROVE RowInv'
  BY <1>4 DEF NotFound
<1>5. ASSUME NEW c \in Comparisons, Save(c) PROVE RowInv'
  BY <1>5 DEF Save
<1>6. ASSUME NEW c \in Comparisons, SaveConflicts(c) PROVE RowInv'
  BY <1>6 DEF SaveConflicts
<1>7. ASSUME NEW c \in Comparisons, TableFails(c) PROVE RowInv'
  BY <1>7 DEF TableFails
<1>8. CASE UNCHANGED comparatorVars
  BY <1>8 DEF comparatorVars
<1>9. QED
  BY <1>1, <1>2, <1>3, <1>4, <1>5, <1>6, <1>7, <1>8 DEF ComparatorNext

\* Without overwriting, rows are final and at most one call per id saved one.
THEOREM RowsCorrect == ComparatorSpec => [](ComparatorTypeOK /\ LookupInv /\ RowInv)
<1>1. ComparatorInit => RowInv
  BY DEF ComparatorInit, RowInv, NoOverwrite, OneFirst, First, HasDuplicateId
<1>2. QED
  BY <1>1, RowStep, LaterCorrect, PTL DEF ComparatorSpec

\* At most one call per id reports a new message with its hash saved.
THEOREM OneFirstHolds == ComparatorSpec => []OneFirst
<1>1. RowInv => OneFirst
  BY DEF RowInv
<1>2. QED
  BY <1>1, RowsCorrect, PTL

\* Verdicts on one id refer to the same hash, for ever.
THEOREM VerdictsAgreeHolds == ComparatorSpec => []VerdictsAgree
<1>1. ComparatorTypeOK /\ RowInv => VerdictsAgree
  BY DEF ComparatorTypeOK, RowInv, VerdictsAgree, HasDuplicateHash, HasDuplicateId
<1>2. QED
  BY <1>1, RowsCorrect, PTL

\* A save that rejects on conflict: hasDuplicateId alone tells the first message.
THEOREM OneNewIdHolds == ComparatorSpec => []OneNewId
<1>1. ComparatorInit => SavedInv
  BY DEF ComparatorInit, SavedInv
<1>2. ComparatorTypeOK /\ LookupInv /\ SavedInv /\ [ComparatorNext]_comparatorVars => SavedInv'
  <2> SUFFICES ASSUME ComparatorTypeOK, LookupInv, SavedInv, [ComparatorNext]_comparatorVars PROVE SavedInv'
    OBVIOUS
  <2> USE MissAssumption
      DEF ComparatorTypeOK, LookupInv, SavedInv, HasDuplicateId, Missing, Goto
  <2>1. ASSUME NEW c \in Comparisons, NullArgument(c) PROVE SavedInv'
    BY <2>1 DEF NullArgument
  <2>2. ASSUME NEW c \in Comparisons, NEW i \in Ids, NEW h \in Hashes,
               DuplicateCheckComparator(c, i, h)
        PROVE SavedInv'
    BY <2>2 DEF DuplicateCheckComparator
  <2>3. ASSUME NEW c \in Comparisons, Found(c) PROVE SavedInv'
    BY <2>3 DEF Found
  <2>4. ASSUME NEW c \in Comparisons, NEW m \in Misses, NotFound(c, m) PROVE SavedInv'
    BY <2>4 DEF NotFound
  <2>5. ASSUME NEW c \in Comparisons, Save(c) PROVE SavedInv'
    BY <2>5 DEF Save
  <2>6. ASSUME NEW c \in Comparisons, SaveConflicts(c) PROVE SavedInv'
    BY <2>6 DEF SaveConflicts
  <2>7. ASSUME NEW c \in Comparisons, TableFails(c) PROVE SavedInv'
    BY <2>7 DEF TableFails
  <2>8. CASE UNCHANGED comparatorVars
    BY <2>8 DEF comparatorVars
  <2>9. QED
    BY <2>1, <2>2, <2>3, <2>4, <2>5, <2>6, <2>7, <2>8 DEF ComparatorNext
<1>3. RowInv /\ SavedInv => OneNewId
  BY DEF RowInv, SavedInv, OneFirst, OneNewId, First
<1>4. QED
  BY <1>1, <1>2, <1>3, RowsCorrect, PTL DEF ComparatorSpec
=============================================================================

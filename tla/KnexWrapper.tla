---------------------------- MODULE KnexWrapper ----------------------------
(***************************************************************************)
(* KnexWrapper of src/mysql/KnexWrapper.js: a knex pool, a flag that says  *)
(* whether it is connected, connect() with the attempts of async-retry, a  *)
(* counter of errors.  knex, its pool and MySQL are external.              *)
(***************************************************************************)
EXTENDS Naturals, Sequences

CONSTANTS
    Calls,
    Healths,     \* the calls that a health check makes
    Retries,     \* retryOptions.retries
    MaxOutages,  \* bounds how often MySQL becomes unreachable
    None

ASSUME CallsAssumption == Healths \subseteq Calls
ASSUME NoneAssumption == None \notin Calls \cup {"ok", "OK", "DOWN"}
ASSUME BoundsAssumption == Retries \in Nat /\ MaxOutages \in Nat

VARIABLES
    isConnected,
    hooks,      \* the exit hooks of the process
    process,    \* "up", "exiting", "exited", or "forced" to exit
    up, outages, \* can MySQL be reached?
    pool,       \* "open", "destroying", "destroyed"
    kind,       \* what a call does
    pc,
    attempt,    \* of connect()
    answer,     \* the error that knex rejected with, or "ok"
    errorCount, \* the codes handed to the counter for a call, "lost" if that failed
    reached,    \* history: a SELECT 1 succeeded and no disconnect() has resolved since
    queried     \* history: queries that MySQL has answered
knexVars == <<isConnected, hooks, process, up, outages, pool, kind, pc, attempt, answer,
              errorCount, reached, queried>>

Codes == {"conn_timeout", "conn_failed", "deadlock", "dup_entry", "not_connected",
          "unknown_db_error"}
Counts == Codes \cup {"lost"}

KnexTypeOK ==
    /\ isConnected \in BOOLEAN /\ reached \in BOOLEAN /\ up \in BOOLEAN
    /\ hooks \in Nat /\ outages \in 0..MaxOutages
    /\ process \in {"up", "exiting", "exited", "forced"} /\ pool \in {"open", "destroying", "destroyed"}
    /\ kind \in [Calls -> {None, "connect", "query", "disconnect"}]
    /\ pc \in [Calls -> {"idle", "asked", "waiting", "destroying", "resolved", "rejected"}]
    /\ attempt \in [Calls -> 0..Retries]
    /\ answer \in [Calls -> {None, "ok", "KnexTimeoutError", "ECONNREFUSED",
                             "ER_LOCK_DEADLOCK", "ER_DUP_ENTRY", "destroyed"}]
    /\ errorCount \in [Calls -> Seq(Counts)] /\ queried \subseteq Calls

KnexInit ==
    /\ isConnected = FALSE /\ hooks = 0 /\ process = "up" /\ reached = FALSE
    /\ up \in BOOLEAN /\ outages = 0 /\ pool = "open"
    /\ kind = [c \in Calls |-> None] /\ pc = [c \in Calls |-> "idle"]
    /\ attempt = [c \in Calls |-> 0] /\ answer = [c \in Calls |-> None]
    /\ errorCount = [c \in Calls |-> <<>>] /\ queried = {}

-----------------------------------------------------------------------------
(* Errors.                                                                 *)

DefineErrorCode(error) ==
    CASE error = "KnexTimeoutError" -> "conn_timeout"
      [] error = "ECONNREFUSED"     -> "conn_failed"
      [] error = "ER_LOCK_DEADLOCK" -> "deadlock"
      [] error = "ER_DUP_ENTRY"     -> "dup_entry"
      [] OTHER -> IF isConnected THEN "unknown_db_error" ELSE "not_connected"

\* handleError, with needRethrow: a counter that is missing or throws is swallowed.
HandleError(c) ==
    /\ \E code \in {DefineErrorCode(answer[c]), "lost"} :
          errorCount' = [errorCount EXCEPT ![c] = Append(@, code)]
    /\ pc' = [pc EXCEPT ![c] = "rejected"]

-----------------------------------------------------------------------------
(* Calls.                                                                  *)

\* A query is handed to knex, whose pool refuses it once destroy() has begun.
Ask(c) == answer' = [answer EXCEPT ![c] = IF pool = "open" THEN None ELSE "destroyed"]

\* The function that the call begins, connected or not.
Call(c, what) ==
    /\ pc[c] = "idle"
    /\ kind' = [kind EXCEPT ![c] = what]
    /\ pc' = [pc EXCEPT ![c] = IF what = "disconnect" THEN "destroying" ELSE "asked"]
    /\ pool' = IF what = "disconnect" /\ pool = "open" THEN "destroying" ELSE pool
    /\ IF what = "disconnect" THEN UNCHANGED answer ELSE Ask(c)
    /\ UNCHANGED <<isConnected, hooks, process, up, outages, attempt, errorCount, reached,
                   queried>>

Begin(c) == c \notin Healths /\ \E what \in {"connect", "query", "disconnect"} : Call(c, what)

Answered(c) == pc[c] = "asked" /\ answer[c] # None

\* An attempt of connect() succeeds.
Connected(c) ==
    /\ kind[c] = "connect" /\ Answered(c) /\ answer[c] = "ok"
    /\ hooks' = hooks + 1
    /\ isConnected' = TRUE
    /\ pc' = [pc EXCEPT ![c] = "resolved"]
    /\ UNCHANGED <<process, up, outages, pool, kind, attempt, answer, errorCount, reached, queried>>

\* Mutant of NotConnected: every attempt is counted.
NotConnectedCounted(c) ==
    /\ kind[c] = "connect" /\ Answered(c) /\ answer[c] # "ok"
    /\ IF attempt[c] < Retries
       THEN /\ attempt' = [attempt EXCEPT ![c] = @ + 1]
            /\ answer' = [answer EXCEPT ![c] = None]
            /\ pc' = [pc EXCEPT ![c] = "waiting"]
            /\ errorCount' = [errorCount EXCEPT ![c] = Append(@, DefineErrorCode(answer[c]))]
       ELSE HandleError(c) /\ UNCHANGED <<attempt, answer>>
    /\ UNCHANGED <<isConnected, hooks, process, up, outages, pool, kind, reached, queried>>

\* An attempt fails: async-retry waits for the next one, or the error is handled.
NotConnected(c) ==
    /\ kind[c] = "connect" /\ Answered(c) /\ answer[c] # "ok"
    /\ IF attempt[c] < Retries
       THEN /\ attempt' = [attempt EXCEPT ![c] = @ + 1]
            /\ answer' = [answer EXCEPT ![c] = None]
            /\ pc' = [pc EXCEPT ![c] = "waiting"]
            /\ UNCHANGED errorCount
       ELSE HandleError(c) /\ UNCHANGED <<attempt, answer>>
    /\ UNCHANGED <<isConnected, hooks, process, up, outages, pool, kind, reached, queried>>

\* The timer of async-retry.
AttemptAgain(c) ==
    /\ pc[c] = "waiting"
    /\ pc' = [pc EXCEPT ![c] = "asked"]
    /\ Ask(c)
    /\ UNCHANGED <<isConnected, hooks, process, up, outages, pool, kind, attempt, errorCount,
                   reached, queried>>

\* executeWithErrorCount after its await.
ExecuteWithErrorCount(c) ==
    /\ kind[c] = "query" /\ Answered(c)
    /\ IF answer[c] = "ok" THEN pc' = [pc EXCEPT ![c] = "resolved"] /\ UNCHANGED errorCount
                           ELSE HandleError(c)
    /\ UNCHANGED <<isConnected, hooks, process, up, outages, pool, kind, attempt, answer,
                   reached, queried>>

\* disconnect() after its await.  An error of destroy() is neither handled nor counted, and
\* the flag stays.
Disconnected(c) ==
    /\ pc[c] = "destroying" /\ pool = "destroyed"
    /\ \/ /\ isConnected' = FALSE /\ reached' = FALSE
          /\ pc' = [pc EXCEPT ![c] = "resolved"]
       \/ /\ pc' = [pc EXCEPT ![c] = "rejected"]
          /\ UNCHANGED <<isConnected, reached>>
    /\ UNCHANGED <<hooks, process, up, outages, pool, kind, attempt, answer, errorCount, queried>>

-----------------------------------------------------------------------------
(* The process ends: async-exit-hook calls the hooks, and exits when each  *)
(* has called back or after ten seconds; on process.exit() it does not     *)
(* wait.                                                                   *)

\* The hooks begin to destroy the pool.
RunHooks == pool' = IF hooks > 0 /\ pool = "open" THEN "destroying" ELSE pool

Exit ==
    /\ process = "up"
    /\ process' \in {IF hooks > 0 THEN "exiting" ELSE "exited", "forced"}
    /\ RunHooks
    /\ UNCHANGED <<isConnected, hooks, up, outages, kind, pc, attempt, answer, errorCount,
                   reached, queried>>

\* Mutant of CalledBack: the callback does not wait for destroy().
CalledBackAtOnce == TRUE

\* destroy().finally(callback)
CalledBack == pool = "destroyed"

Exited ==
    /\ process = "exiting"
    /\ \/ CalledBack /\ process' = "exited"
       \/ process' = "forced"
    /\ UNCHANGED <<isConnected, hooks, up, outages, pool, kind, pc, attempt, answer, errorCount,
                   reached, queried>>

-----------------------------------------------------------------------------
(* knex and MySQL.                                                         *)

Answers(c, with) ==
    /\ pc[c] = "asked" /\ answer[c] = None
    /\ answer' = [answer EXCEPT ![c] = with]
    /\ UNCHANGED <<isConnected, hooks, process, up, outages, pool, kind, pc, attempt, errorCount>>

\* Before the pool is destroyed, a query that it has accepted may end as ever.
Executes(c) ==
    /\ up /\ pool # "destroyed"
    /\ Answers(c, "ok")
    /\ reached' = (reached \/ kind[c] = "connect")
    /\ queried' = queried \cup {c}

Fails(c) ==
    /\ \/ pool # "destroyed" /\ up /\ kind[c] = "query"
          /\ \E error \in {"ER_LOCK_DEADLOCK", "ER_DUP_ENTRY"} : Answers(c, error)
       \/ pool # "destroyed" /\ ~up /\ Answers(c, "ECONNREFUSED")
       \/ pool # "destroyed" /\ Answers(c, "KnexTimeoutError")
       \/ pool # "open" /\ Answers(c, "destroyed")
    /\ UNCHANGED <<reached, queried>>

\* destroy() waits for the connections in use, whose promises have resolved by then.
PoolDestroyed ==
    /\ pool = "destroying" /\ \A c \in Calls : ~(Answered(c) /\ answer[c] = "ok")
    /\ pool' = "destroyed"
    /\ UNCHANGED <<isConnected, hooks, process, up, outages, kind, pc, attempt, answer,
                   errorCount, reached, queried>>

Outage ==
    /\ up' = ~up
    /\ IF up THEN outages < MaxOutages /\ outages' = outages + 1 ELSE UNCHANGED outages
    /\ UNCHANGED <<isConnected, hooks, process, pool, kind, pc, attempt, answer, errorCount,
                   reached, queried>>

KnexNext ==
    \/ \E c \in Calls :
          \/ Begin(c) \/ Connected(c) \/ NotConnected(c) \/ AttemptAgain(c)
          \/ ExecuteWithErrorCount(c) \/ Disconnected(c) \/ Executes(c) \/ Fails(c)
    \/ Exit \/ Exited \/ PoolDestroyed \/ Outage

-----------------------------------------------------------------------------
(* Properties                                                              *)

\* connect() and executeWithErrorCount() hand one error to the counter when they reject,
\* however many attempts failed, and none when they resolve: so one is counted, unless the
\* counter itself fails, and never two.
FailuresCounted ==
    \A c \in Calls : kind[c] \in {"connect", "query"} =>
        Len(errorCount[c]) = IF pc[c] = "rejected" THEN 1 ELSE 0

\* A process that is connected leaves no open pool behind: connect() registers the exit
\* hook before it says that it is connected, and the process waits for destroy().  Where it
\* is forced to exit, destroy() has begun at least.
PoolClosedAtExit ==
    isConnected => /\ process = "exited" => pool = "destroyed"
                   /\ process = "forced" => pool # "open"
=============================================================================

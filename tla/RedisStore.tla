----------------------------- MODULE RedisStore -----------------------------
(***************************************************************************)
(* RedisCache of src/util/redis/redisCache.js, and connect, publish and    *)
(* broadcast of PubSub (pubSub.js), on an ioredis client: a call makes sure*)
(* that the client is connected and sends its commands, each retried by    *)
(* retryCommand.  Both classes may be given one client.  Redis and ioredis *)
(* are external; ioredis sends the commands that were not answered again   *)
(* after a reconnect (autoResendUnfulfilledCommands, on by default).       *)
(***************************************************************************)
EXTENDS Naturals, Sequences

CONSTANTS
    Calls,
    Ops,          \* what a call may do
    Keys,
    NodeOf,       \* the node of a cluster that has a key
    Channels,
    Attempts,     \* retryAttempts
    MaxFailures,  \* bounds the commands and connections that fail
    None

ASSUME BoundsAssumption == Attempts \in Nat \ {0} /\ MaxFailures \in Nat
ASSUME NoneAssumption   ==
    None \notin Calls \cup Keys \cup Channels
              \cup {"already connecting", "unreachable", "command", "closed"}
ASSUME OpsAssumption ==
    \A o \in Ops :
        /\ o.kind \in {"get", "set", "delete", "clear", "publish", "broadcast", "health",
                       "disconnect", "connect", "connectPublisher"}
        /\ o.kind \in {"get", "set", "delete"} => o.on \in Keys
        /\ o.kind = "publish"   => o.on \in Channels
        /\ o.kind = "broadcast" => o.on \in Seq(Channels)

\* Commands.  ensure: is ensureConnected awaited before it?
Command(name, on, ensure) == [name |-> name, on |-> on, ensure |-> ensure]

Get(k)     == <<Command("get", k, TRUE)>>
Set(k)     == <<Command("set", k, TRUE)>>
SetTtl(k)  == <<Command("setex", k, TRUE)>>
Delete(k)  == <<Command("del", k, TRUE)>>
ClearCache == <<Command("keys", None, TRUE), Command("exec", None, FALSE)>>
Publish(ch) == <<Command("publish", ch, TRUE)>>

\* Mutant of Broadcast: the channels are taken from the end.
BroadcastReversed(channels) ==
    [i \in DOMAIN channels |-> Command("publish", channels[Len(channels) + 1 - i], TRUE)]

\* broadcast awaits publish for one channel after the other.
Broadcast(channels) ==
    [i \in DOMAIN channels |-> Command("publish", channels[i], TRUE)]

HealthCheck == <<Command("ping", None, FALSE)>>
Disconnect  == <<Command("quit", None, FALSE)>>
Connect     == <<Command("connect", None, TRUE)>>

\* PubSub.connect looks at no status.  The subscriber, which it connects next, is another
\* client.
ConnectPublisher == <<Command("open", None, TRUE)>>

\* op: the kind of an operation and its argument.
Commands(op) ==
    CASE op.kind = "get"       -> Get(op.on)
      [] op.kind = "set"       -> IF op.ttl \notin {None, 0} THEN SetTtl(op.on) ELSE Set(op.on)
      [] op.kind = "delete"    -> Delete(op.on)
      [] op.kind = "clear"     -> ClearCache
      [] op.kind = "publish"   -> Publish(op.on)
      [] op.kind = "broadcast" -> Broadcast(op.on)
      [] op.kind = "health"    -> HealthCheck
      [] op.kind = "disconnect" -> Disconnect
      [] op.kind = "connect"   -> Connect
      [] op.kind = "connectPublisher" -> ConnectPublisher

VARIABLES
    status,    \* of the client; "ready" is also connect, the TCP connection before the handshake
    store,     \* key |-> the set() that wrote it
    expiring,  \* the keys with an expiry
    delivered, \* channel |-> how often the message of a call was delivered, by call
    op, todo,  \* each call's operation, and the commands it has left
    pc,
    executed,  \* has Redis executed the command in flight?
    tries,     \* failed attempts of retryCommand
    found,     \* clearCache: the keys KEYS answered with
    listed,    \* and those it has yet to delete
    reason,    \* why a call rejected
    failures,
    retried,   \* history: the calls some command of which failed or was sent again
    overlapped,\* history: calls that want, or failed, to connect while another one connected
    untouched, \* history: the keys in the store since a clearCache was called, by call
    replaced,  \* history: set() calls whose value another one has replaced, or a delete
    unheard,   \* history: keys a clearCache did not delete, by call
    asked      \* history: the node that answered the KEYS of a clearCache, by call
vars == <<status, store, expiring, delivered, op, todo, pc, executed, tries, listed, reason,
          failures, retried, overlapped, untouched, replaced, unheard, asked, found>>
callVars == <<op, todo, pc, tries, listed, found, reason>>
history  == <<retried, overlapped, untouched, replaced, unheard, asked>>

TypeOK ==
    /\ status \in {"wait", "connecting", "ready", "reconnecting", "end"}
    /\ store \in [Keys -> Calls \cup {None}] /\ expiring \subseteq Keys
    /\ delivered \in [Channels -> [Calls -> Nat]]
    /\ pc \in [Calls -> {"idle", "connect", "awaiting", "command", "resolved", "rejected"}]
    /\ \A c \in Calls : pc[c] \in {"connect", "awaiting", "command"} => todo[c] # <<>>
    /\ executed \in [Calls -> BOOLEAN] /\ tries \in [Calls -> 0..(Attempts - 1)]
    /\ listed \in [Calls -> SUBSET Keys] /\ found \in [Calls -> SUBSET Keys]
    /\ failures \in 0..MaxFailures

-----------------------------------------------------------------------------
(* A call.                                                                 *)

Connected == status = "ready"

\* Mutant of Ready: the status is not looked at.
ReadyNever(command) == ~command.ensure

\* ensureConnected, or isConnected of connect(), finds the client connected.
Ready(command) == ~command.ensure \/ (Connected /\ command.name # "open")

\* The next command of commands, up to the first await.
Proceed(c, commands) ==
    /\ todo' = [todo EXCEPT ![c] = commands]
    /\ tries' = [tries EXCEPT ![c] = 0]
    /\ executed' = [executed EXCEPT ![c] = FALSE]
    /\ pc' = [pc EXCEPT ![c] =
           IF commands = <<>> THEN "resolved"
           ELSE IF ~Ready(Head(commands)) THEN "connect"
           ELSE IF Head(commands).name = "connect" THEN "resolved" ELSE "command"]
    /\ overlapped' = IF pc'[c] = "connect" /\ status = "connecting"
                     THEN overlapped \cup {c} ELSE overlapped \ {c}

Begin(c) ==
    /\ pc[c] = "idle"
    /\ \E o \in Ops :
          /\ op' = [op EXCEPT ![c] = o]
          /\ Proceed(c, Commands(o))
          /\ untouched' = [untouched EXCEPT ![c] =
                 IF o.kind = "clear" THEN {k \in Keys : store[k] # None} ELSE {}]
    /\ UNCHANGED <<status, store, expiring, delivered, listed, reason, failures, retried,
                   replaced, unheard, asked, found>>

\* An attempt of retryCommand rejects: the next one, or the call rejects.
Attempt(c, again, why) ==
    /\ retried' = retried \cup {c}
    /\ executed' = [executed EXCEPT ![c] = FALSE]
    /\ IF tries[c] < Attempts - 1
       THEN /\ tries' = [tries EXCEPT ![c] = @ + 1]
            /\ pc' = [pc EXCEPT ![c] = again]
            /\ UNCHANGED reason
       ELSE /\ pc' = [pc EXCEPT ![c] =
                 IF op[c].kind = "health" THEN "resolved" ELSE "rejected"]
            /\ reason' = [reason EXCEPT ![c] = why]
            /\ UNCHANGED tries

\* client.connect() on a client that is connecting or connected rejects; retryCommand calls
\* it again without a look at the status.
ConnectRefused(c) ==
    /\ pc[c] = "connect" /\ status \in {"connecting", "ready"}
    /\ Attempt(c, "connect", "already connecting")
    /\ UNCHANGED <<status, store, expiring, delivered, op, todo, listed, failures, overlapped,
                   untouched, replaced, unheard, asked, found>>

ConnectBegins(c) ==
    /\ pc[c] = "connect" /\ status \notin {"connecting", "ready"}
    /\ status' = "connecting"
    /\ pc' = [pc EXCEPT ![c] = "awaiting"]
    /\ overlapped' = (overlapped \cup {d \in Calls : pc[d] = "connect"}) \ {c}
    /\ UNCHANGED <<store, expiring, delivered, op, todo, executed, tries, listed, reason,
                   failures, retried, untouched, replaced, unheard, asked, found>>

\* The awaited connect() resolves, and the command is sent.
ConnectResolves(c) ==
    /\ pc[c] = "awaiting" /\ status # "connecting"
    /\ tries' = [tries EXCEPT ![c] = 0]
    /\ pc' = [pc EXCEPT ![c] =
           IF Head(todo[c]).name \in {"connect", "open"} THEN "resolved" ELSE "command"]
    /\ UNCHANGED <<status, store, expiring, delivered, op, todo, executed, listed, found,
                   reason, failures, history>>

ConnectFails(c) ==
    /\ pc[c] = "awaiting" /\ status = "connecting" /\ failures < MaxFailures
    /\ failures' = failures + 1
    /\ status' = "reconnecting"
    /\ Attempt(c, "connect", "unreachable")
    /\ UNCHANGED <<store, expiring, delivered, op, todo, listed, overlapped, untouched,
                   replaced, unheard, asked, found>>

\* Mutant of Answered: retryCommand goes through all of its attempts.
AnsweredOften(c) ==
    /\ pc[c] = "command" /\ executed[c]
    /\ IF tries[c] < Attempts - 1
       THEN /\ tries' = [tries EXCEPT ![c] = @ + 1]
            /\ executed' = [executed EXCEPT ![c] = FALSE]
            /\ UNCHANGED <<todo, pc, overlapped>>
       ELSE Proceed(c, Tail(todo[c]))
    /\ UNCHANGED <<status, store, expiring, delivered, op, listed, reason, failures, retried,
                   untouched, replaced, unheard, asked, found>>

\* The command's promise resolves.
Answered(c) ==
    /\ pc[c] = "command" /\ executed[c]
    /\ Proceed(c, Tail(todo[c]))
    /\ UNCHANGED <<status, store, expiring, delivered, op, listed, reason, failures, retried,
                   untouched, replaced, unheard, asked, found>>

\* It rejects, whether Redis has executed the command or not.  A pipeline resolves.  A QUIT
\* that was sent closes the client all the same; publish replaces a client whose error says
\* that it has lost its way in the cluster, and the new one does what the old one has left.
CommandFails(c) ==
    /\ pc[c] = "command" /\ Head(todo[c]).name # "exec" /\ failures < MaxFailures
    /\ failures' = failures + 1
    /\ Attempt(c, "command", "command")
    /\ \/ Head(todo[c]).name # "quit" /\ UNCHANGED status
       \/ Head(todo[c]).name = "quit" /\ status' = IF executed[c] THEN status ELSE "end"
       \/ Head(todo[c]).name = "publish" /\ status' = "wait"
    /\ UNCHANGED <<store, expiring, delivered, op, todo, listed, overlapped, untouched,
                   replaced, unheard, asked, found>>

-----------------------------------------------------------------------------
(* Redis and ioredis.                                                      *)

\* A key gets another value, or none.
Write(k, value, expires) ==
    /\ store' = [store EXCEPT ![k] = value]
    /\ expiring' = IF expires THEN expiring \cup {k} ELSE expiring \ {k}
    /\ replaced' = IF store[k] \in {None, value} THEN replaced ELSE replaced \cup {store[k]}
    /\ untouched' = [d \in Calls |-> untouched[d] \ {k}]

Execute(c) ==
    LET command == Head(todo[c]) IN
    /\ pc[c] = "command" /\ Connected /\ ~executed[c]
    /\ command.name # "exec"
    /\ executed' = [executed EXCEPT ![c] = TRUE]
    /\ \/ /\ command.name \in {"set", "setex"}
          /\ Write(command.on, c, command.name = "setex")
          /\ UNCHANGED <<status, delivered, listed, asked, found>>
       \/ /\ command.name = "del"
          /\ Write(command.on, None, FALSE)
          /\ UNCHANGED <<status, delivered, listed, asked, found>>
       \/ /\ command.name = "publish"
          /\ delivered' = [delivered EXCEPT ![command.on][c] = @ + 1]
          /\ UNCHANGED <<status, store, expiring, listed, untouched, replaced, asked, found>>
       \/ \* KEYS answers for one node.
          /\ command.name = "keys"
          /\ \E node \in {NodeOf[k] : k \in Keys} :
                /\ asked' = [asked EXCEPT ![c] = node]
                /\ found' = [found EXCEPT ![c] = {k \in Keys : store[k] # None /\ NodeOf[k] = node}]
                /\ listed' = [listed EXCEPT ![c] = found'[c]]
          /\ UNCHANGED <<status, store, expiring, delivered, untouched, replaced>>
       \/ /\ command.name = "quit"
          /\ status' = "end"
          /\ UNCHANGED <<store, expiring, delivered, listed, untouched, replaced, asked, found>>
       \/ /\ command.name \in {"get", "ping"}
          /\ UNCHANGED <<status, store, expiring, delivered, listed, untouched, replaced, asked,
                         found>>
    /\ UNCHANGED <<op, todo, pc, tries, reason, failures, retried, overlapped, unheard>>

\* The pipeline of clearCache: one DEL after the other.
ExecuteDel(c) ==
    /\ pc[c] = "command" /\ Head(todo[c]).name = "exec" /\ Connected
    /\ \E k \in listed[c] :
          /\ listed' = [listed EXCEPT ![c] = @ \ {k}]
          /\ Write(k, None, FALSE)
    /\ UNCHANGED <<status, delivered, op, todo, pc, executed, tries, reason, failures, retried,
                   overlapped, unheard, asked, found>>

\* A DEL of the pipeline fails; the pipeline resolves with an error in its place.
DelFails(c) ==
    /\ pc[c] = "command" /\ Head(todo[c]).name = "exec" /\ failures < MaxFailures
    /\ \E k \in listed[c] :
          /\ listed' = [listed EXCEPT ![c] = @ \ {k}]
          /\ unheard' = [unheard EXCEPT ![c] = @ \cup {k}]
    /\ failures' = failures + 1
    /\ UNCHANGED <<status, store, expiring, delivered, op, todo, pc, executed, tries, reason,
                   retried, overlapped, untouched, replaced, asked, found>>

\* Mutant of PipelineExecuted: exec() is not awaited.
PipelineExecutedUnawaited(c) == Head(todo[c]).name = "exec"

PipelineExecuted(c) == Head(todo[c]).name = "exec" /\ listed[c] = {}

PipelineResolves(c) ==
    /\ pc[c] = "command" /\ PipelineExecuted(c)
    /\ Proceed(c, <<>>)
    /\ UNCHANGED <<status, store, expiring, delivered, op, listed, reason, failures, retried,
                   untouched, replaced, unheard, asked, found>>

Expire(k) ==
    /\ k \in expiring
    /\ Write(k, None, FALSE)
    /\ UNCHANGED <<status, delivered, callVars, executed, failures, retried, overlapped, unheard,
                   asked>>

\* A command on a lazy client connects it, a lost connection is built again.
ClientConnects ==
    /\ \/ status = "wait" /\ \E c \in Calls : pc[c] = "command"
       \/ status = "reconnecting"
    /\ status' = "connecting"
    /\ overlapped' = overlapped \cup {c \in Calls : pc[c] = "connect"}
    /\ UNCHANGED <<store, expiring, delivered, callVars, executed, failures, retried, untouched,
                   replaced, unheard, asked>>

ClientReady ==
    /\ status = "connecting" /\ status' = "ready"
    /\ UNCHANGED <<store, expiring, delivered, callVars, executed, failures, history>>

\* The connection ends.  ioredis sends the commands whose answers are lost with it again once
\* it is ready, a pipeline from its beginning, unless it is to quit.
ConnectionLost ==
    /\ Connected /\ failures < MaxFailures
    /\ failures' = failures + 1
    /\ \/ /\ \E c \in Calls : pc[c] = "command" /\ Head(todo[c]).name = "quit" /\ ~executed[c]
          /\ status' = "end"
          /\ UNCHANGED <<executed, listed, retried>>
       \/ /\ status' = "reconnecting"
          /\ \E lost \in SUBSET {c \in Calls : pc[c] = "command" /\ Head(todo[c]).name # "quit"
                                            /\ (executed[c] \/ listed[c] # found[c])} :
                /\ executed' = [c \in Calls |-> executed[c] /\ c \notin lost]
                /\ listed' = [c \in Calls |->
                       IF c \in lost /\ Head(todo[c]).name = "exec" THEN found[c] ELSE listed[c]]
                /\ retried' = retried \cup lost
    /\ UNCHANGED <<store, expiring, delivered, op, todo, pc, tries, found, reason, overlapped,
                   untouched, replaced, unheard, asked>>

\* A command on a closed client rejects.
Closed(c) ==
    /\ pc[c] = "command" /\ status = "end" /\ ~executed[c]
    /\ IF Head(todo[c]).name = "exec"
       THEN /\ listed' = [listed EXCEPT ![c] = {}]
            /\ listed[c] # {}
            /\ unheard' = [unheard EXCEPT ![c] = @ \cup listed[c]]
            /\ UNCHANGED <<pc, executed, tries, reason, retried>>
       ELSE /\ Attempt(c, "command", "closed")
            /\ UNCHANGED <<listed, unheard>>
    /\ UNCHANGED <<status, store, expiring, delivered, op, todo, failures, overlapped,
                   untouched, replaced, asked, found>>

-----------------------------------------------------------------------------
Init ==
    /\ status \in {"wait", "ready"}
    /\ store = [k \in Keys |-> None] /\ expiring = {}
    /\ delivered = [ch \in Channels |-> [c \in Calls |-> 0]]
    /\ op = [c \in Calls |-> None] /\ todo = [c \in Calls |-> <<>>]
    /\ pc = [c \in Calls |-> "idle"] /\ executed = [c \in Calls |-> FALSE]
    /\ tries = [c \in Calls |-> 0] /\ listed = [c \in Calls |-> {}]
    /\ reason = [c \in Calls |-> None] /\ failures = 0
    /\ retried = {} /\ overlapped = {} /\ replaced = {}
    /\ untouched = [c \in Calls |-> {}] /\ unheard = [c \in Calls |-> {}]
    /\ asked = [c \in Calls |-> None] /\ found = [c \in Calls |-> {}]

Next ==
    \/ \E c \in Calls :
          \/ Begin(c) \/ ConnectRefused(c) \/ ConnectBegins(c) \/ ConnectResolves(c)
          \/ ConnectFails(c) \/ Answered(c) \/ CommandFails(c) \/ Execute(c)
          \/ ExecuteDel(c) \/ DelFails(c) \/ PipelineResolves(c) \/ Closed(c)
    \/ \E k \in Keys : Expire(k)
    \/ ClientConnects \/ ClientReady \/ ConnectionLost

Spec == Init /\ [][Next]_vars

-----------------------------------------------------------------------------
(* Properties                                                              *)

\* A key of the node that answered KEYS, in the store when clearCache was called and never
\* written since, is still there when it resolves only if its deletion failed in the
\* pipeline, which clearCache does not look at.
Cleared ==
    \A c \in Calls : pc[c] = "resolved" /\ op[c].kind = "clear" =>
        \A k \in untouched[c] : NodeOf[k] = asked[c] => k \in unheard[c]

\* A command takes effect twice only when it was sent again, by retryCommand after a failed
\* attempt or by ioredis after a lost connection: otherwise no message is delivered again
\* and no value comes back that another write has replaced.
OnceUnlessRetried ==
    /\ \A ch \in Channels, c \in Calls : delivered[ch][c] > 1 => c \in retried
    /\ \A k \in Keys : store[k] \in replaced => store[k] \in retried

\* A broadcast reaches its channels in their order: whatever fails, those that have the
\* message are a prefix, all of them when it resolves.
BroadcastPrefix ==
    \A c \in Calls : op[c] # None /\ op[c].kind = "broadcast" =>
        LET got(i) == delivered[op[c].on[i]][c] > 0 IN
        /\ \A i, j \in DOMAIN op[c].on : i < j /\ got(j) => got(i)
        /\ pc[c] = "resolved" => \A i \in DOMAIN op[c].on : got(i)

\* A call that looks at the status, in ensureConnected or in connect() of the cache, is
\* refused by a client that is connecting or connected only if something else was
\* connecting it while the call wanted to.
RefusedOnlyInRace ==
    \A c \in Calls : reason[c] = "already connecting" =>
        c \in overlapped \/ op[c].kind = "connectPublisher"
=============================================================================

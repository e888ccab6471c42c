--------------------------- MODULE RedisStoreProofs ---------------------------
(* Theorems about RedisStore, for every set of calls, operations, keys and channels. *)
EXTENDS RedisStore, SequenceTheorems, TLAPS

-----------------------------------------------------------------------------
(* Suffixes.                                                               *)

IsSuffix(s, all) ==
    /\ Len(s) <= Len(all)
    /\ \A i \in 1..Len(s) : s[i] = all[Len(all) - Len(s) + i]

\* A suffix that is not empty begins in the whole, and goes on with a suffix.
LEMMA SuffixTail ==
    ASSUME NEW S, NEW s \in Seq(S), NEW all \in Seq(S), s # <<>>, IsSuffix(s, all)
    PROVE  /\ Head(s) = all[Len(all) - Len(s) + 1] /\ Head(s) \in S
           /\ Len(all) - Len(s) + 1 \in 1..Len(all)
           /\ Tail(s) \in Seq(S) /\ IsSuffix(Tail(s), all)
           /\ Len(Tail(s)) = Len(s) - 1
<1>1. Len(s) \in Nat /\ Len(s) >= 1 /\ Len(all) \in Nat /\ Len(s) <= Len(all)
  BY EmptySeq, LenProperties DEF IsSuffix
<1>2. Head(s) = s[1] /\ Head(s) \in S
  BY HeadTailProperties
<1>3. Head(s) = all[Len(all) - Len(s) + 1]
  BY <1>1, <1>2 DEF IsSuffix
<1>4. /\ Tail(s) \in Seq(S) /\ Len(Tail(s)) = Len(s) - 1
      /\ \A i \in 1..Len(Tail(s)) : Tail(s)[i] = s[i + 1]
  BY HeadTailProperties
<1>5. IsSuffix(Tail(s), all)
  <2> SUFFICES ASSUME NEW i \in 1..Len(Tail(s))
               PROVE  Tail(s)[i] = all[Len(all) - Len(Tail(s)) + i]
    BY <1>1, <1>4 DEF IsSuffix
  <2>1. i + 1 \in 1..Len(s)
    BY <1>1, <1>4
  <2>2. s[i + 1] = all[Len(all) - Len(s) + (i + 1)]
    BY <2>1 DEF IsSuffix
  <2>3. Len(all) - Len(s) + (i + 1) = Len(all) - Len(Tail(s)) + i
    BY <1>1, <1>4, <2>1
  <2>4. QED
    BY <1>4, <2>2, <2>3
<1>6. QED
  BY <1>1, <1>2, <1>3, <1>4, <1>5

-----------------------------------------------------------------------------
(* Commands.                                                               *)

CommandSet ==
    [name: {"get", "set", "setex", "del", "keys", "exec", "publish", "ping", "quit",
            "connect", "open"},
     on: Keys \cup Channels \cup {None}, ensure: BOOLEAN]

\* The channels an operation publishes to, in their order.
Targets(o) ==
    IF o.kind = "broadcast" THEN o.on ELSE IF o.kind = "publish" THEN <<o.on>> ELSE <<>>

\* What the invariants use of the commands of an operation.
LEMMA CommandsOf ==
    ASSUME NEW o \in Ops
    PROVE  /\ Commands(o) \in Seq(CommandSet)
           /\ \A i \in 1..Len(Commands(o)) : LET command == Commands(o)[i] IN
                /\ command.name \in {"set", "setex"} =>
                      o.kind = "set" /\ command.on = o.on /\ command.on \in Keys
                /\ command.name = "del" => o.kind = "delete" /\ command.on \in Keys
                /\ command.name = "open" => o.kind = "connectPublisher"
                /\ command.name = "publish" =>
                      /\ o.kind \in {"publish", "broadcast"}
                      /\ i \in 1..Len(Targets(o))
                      /\ command.on = Targets(o)[i] /\ command.on \in Channels
                /\ command.name = "keys" => o.kind = "clear" /\ i = 1
                /\ command.name = "exec" => o.kind = "clear" /\ i = 2
                /\ ~command.ensure => command.name \in {"exec", "ping", "quit"}
           /\ o.kind = "set" => Len(Commands(o)) = 1
           /\ o.kind = "clear" => Commands(o) = ClearCache
           /\ o.kind \in {"publish", "broadcast"} =>
                /\ Targets(o) \in Seq(Channels) /\ Len(Commands(o)) = Len(Targets(o))
                /\ \A i \in 1..Len(Commands(o)) : Commands(o)[i].name = "publish"
           /\ o.kind = "health" => \A i \in 1..Len(Commands(o)) : Commands(o)[i].name = "ping"
<1> USE OpsAssumption DEF CommandSet, Command, Targets
<1>1. CASE o.kind = "get"
  BY <1>1 DEF Commands, Get
<1>2. CASE o.kind = "set"
  <2>1. Commands(o) = SetTtl(o.on) \/ Commands(o) = Set(o.on)
    BY <1>2 DEF Commands
  <2>2. CASE Commands(o) = SetTtl(o.on)
    BY <1>2, <2>2 DEF SetTtl
  <2>3. CASE Commands(o) = Set(o.on)
    BY <1>2, <2>3 DEF Set
  <2>4. QED
    BY <2>1, <2>2, <2>3
<1>3. CASE o.kind = "delete"
  BY <1>3 DEF Commands, Delete
<1>4. CASE o.kind = "clear"
  <2>1. Commands(o) = ClearCache
    BY <1>4 DEF Commands
  <2>2. ClearCache \in Seq(CommandSet) /\ Len(ClearCache) = 2
        /\ ClearCache[1].name = "keys" /\ ClearCache[1].ensure
        /\ ClearCache[2].name = "exec"
    BY DEF ClearCache
  <2>3. \A i \in 1..Len(ClearCache) : i = 1 \/ i = 2
    BY <2>2
  <2>4. QED
    BY <1>4, <2>1, <2>2, <2>3
<1>5. CASE o.kind = "publish"
  BY <1>5 DEF Commands, Publish
<1>6. CASE o.kind = "broadcast"
  <2>1. o.on \in Seq(Channels) /\ Targets(o) = o.on
    BY <1>6
  <2>2. Commands(o) = [i \in 1..Len(o.on) |-> Command("publish", o.on[i], TRUE)]
    BY <1>6, <2>1 DEF Commands, Broadcast
  <2>3. \A i \in 1..Len(o.on) : o.on[i] \in Channels
    BY <2>1
  <2>4. Commands(o) \in Seq(CommandSet) /\ Len(Commands(o)) = Len(o.on)
    BY <2>1, <2>2, <2>3
  <2>5. QED
    BY <1>6, <2>1, <2>2, <2>3, <2>4
<1>7. CASE o.kind = "health"
  BY <1>7 DEF Commands, HealthCheck
<1>8. CASE o.kind = "disconnect"
  BY <1>8 DEF Commands, Disconnect
<1>9. CASE o.kind = "connect"
  BY <1>9 DEF Commands, Connect
<1>10. CASE o.kind = "connectPublisher"
  BY <1>10 DEF Commands, ConnectPublisher
<1>11. QED
  BY <1>1, <1>2, <1>3, <1>4, <1>5, <1>6, <1>7, <1>8, <1>9, <1>10

-----------------------------------------------------------------------------
(* A call and the commands it has left.                                    *)

Pending == {"connect", "awaiting", "command"}

PCs      == {"idle", "connect", "awaiting", "command", "resolved", "rejected"}
Statuses == {"wait", "connecting", "ready", "reconnecting", "end"}
Reasons  == {"already connecting", "unreachable", "command", "closed"}

\* The types of TypeOK, and of the variables it leaves out.
Ranges ==
    /\ status \in Statuses
    /\ store \in [Keys -> Calls \cup {None}] /\ expiring \subseteq Keys
    /\ pc \in [Calls -> PCs] /\ executed \in [Calls -> BOOLEAN]
    /\ op \in [Calls -> Ops \cup {None}] /\ reason \in [Calls -> Reasons \cup {None}]
    /\ retried \subseteq Calls /\ overlapped \subseteq Calls /\ replaced \subseteq Calls
KeySets ==
    /\ listed \in [Calls -> SUBSET Keys] /\ untouched \in [Calls -> SUBSET Keys]
    /\ unheard \in [Calls -> SUBSET Keys] /\ found \in [Calls -> SUBSET Keys]
    /\ asked \in [Calls -> {NodeOf[k] : k \in Keys} \cup {None}]
Numbers ==
    tries \in [Calls -> 0..(Attempts - 1)] /\ failures \in 0..MaxFailures
Deliveries == delivered \in [Channels -> [Calls -> Nat]]

\* The commands a call has left are the last ones of its operation.
PlanInv ==
    /\ todo \in [Calls -> Seq(CommandSet)]
    /\ \A c \in Calls :
          /\ pc[c] \in Pending => todo[c] # <<>>
          /\ pc[c] # "idle" => op[c] \in Ops /\ IsSuffix(todo[c], Commands(op[c]))
          /\ executed[c] => pc[c] = "command" /\ Head(todo[c]).name # "exec"

TypeInv == Ranges /\ KeySets /\ Numbers /\ Deliveries /\ PlanInv

\* How many of its commands a call is through with.
Position(c) == Len(Commands(op[c])) - Len(todo[c])

\* A call that resolves is through with all of them, unless it only had to connect, or is a
\* health check.
ResolvedInv ==
    \A c \in Calls : pc[c] = "resolved" /\ op[c].kind # "health" =>
        todo[c] = <<>> \/ Head(todo[c]).name \in {"connect", "open"}

\* A value that is in the store, or has been, was written by a set() of its key, which no
\* more writes it unless an attempt failed.
Wrote(c) ==
    pc[c] # "idle" /\ op[c].kind = "set" /\ (c \in retried \/ executed[c] \/ todo[c] = <<>>)

WriteInv ==
    /\ \A k \in Keys : store[k] # None => Wrote(store[k]) /\ op[store[k]].on = k
    /\ \A c \in replaced : Wrote(c)
    /\ \A k \in Keys : store[k] \in replaced => store[k] \in retried

\* A channel has a message of a call if the call is past it, or at it and the command has
\* been executed, and otherwise only if it is at it and an attempt of the call failed.
DeliverCall(c) ==
    \A ch \in Channels :
        /\ delivered[ch][c] > 0 =>
              /\ pc[c] # "idle"
              /\ \E i \in 1..Len(Targets(op[c])) :
                    /\ Targets(op[c])[i] = ch
                    /\ \/ i <= Position(c)
                       \/ i = Position(c) + 1 /\ (executed[c] \/ c \in retried)
        /\ pc[c] # "idle" =>
              \A i \in 1..Len(Targets(op[c])) :
                 /\ Targets(op[c])[i] = ch
                 /\ i <= Position(c) \/ (i = Position(c) + 1 /\ executed[c])
                 => delivered[ch][c] > 0
        /\ delivered[ch][c] > 1 => c \in retried
DeliverInv == \A c \in Calls : DeliverCall(c)

\* The channels of a broadcast are distinct.
DistinctChannels ==
    \A o \in Ops : o.kind = "broadcast" =>
        \A i, j \in 1..Len(o.on) : o.on[i] = o.on[j] => i = j

Ended == {"resolved", "rejected"}

\* A call that wants to connect a client that is connecting or connected overlapped with
\* the one that connects it, or does not look at the status.
ConnectCall(c) ==
    /\ pc[c] = "connect" /\ status \in {"connecting", "ready"} =>
          c \in overlapped \/ Head(todo[c]).name = "open"
    /\ reason[c] = "already connecting" =>
          /\ pc[c] \in Ended
          /\ c \in overlapped \/ op[c].kind = "connectPublisher"
ConnectInv == \A c \in Calls : ConnectCall(c)

\* Once clearCache has its answer to KEYS, a key of the node that gave it, there before and not
\* written since, is on its list, or its deletion failed.
ClearCall(c) ==
    /\ listed[c] \subseteq found[c]
    /\ \A k \in untouched[c] : store[k] # None
    /\ pc[c] # "idle" /\ op[c].kind = "clear" =>
          /\ Len(todo[c]) <= 1 \/ executed[c] =>
                \A k \in untouched[c] :
                   NodeOf[k] = asked[c] => k \in listed[c] \/ k \in unheard[c]
          /\ todo[c] = <<>> => listed[c] = {}
ClearInv == \A c \in Calls : ClearCall(c)

-----------------------------------------------------------------------------
\* The command a call is at is one of its operation, and so are those left after it.
LEMMA AtCommand ==
    ASSUME PlanInv, NEW c \in Calls, pc[c] # "idle", todo[c] # <<>>
    PROVE  /\ Head(todo[c]) \in CommandSet /\ op[c] \in Ops
           /\ Position(c) \in Nat /\ Position(c) + 1 \in 1..Len(Commands(op[c]))
           /\ Len(Commands(op[c])) \in Nat /\ Len(todo[c]) \in Nat
           /\ Len(todo[c]) = Len(Commands(op[c])) - Position(c)
           /\ Head(todo[c]) = Commands(op[c])[Position(c) + 1]
           /\ Tail(todo[c]) \in Seq(CommandSet)
           /\ IsSuffix(Tail(todo[c]), Commands(op[c]))
           /\ Len(Tail(todo[c])) = Len(todo[c]) - 1
<1>1. /\ op[c] \in Ops /\ todo[c] \in Seq(CommandSet)
      /\ IsSuffix(todo[c], Commands(op[c]))
  BY DEF PlanInv
<1>2. Commands(op[c]) \in Seq(CommandSet)
  BY <1>1, CommandsOf
<1>3. /\ Len(Commands(op[c])) \in Nat /\ Len(todo[c]) \in Nat
      /\ Len(todo[c]) <= Len(Commands(op[c]))
  BY <1>1, <1>2, LenProperties DEF IsSuffix
<1>4. Position(c) \in Nat /\ Len(todo[c]) = Len(Commands(op[c])) - Position(c)
  BY <1>3 DEF Position
<1>5. QED
  BY <1>1, <1>2, <1>3, <1>4, SuffixTail DEF Position

\* What the name of the command a call is at says of the call.
LEMMA CallsItself ==
    ASSUME PlanInv, NEW c \in Calls, pc[c] # "idle", todo[c] # <<>>
    PROVE  LET command == Head(todo[c]) IN
           /\ command.name \in {"set", "setex"} => op[c].kind = "set" /\ command.on = op[c].on
           /\ command.name \in {"set", "setex", "del"} => command.on \in Keys
           /\ command.name = "publish" =>
                 /\ Position(c) + 1 \in 1..Len(Targets(op[c]))
                 /\ command.on = Targets(op[c])[Position(c) + 1] /\ command.on \in Channels
           /\ command.name = "open" => op[c].kind = "connectPublisher"
           /\ ~command.ensure => command.name \in {"exec", "ping", "quit"}
<1>1. op[c] \in Ops /\ Position(c) + 1 \in 1..Len(Commands(op[c]))
      /\ Head(todo[c]) = Commands(op[c])[Position(c) + 1]
  BY AtCommand
<1>2. QED
  BY <1>1, CommandsOf

\* What the failure of an attempt leaves of a call.
LEMMA AttemptShape ==
    ASSUME Ranges, NEW c \in Calls, NEW again \in Pending, NEW why, Attempt(c, again, why)
    PROVE  /\ retried' = retried \cup {c} /\ executed' = [executed EXCEPT ![c] = FALSE]
           /\ pc'[c] \in {again, "resolved", "rejected"}
           /\ pc'[c] = "resolved" => op[c].kind = "health"
           /\ \A d \in Calls \ {c} : pc'[d] = pc[d]
           /\ \A d \in Calls : pc[d] # "idle" => pc'[d] # "idle"
           /\ reason'[c] \in {reason[c], why}
           /\ \A d \in Calls \ {c} : reason'[d] = reason[d]
<1>1. CASE tries[c] < Attempts - 1
  BY <1>1 DEF Ranges, Attempt, Pending
<1>2. CASE ~(tries[c] < Attempts - 1)
  BY <1>2 DEF Ranges, Attempt, Pending
<1>3. QED
  BY <1>1, <1>2

\* A write keeps the types, and an expired key is none that is written.
LEMMA WriteTypes ==
    ASSUME Ranges, KeySets, NEW k \in Keys, NEW value \in Calls \cup {None},
           NEW expires \in BOOLEAN, Write(k, value, expires)
    PROVE  /\ store' \in [Keys -> Calls \cup {None}] /\ expiring' \subseteq Keys
           /\ replaced' \subseteq Calls /\ untouched' \in [Calls -> SUBSET Keys]
BY DEF Ranges, KeySets, Write

\* Every step keeps the variables of the client, the store and the calls in their types.
LEMMA RangesStep == Ranges /\ KeySets /\ PlanInv /\ [Next]_vars => Ranges'
<1> SUFFICES ASSUME Ranges, KeySets, PlanInv, [Next]_vars PROVE Ranges'
  OBVIOUS
<1> USE NoneAssumption DEF Ranges, PCs, Statuses, Reasons
<1>1. ASSUME NEW c \in Calls, Begin(c) PROVE Ranges'
  <2>1. PICK o \in Ops : op' = [op EXCEPT ![c] = o] /\ Proceed(c, Commands(o))
    BY <1>1 DEF Begin
  <2>2. QED
    BY <1>1, <2>1 DEF Begin, Proceed
<1>2. ASSUME NEW c \in Calls, ConnectRefused(c) PROVE Ranges'
  BY <1>2 DEF ConnectRefused, Attempt
<1>3. ASSUME NEW c \in Calls, ConnectBegins(c) PROVE Ranges'
  BY <1>3 DEF ConnectBegins
<1>4. ASSUME NEW c \in Calls, ConnectResolves(c) PROVE Ranges'
  BY <1>4 DEF ConnectResolves, history
<1>5. ASSUME NEW c \in Calls, ConnectFails(c) PROVE Ranges'
  BY <1>5 DEF ConnectFails, Attempt
<1>6. ASSUME NEW c \in Calls, Answered(c) PROVE Ranges'
  BY <1>6 DEF Answered, Proceed
<1>7. ASSUME NEW c \in Calls, CommandFails(c) PROVE Ranges'
  BY <1>7 DEF CommandFails, Attempt
<1>8. ASSUME NEW c \in Calls, Execute(c) PROVE Ranges'
  <2>1. LET command == Head(todo[c]) IN
        command.name \in {"set", "setex", "del"} => command.on \in Keys
    BY <1>8, CallsItself DEF Execute, PlanInv, Pending
  <2>2. /\ store' \in [Keys -> Calls \cup {None}] /\ expiring' \subseteq Keys
        /\ replaced' \subseteq Calls
    <3>1. CASE Head(todo[c]).name \in {"set", "setex"}
      <4>1. Write(Head(todo[c]).on, c, Head(todo[c]).name = "setex")
        BY <1>8, <3>1 DEF Execute
      <4>2. QED
        BY <2>1, <3>1, <4>1, WriteTypes
    <3>2. CASE Head(todo[c]).name = "del"
      <4>1. Write(Head(todo[c]).on, None, FALSE)
        BY <1>8, <3>2 DEF Execute
      <4>2. QED
        BY <2>1, <3>2, <4>1, WriteTypes
    <3>3. CASE Head(todo[c]).name \notin {"set", "setex", "del"}
      BY <1>8, <3>3 DEF Execute
    <3>4. QED
      BY <3>1, <3>2, <3>3
  <2>3. status' \in Statuses
    BY <1>8 DEF Execute
  <2>4. QED
    BY <1>8, <2>2, <2>3 DEF Execute
<1>9. ASSUME NEW c \in Calls, ExecuteDel(c) PROVE Ranges'
  <2>1. PICK k \in listed[c] : Write(k, None, FALSE)
    BY <1>9 DEF ExecuteDel
  <2>2. k \in Keys
    BY <2>1 DEF KeySets
  <2>3. QED
    BY <1>9, <2>1, <2>2, WriteTypes DEF ExecuteDel
<1>10. ASSUME NEW c \in Calls, DelFails(c) PROVE Ranges'
  BY <1>10 DEF DelFails
<1>11. ASSUME NEW c \in Calls, PipelineResolves(c) PROVE Ranges'
  BY <1>11 DEF PipelineResolves, PipelineExecuted, Proceed
<1>12. ASSUME NEW c \in Calls, Closed(c) PROVE Ranges'
  <2>1. CASE Head(todo[c]).name = "exec"
    BY <1>12, <2>1 DEF Closed
  <2>2. CASE Head(todo[c]).name # "exec"
    <3>1. /\ Attempt(c, "command", "closed")
          /\ UNCHANGED <<status, store, expiring, op, overlapped, replaced>>
      BY <1>12, <2>2 DEF Closed
    <3>2. QED
      BY <3>1 DEF Attempt
  <2>3. QED
    BY <2>1, <2>2
<1>13. ASSUME NEW k \in Keys, Expire(k) PROVE Ranges'
  BY <1>13 DEF Expire, Write, callVars
<1>14. ASSUME ClientConnects PROVE Ranges'
  BY <1>14 DEF ClientConnects, callVars
<1>15. ASSUME ClientReady PROVE Ranges'
  BY <1>15 DEF ClientReady, callVars, history
<1>16. ASSUME ConnectionLost PROVE Ranges'
  <2>1. executed' \in [Calls -> BOOLEAN] /\ retried' \subseteq Calls
    <3>1. CASE status' = "end"
      BY <1>16, <3>1 DEF ConnectionLost
    <3>2. CASE status' # "end"
      <4>1. PICK lost \in SUBSET Calls :
               /\ executed' = [c \in Calls |-> executed[c] /\ c \notin lost]
               /\ retried' = retried \cup lost
        BY <1>16, <3>2 DEF ConnectionLost
      <4>2. executed' \in [Calls -> BOOLEAN]
        BY <4>1, Zenon
      <4>3. QED
        BY <4>1, <4>2
    <3>3. QED
      BY <3>1, <3>2
  <2>2. QED
    BY <1>16, <2>1 DEF ConnectionLost
<1>17. CASE UNCHANGED vars
  BY <1>17 DEF vars
<1>18. QED
  BY <1>1, <1>2, <1>3, <1>4, <1>5, <1>6, <1>7, <1>8, <1>9,
     <1>10, <1>11, <1>12, <1>13, <1>14, <1>15, <1>16, <1>17 DEF Next

\* So it does the sets of keys.
LEMMA KeySetsStep == Ranges /\ KeySets /\ [Next]_vars => KeySets'
<1> SUFFICES ASSUME Ranges, KeySets, [Next]_vars PROVE KeySets'
  OBVIOUS
<1> USE DEF KeySets
<1>1. ASSUME NEW c \in Calls, Begin(c) PROVE KeySets'
  BY <1>1 DEF Begin, Proceed
<1>2. ASSUME NEW c \in Calls, ConnectRefused(c) PROVE KeySets'
  BY <1>2 DEF ConnectRefused, Attempt
<1>3. ASSUME NEW c \in Calls, ConnectBegins(c) PROVE KeySets'
  BY <1>3 DEF ConnectBegins
<1>4. ASSUME NEW c \in Calls, ConnectResolves(c) PROVE KeySets'
  BY <1>4 DEF ConnectResolves, history
<1>5. ASSUME NEW c \in Calls, ConnectFails(c) PROVE KeySets'
  BY <1>5 DEF ConnectFails, Attempt
<1>6. ASSUME NEW c \in Calls, Answered(c) PROVE KeySets'
  BY <1>6 DEF Answered, Proceed
<1>7. ASSUME NEW c \in Calls, CommandFails(c) PROVE KeySets'
  BY <1>7 DEF CommandFails, Attempt
<1>8. ASSUME NEW c \in Calls, Execute(c) PROVE KeySets'
  <2>1. listed' \in [Calls -> SUBSET Keys] /\ untouched' \in [Calls -> SUBSET Keys]
    BY <1>8 DEF Execute, Write
  <2>2. QED
    BY <1>8, <2>1 DEF Execute
<1>9. ASSUME NEW c \in Calls, ExecuteDel(c) PROVE KeySets'
  BY <1>9 DEF ExecuteDel, Write
<1>10. ASSUME NEW c \in Calls, DelFails(c) PROVE KeySets'
  BY <1>10 DEF DelFails
<1>11. ASSUME NEW c \in Calls, PipelineResolves(c) PROVE KeySets'
  BY <1>11 DEF PipelineResolves, PipelineExecuted, Proceed
<1>12. ASSUME NEW c \in Calls, Closed(c) PROVE KeySets'
  BY <1>12 DEF Closed, Attempt
<1>13. ASSUME NEW k \in Keys, Expire(k) PROVE KeySets'
  BY <1>13 DEF Expire, Write, callVars
<1>14. ASSUME ClientConnects PROVE KeySets'
  BY <1>14 DEF ClientConnects, callVars
<1>15. ASSUME ClientReady PROVE KeySets'
  BY <1>15 DEF ClientReady, callVars, history
<1>16. ASSUME ConnectionLost PROVE KeySets'
  BY <1>16 DEF ConnectionLost
<1>17. CASE UNCHANGED vars
  BY <1>17 DEF vars
<1>18. QED
  BY <1>1, <1>2, <1>3, <1>4, <1>5, <1>6, <1>7, <1>8, <1>9,
     <1>10, <1>11, <1>12, <1>13, <1>14, <1>15, <1>16, <1>17 DEF Next

\* The attempts stay below the limit, the failures within their bound.
LEMMA NumbersStep == Ranges /\ Numbers /\ [Next]_vars => Numbers'
<1> SUFFICES ASSUME Ranges, Numbers, [Next]_vars PROVE Numbers'
  OBVIOUS
<1> USE BoundsAssumption DEF Numbers
<1>1. ASSUME NEW c \in Calls, Begin(c) PROVE Numbers'
  BY <1>1 DEF Begin, Proceed
<1>2. ASSUME NEW c \in Calls, ConnectRefused(c) PROVE Numbers'
  <2>1. failures' = failures /\ Attempt(c, "connect", "already connecting")
    BY <1>2 DEF ConnectRefused
  <2>2. CASE tries[c] < Attempts - 1
    BY <2>1, <2>2 DEF Attempt
  <2>3. CASE ~(tries[c] < Attempts - 1)
    BY <2>1, <2>3 DEF Attempt
  <2>4. QED
    BY <2>2, <2>3
<1>3. ASSUME NEW c \in Calls, ConnectBegins(c) PROVE Numbers'
  BY <1>3 DEF ConnectBegins
<1>4. ASSUME NEW c \in Calls, ConnectResolves(c) PROVE Numbers'
  BY <1>4 DEF ConnectResolves, history
<1>5. ASSUME NEW c \in Calls, ConnectFails(c) PROVE Numbers'
  BY <1>5 DEF ConnectFails, Attempt
<1>6. ASSUME NEW c \in Calls, Answered(c) PROVE Numbers'
  BY <1>6 DEF Answered, Proceed
<1>7. ASSUME NEW c \in Calls, CommandFails(c) PROVE Numbers'
  BY <1>7 DEF CommandFails, Attempt
<1>8. ASSUME NEW c \in Calls, Execute(c) PROVE Numbers'
  BY <1>8 DEF Execute, Write
<1>9. ASSUME NEW c \in Calls, ExecuteDel(c) PROVE Numbers'
  BY <1>9 DEF ExecuteDel, Write
<1>10. ASSUME NEW c \in Calls, DelFails(c) PROVE Numbers'
  BY <1>10 DEF DelFails
<1>11. ASSUME NEW c \in Calls, PipelineResolves(c) PROVE Numbers'
  BY <1>11 DEF PipelineResolves, PipelineExecuted, Proceed
<1>12. ASSUME NEW c \in Calls, Closed(c) PROVE Numbers'
  BY <1>12 DEF Closed, Attempt
<1>13. ASSUME NEW k \in Keys, Expire(k) PROVE Numbers'
  BY <1>13 DEF Expire, Write, callVars
<1>14. ASSUME ClientConnects PROVE Numbers'
  BY <1>14 DEF ClientConnects, callVars
<1>15. ASSUME ClientReady PROVE Numbers'
  BY <1>15 DEF ClientReady, callVars, history
<1>16. ASSUME ConnectionLost PROVE Numbers'
  BY <1>16 DEF ConnectionLost
<1>17. CASE UNCHANGED vars
  BY <1>17 DEF vars
<1>18. QED
  BY <1>1, <1>2, <1>3, <1>4, <1>5, <1>6, <1>7, <1>8, <1>9,
     <1>10, <1>11, <1>12, <1>13, <1>14, <1>15, <1>16, <1>17 DEF Next

\* Every delivery is to a channel.
LEMMA DeliveriesStep == Deliveries /\ PlanInv /\ [Next]_vars => Deliveries'
<1> SUFFICES ASSUME Deliveries, PlanInv, [Next]_vars PROVE Deliveries'
  OBVIOUS
<1> USE DEF Deliveries
<1>1. ASSUME NEW c \in Calls, Begin(c) PROVE Deliveries'
  BY <1>1 DEF Begin, Proceed
<1>2. ASSUME NEW c \in Calls, ConnectRefused(c) PROVE Deliveries'
  BY <1>2 DEF ConnectRefused, Attempt
<1>3. ASSUME NEW c \in Calls, ConnectBegins(c) PROVE Deliveries'
  BY <1>3 DEF ConnectBegins
<1>4. ASSUME NEW c \in Calls, ConnectResolves(c) PROVE Deliveries'
  BY <1>4 DEF ConnectResolves, history
<1>5. ASSUME NEW c \in Calls, ConnectFails(c) PROVE Deliveries'
  BY <1>5 DEF ConnectFails, Attempt
<1>6. ASSUME NEW c \in Calls, Answered(c) PROVE Deliveries'
  BY <1>6 DEF Answered, Proceed
<1>7. ASSUME NEW c \in Calls, CommandFails(c) PROVE Deliveries'
  BY <1>7 DEF CommandFails, Attempt
<1>8. ASSUME NEW c \in Calls, Execute(c) PROVE Deliveries'
  <2>1. LET command == Head(todo[c]) IN
        command.name = "publish" => command.on \in Channels
    BY <1>8, CallsItself DEF Execute, PlanInv, Pending
  <2>2. CASE Head(todo[c]).name = "publish"
    <3> DEFINE ch == Head(todo[c]).on
    <3>1. delivered' = [delivered EXCEPT ![ch] = [delivered[ch] EXCEPT ![c] = delivered[ch][c] + 1]]
      BY <1>8, <2>2 DEF Execute
    <3>2. ch \in Channels /\ delivered[ch][c] + 1 \in Nat
      BY <2>1, <2>2
    <3>3. QED
      BY <3>1, <3>2
  <2>3. CASE Head(todo[c]).name # "publish"
    BY <1>8, <2>3 DEF Execute
  <2>4. QED
    BY <2>2, <2>3
<1>9. ASSUME NEW c \in Calls, ExecuteDel(c) PROVE Deliveries'
  BY <1>9 DEF ExecuteDel, Write
<1>10. ASSUME NEW c \in Calls, DelFails(c) PROVE Deliveries'
  BY <1>10 DEF DelFails
<1>11. ASSUME NEW c \in Calls, PipelineResolves(c) PROVE Deliveries'
  BY <1>11 DEF PipelineResolves, PipelineExecuted, Proceed
<1>12. ASSUME NEW c \in Calls, Closed(c) PROVE Deliveries'
  BY <1>12 DEF Closed, Attempt
<1>13. ASSUME NEW k \in Keys, Expire(k) PROVE Deliveries'
  BY <1>13 DEF Expire, Write, callVars
<1>14. ASSUME ClientConnects PROVE Deliveries'
  BY <1>14 DEF ClientConnects, callVars
<1>15. ASSUME ClientReady PROVE Deliveries'
  BY <1>15 DEF ClientReady, callVars, history
<1>16. ASSUME ConnectionLost PROVE Deliveries'
  BY <1>16 DEF ConnectionLost
<1>17. CASE UNCHANGED vars
  BY <1>17 DEF vars
<1>18. QED
  BY <1>1, <1>2, <1>3, <1>4, <1>5, <1>6, <1>7, <1>8, <1>9,
     <1>10, <1>11, <1>12, <1>13, <1>14, <1>15, <1>16, <1>17 DEF Next

\* The whole is a suffix of itself, and so is nothing.
LEMMA SuffixEnds ==
    ASSUME NEW S, NEW all \in Seq(S) PROVE IsSuffix(all, all) /\ IsSuffix(<<>>, all)
<1>1. Len(all) \in Nat /\ Len(<<>>) = 0
  BY LenProperties, EmptySeq
<1>2. QED
  BY <1>1 DEF IsSuffix

\* A call works off its commands from the first to the last.
LEMMA PlanStep == Ranges /\ PlanInv /\ [Next]_vars => PlanInv'
<1> SUFFICES ASSUME Ranges, PlanInv, [Next]_vars PROVE PlanInv'
  OBVIOUS
<1> USE DEF PlanInv, Ranges, Pending
<1>1. ASSUME NEW c \in Calls, Begin(c) PROVE PlanInv'
  <2>1. PICK o \in Ops : op' = [op EXCEPT ![c] = o] /\ Proceed(c, Commands(o))
    BY <1>1 DEF Begin
  <2>2. Commands(o) \in Seq(CommandSet) /\ IsSuffix(Commands(o), Commands(o))
    BY CommandsOf, SuffixEnds
  <2>3. QED
    BY <2>1, <2>2 DEF Proceed
<1>2. ASSUME NEW c \in Calls, ConnectRefused(c) PROVE PlanInv'
  BY <1>2 DEF ConnectRefused, Attempt
<1>3. ASSUME NEW c \in Calls, ConnectBegins(c) PROVE PlanInv'
  BY <1>3 DEF ConnectBegins
<1>4. ASSUME NEW c \in Calls, ConnectResolves(c) PROVE PlanInv'
  BY <1>4 DEF ConnectResolves, history
<1>5. ASSUME NEW c \in Calls, ConnectFails(c) PROVE PlanInv'
  BY <1>5 DEF ConnectFails, Attempt
<1>6. ASSUME NEW c \in Calls, Answered(c) PROVE PlanInv'
  <2>1. Tail(todo[c]) \in Seq(CommandSet) /\ IsSuffix(Tail(todo[c]), Commands(op[c]))
    BY <1>6, AtCommand DEF Answered
  <2>2. op' = op /\ Proceed(c, Tail(todo[c])) /\ pc[c] = "command"
    BY <1>6 DEF Answered
  <2>3. QED
    BY <2>1, <2>2 DEF Proceed
<1>7. ASSUME NEW c \in Calls, CommandFails(c) PROVE PlanInv'
  BY <1>7 DEF CommandFails, Attempt
<1>8. ASSUME NEW c \in Calls, Execute(c) PROVE PlanInv'
  BY <1>8 DEF Execute, Write
<1>9. ASSUME NEW c \in Calls, ExecuteDel(c) PROVE PlanInv'
  BY <1>9 DEF ExecuteDel, Write
<1>10. ASSUME NEW c \in Calls, DelFails(c) PROVE PlanInv'
  BY <1>10 DEF DelFails
<1>11. ASSUME NEW c \in Calls, PipelineResolves(c) PROVE PlanInv'
  <2>1. Commands(op[c]) \in Seq(CommandSet)
    BY <1>11, CommandsOf DEF PipelineResolves
  <2>2. IsSuffix(<<>>, Commands(op[c])) /\ <<>> \in Seq(CommandSet)
    BY <2>1, SuffixEnds, EmptySeq
  <2>3. op' = op /\ Proceed(c, <<>>) /\ pc[c] = "command"
    BY <1>11 DEF PipelineResolves
  <2>4. QED
    BY <2>2, <2>3 DEF Proceed
<1>12. ASSUME NEW c \in Calls, Closed(c) PROVE PlanInv'
  BY <1>12 DEF Closed, Attempt
<1>13. ASSUME NEW k \in Keys, Expire(k) PROVE PlanInv'
  BY <1>13 DEF Expire, Write, callVars
<1>14. ASSUME ClientConnects PROVE PlanInv'
  BY <1>14 DEF ClientConnects, callVars
<1>15. ASSUME ClientReady PROVE PlanInv'
  BY <1>15 DEF ClientReady, callVars, history
<1>16. ASSUME ConnectionLost PROVE PlanInv'
  BY <1>16 DEF ConnectionLost
<1>17. CASE UNCHANGED vars
  BY <1>17 DEF vars
<1>18. QED
  BY <1>1, <1>2, <1>3, <1>4, <1>5, <1>6, <1>7, <1>8, <1>9,
     <1>10, <1>11, <1>12, <1>13, <1>14, <1>15, <1>16, <1>17 DEF Next

\* The variables of RedisStore keep their types, its numbers their bounds, and a call never
\* has other commands left than the last ones of its operation.
THEOREM TypeCorrect == Spec => [](TypeInv /\ TypeOK)
<1>1. Init => TypeInv
  BY BoundsAssumption, EmptySeq
  DEF Init, TypeInv, Ranges, KeySets, Numbers, Deliveries, PlanInv, PCs, Statuses, Pending
<1>2. TypeInv /\ [Next]_vars => TypeInv'
  BY RangesStep, KeySetsStep, NumbersStep, DeliveriesStep, PlanStep DEF TypeInv
<1>3. TypeInv => TypeOK
  BY DEF TypeInv, TypeOK, Ranges, KeySets, Numbers, Deliveries, PlanInv, PCs, Statuses, Pending
<1>4. QED
  BY <1>1, <1>2, <1>3, PTL DEF Spec

-----------------------------------------------------------------------------
\* No call resolves with commands left that are to have an effect.
LEMMA ResolvedStep == Ranges /\ PlanInv /\ ResolvedInv /\ [Next]_vars => ResolvedInv'
<1> SUFFICES ASSUME Ranges, PlanInv, ResolvedInv, [Next]_vars PROVE ResolvedInv'
  OBVIOUS
<1> USE DEF PlanInv, Ranges, Pending, ResolvedInv
<1>1. ASSUME NEW c \in Calls, Begin(c) PROVE ResolvedInv'
  BY <1>1 DEF Begin, Proceed
<1>2. ASSUME NEW c \in Calls, ConnectRefused(c) PROVE ResolvedInv'
  BY <1>2 DEF ConnectRefused, Attempt
<1>3. ASSUME NEW c \in Calls, ConnectBegins(c) PROVE ResolvedInv'
  BY <1>3 DEF ConnectBegins
<1>4. ASSUME NEW c \in Calls, ConnectResolves(c) PROVE ResolvedInv'
  BY <1>4 DEF ConnectResolves, history
<1>5. ASSUME NEW c \in Calls, ConnectFails(c) PROVE ResolvedInv'
  BY <1>5 DEF ConnectFails, Attempt
<1>6. ASSUME NEW c \in Calls, Answered(c) PROVE ResolvedInv'
  BY <1>6 DEF Answered, Proceed
<1>7. ASSUME NEW c \in Calls, CommandFails(c) PROVE ResolvedInv'
  BY <1>7 DEF CommandFails, Attempt
<1>8. ASSUME NEW c \in Calls, Execute(c) PROVE ResolvedInv'
  BY <1>8 DEF Execute, Write
<1>9. ASSUME NEW c \in Calls, ExecuteDel(c) PROVE ResolvedInv'
  BY <1>9 DEF ExecuteDel, Write
<1>10. ASSUME NEW c \in Calls, DelFails(c) PROVE ResolvedInv'
  BY <1>10 DEF DelFails
<1>11. ASSUME NEW c \in Calls, PipelineResolves(c) PROVE ResolvedInv'
  BY <1>11 DEF PipelineResolves, PipelineExecuted, Proceed
<1>12. ASSUME NEW c \in Calls, Closed(c) PROVE ResolvedInv'
  BY <1>12 DEF Closed, Attempt
<1>13. ASSUME NEW k \in Keys, Expire(k) PROVE ResolvedInv'
  BY <1>13 DEF Expire, Write, callVars
<1>14. ASSUME ClientConnects PROVE ResolvedInv'
  BY <1>14 DEF ClientConnects, callVars
<1>15. ASSUME ClientReady PROVE ResolvedInv'
  BY <1>15 DEF ClientReady, callVars, history
<1>16. ASSUME ConnectionLost PROVE ResolvedInv'
  BY <1>16 DEF ConnectionLost
<1>17. CASE UNCHANGED vars
  BY <1>17 DEF vars
<1>18. QED
  BY <1>1, <1>2, <1>3, <1>4, <1>5, <1>6, <1>7, <1>8, <1>9,
     <1>10, <1>11, <1>12, <1>13, <1>14, <1>15, <1>16, <1>17 DEF Next

\* A set() has one command.
LEMMA SetOnce ==
    ASSUME PlanInv, NEW c \in Calls, pc[c] # "idle", todo[c] # <<>>, op[c].kind = "set"
    PROVE  Tail(todo[c]) = <<>>
<1>1. /\ op[c] \in Ops /\ Tail(todo[c]) \in Seq(CommandSet)
      /\ Len(Tail(todo[c])) = Len(todo[c]) - 1 /\ IsSuffix(todo[c], Commands(op[c]))
      /\ todo[c] \in Seq(CommandSet)
  BY AtCommand DEF PlanInv
<1>2. Len(Commands(op[c])) = 1
  BY <1>1, CommandsOf
<1>3. Len(todo[c]) \in Nat /\ Len(todo[c]) # 0 /\ Len(todo[c]) <= 1
  BY <1>1, <1>2, EmptySeq, LenProperties DEF IsSuffix
<1>4. \A n \in Nat : n # 0 /\ n <= 1 => n - 1 = 0
  OBVIOUS
<1>5. Len(Tail(todo[c])) = 0
  BY <1>1, <1>3, <1>4
<1>6. QED
  BY <1>1, <1>5, EmptySeq

\* A write of nothing, or of a set() that has not written before or was tried again.
LEMMA WriteKeeps ==
    ASSUME Ranges, WriteInv, NEW k \in Keys, NEW value \in Calls \cup {None},
           NEW expires \in BOOLEAN, Write(k, value, expires), op' = op, retried' = retried,
           \A d \in Calls : Wrote(d) => Wrote(d)',
           value # None => /\ Wrote(value)' /\ op[value].on = k
                           /\ value \in replaced => value \in retried
    PROVE  WriteInv'
<1>1. store' = [store EXCEPT ![k] = value]
      /\ replaced' = IF store[k] \in {None, value} THEN replaced ELSE replaced \cup {store[k]}
  BY DEF Write
<1>2. store \in [Keys -> Calls \cup {None}] /\ replaced \subseteq Calls
  BY DEF Ranges
<1>3. ASSUME NEW q \in Keys, store'[q] # None
      PROVE  (Wrote(store[q]) /\ op[store[q]].on = q)'
  <2>1. CASE q = k
    <3>1. store'[q] = value /\ value \in Calls
      BY <1>1, <1>2, <1>3, <2>1
    <3>2. QED
      BY <1>3, <2>1, <3>1 DEF Wrote
  <2>2. CASE q # k
    <3>1. store'[q] = store[q] /\ store[q] \in Calls /\ Wrote(store[q]) /\ op[store[q]].on = q
      BY <1>1, <1>2, <1>3, <2>2 DEF WriteInv
    <3>2. QED
      BY <3>1 DEF Wrote
  <2>3. QED
    BY <2>1, <2>2
<1>4. ASSUME NEW d \in replaced' PROVE Wrote(d)'
  <2>1. d \in Calls /\ Wrote(d)
    BY <1>1, <1>2 DEF WriteInv
  <2>2. QED
    BY <2>1
<1>5. \A q \in Keys : store'[q] \in replaced' => store'[q] \in retried'
  <2> SUFFICES ASSUME NEW q \in Keys, store'[q] \in replaced' PROVE store'[q] \in retried
    OBVIOUS
  <2>1. store'[q] # None
    BY NoneAssumption, <1>1, <1>2
  <2>2. CASE q = k
    BY <1>1, <1>2, <2>1, <2>2
  <2>3. CASE q # k
    BY <1>1, <1>2, <2>1, <2>3 DEF WriteInv
  <2>4. QED
    BY <2>2, <2>3
<1>6. QED
  BY <1>3, <1>4, <1>5 DEF WriteInv

\* A step that writes nothing.
LEMMA WriteStays ==
    ASSUME Ranges, WriteInv, UNCHANGED <<store, op, replaced>>, retried \subseteq retried',
           \A d \in Calls : Wrote(d) => Wrote(d)'
    PROVE  WriteInv'
<1>1. ASSUME NEW q \in Keys, store'[q] # None
      PROVE  (Wrote(store[q]) /\ op[store[q]].on = q)'
  <2>1. store'[q] = store[q] /\ store[q] \in Calls /\ Wrote(store[q]) /\ op[store[q]].on = q
    BY <1>1 DEF WriteInv, Ranges
  <2>2. QED
    BY <2>1 DEF Wrote
<1>2. ASSUME NEW d \in replaced' PROVE Wrote(d)'
  BY <1>2 DEF WriteInv, Ranges
<1>3. QED
  BY <1>1, <1>2 DEF WriteInv

\* Every step keeps values and the set() calls that wrote them related.
LEMMA WriteStep == Ranges /\ KeySets /\ PlanInv /\ WriteInv /\ [Next]_vars => WriteInv'
<1> SUFFICES ASSUME Ranges, KeySets, PlanInv, WriteInv, [Next]_vars PROVE WriteInv'
  OBVIOUS
<1>0. None \notin Calls
  BY NoneAssumption
<1> USE <1>0 DEF PlanInv, Ranges, Pending, WriteInv, Wrote
<1>1. ASSUME NEW c \in Calls, Begin(c) PROVE WriteInv'
  BY <1>1 DEF Begin, Proceed
<1>2. ASSUME NEW c \in Calls, ConnectRefused(c) PROVE WriteInv'
  <2>1. Attempt(c, "connect", "already connecting") /\ UNCHANGED <<store, op, todo, replaced>>
    BY <1>2 DEF ConnectRefused
  <2>2. /\ retried' = retried \cup {c} /\ executed' = [executed EXCEPT ![c] = FALSE]
        /\ \A d \in Calls : pc[d] # "idle" => pc'[d] # "idle"
    BY <2>1, AttemptShape
  <2>3. ASSUME NEW d \in Calls, Wrote(d) PROVE Wrote(d)'
    BY <2>1, <2>2, <2>3
  <2>4. QED
    BY <2>1, <2>2, <2>3, WriteStays
<1>3. ASSUME NEW c \in Calls, ConnectBegins(c) PROVE WriteInv'
  BY <1>3 DEF ConnectBegins
<1>4. ASSUME NEW c \in Calls, ConnectResolves(c) PROVE WriteInv'
  BY <1>4 DEF ConnectResolves, history
<1>5. ASSUME NEW c \in Calls, ConnectFails(c) PROVE WriteInv'
  BY <1>5 DEF ConnectFails, Attempt
<1>6. ASSUME NEW c \in Calls, Answered(c) PROVE WriteInv'
  <2>1. op[c].kind = "set" => Tail(todo[c]) = <<>>
    BY <1>6, SetOnce DEF Answered
  <2>2. QED
    BY <1>6, <2>1 DEF Answered, Proceed
<1>7. ASSUME NEW c \in Calls, CommandFails(c) PROVE WriteInv'
  BY <1>7 DEF CommandFails, Attempt
<1>8. ASSUME NEW c \in Calls, Execute(c) PROVE WriteInv'
  <2>1. /\ pc[c] = "command" /\ ~executed[c] /\ executed' = [executed EXCEPT ![c] = TRUE]
        /\ UNCHANGED <<op, todo, pc, retried>>
    BY <1>8 DEF Execute
  <2>2. \A d \in Calls : Wrote(d) => Wrote(d)'
    BY <2>1
  <2>3. CASE Head(todo[c]).name \in {"set", "setex"}
    <3>1. Write(Head(todo[c]).on, c, Head(todo[c]).name = "setex")
      BY <1>8, <2>3 DEF Execute
    <3>2. op[c].kind = "set" /\ Head(todo[c]).on = op[c].on /\ Head(todo[c]).on \in Keys
      BY <2>1, <2>3, CallsItself
    <3>3. Wrote(c)' /\ (c \in replaced => c \in retried)
      BY <2>1, <3>2
    <3>4. QED
      BY <2>1, <2>2, <2>3, <3>1, <3>2, <3>3, WriteKeeps
  <2>4. CASE Head(todo[c]).name = "del"
    <3>1. Write(Head(todo[c]).on, None, FALSE)
      BY <1>8, <2>4 DEF Execute
    <3>2. Head(todo[c]).on \in Keys
      BY <2>1, <2>4, CallsItself
    <3>3. QED
      BY <2>1, <2>2, <3>1, <3>2, WriteKeeps
  <2>5. CASE Head(todo[c]).name \notin {"set", "setex", "del"}
    <3>1. UNCHANGED <<store, replaced>>
      BY <1>8, <2>5 DEF Execute
    <3>2. QED
      BY <2>1, <2>2, <3>1
  <2>6. QED
    BY <2>3, <2>4, <2>5
<1>9. ASSUME NEW c \in Calls, ExecuteDel(c) PROVE WriteInv'
  <2>1. PICK k \in listed[c] : Write(k, None, FALSE)
    BY <1>9 DEF ExecuteDel
  <2>2. k \in Keys
    BY <2>1 DEF KeySets
  <2>3. UNCHANGED <<op, retried, pc, executed, todo>>
    BY <1>9 DEF ExecuteDel
  <2>4. QED
    BY <2>1, <2>2, <2>3, WriteKeeps
<1>10. ASSUME NEW c \in Calls, DelFails(c) PROVE WriteInv'
  BY <1>10 DEF DelFails
<1>11. ASSUME NEW c \in Calls, PipelineResolves(c) PROVE WriteInv'
  BY <1>11 DEF PipelineResolves, PipelineExecuted, Proceed
<1>12. ASSUME NEW c \in Calls, Closed(c) PROVE WriteInv'
  BY <1>12 DEF Closed, Attempt
<1>13. ASSUME NEW k \in Keys, Expire(k) PROVE WriteInv'
  <2>1. Write(k, None, FALSE) /\ UNCHANGED <<op, retried, pc, executed, todo>>
    BY <1>13 DEF Expire, callVars
  <2>2. QED
    BY <2>1, WriteKeeps
<1>14. ASSUME ClientConnects PROVE WriteInv'
  BY <1>14 DEF ClientConnects, callVars
<1>15. ASSUME ClientReady PROVE WriteInv'
  BY <1>15 DEF ClientReady, callVars, history
<1>16. ASSUME ConnectionLost PROVE WriteInv'
  BY <1>16 DEF ConnectionLost
<1>17. CASE UNCHANGED vars
  BY <1>17 DEF vars
<1>18. QED
  BY <1>1, <1>2, <1>3, <1>4, <1>5, <1>6, <1>7, <1>8, <1>9,
     <1>10, <1>11, <1>12, <1>13, <1>14, <1>15, <1>16, <1>17 DEF Next


-----------------------------------------------------------------------------
\* A call that a step leaves at its command, executed as before or failed.
LEMMA CallStays ==
    ASSUME NEW c \in Calls, DeliverCall(c), op'[c] = op[c], todo'[c] = todo[c],
           \A ch \in Channels : delivered'[ch][c] = delivered[ch][c],
           pc[c] = "idle" <=> pc'[c] = "idle", c \in retried => c \in retried',
           executed'[c] = executed[c] \/ (c \in retried' /\ executed'[c] = FALSE)
    PROVE  DeliverCall(c)'
<1>1. Position(c)' = Position(c)
  BY DEF Position
<1>2. QED
  BY <1>1 DEF DeliverCall

\* The failure of an attempt.
LEMMA AttemptStays ==
    ASSUME Ranges, NEW c \in Calls, NEW d \in Calls, DeliverCall(d), pc[c] # "idle",
           NEW again \in Pending, NEW why, Attempt(c, again, why),
           UNCHANGED <<delivered, op, todo>>
    PROVE  DeliverCall(d)'
<1>1. /\ retried' = retried \cup {c} /\ executed' = [executed EXCEPT ![c] = FALSE]
      /\ pc'[c] # "idle" /\ \A e \in Calls \ {c} : pc'[e] = pc[e]
  BY AttemptShape DEF Pending
<1>2. executed'[d] = executed[d] \/ (d \in retried' /\ executed'[d] = FALSE)
  BY <1>1 DEF Ranges
<1>3. QED
  BY <1>1, <1>2, CallStays

\* A call that publishes nothing.
LEMMA NoTargets ==
    ASSUME NEW c \in Calls, Deliveries, DeliverCall(c), op'[c] = op[c], Targets(op[c]) = <<>>,
           \A ch \in Channels : delivered'[ch][c] = delivered[ch][c]
    PROVE  DeliverCall(c)'
<1>1. \A i : i \notin 1..Len(Targets(op[c]))
  BY EmptySeq
<1>2. \A ch \in Channels : ~(delivered[ch][c] > 0) /\ ~(delivered[ch][c] > 1)
  BY <1>1 DEF DeliverCall, Deliveries
<1>3. \A i : i \notin 1..Len(Targets(op'[c]))
  BY <1>1
<1>4. QED
  BY <1>2, <1>3 DEF DeliverCall

\* The calls that publish send nothing else, and none publishes one message twice to a channel.
LEMMA PublishesOnly ==
    ASSUME PlanInv, NEW c \in Calls, pc[c] # "idle", todo[c] # <<>>
    PROVE  /\ Head(todo[c]).name # "publish" => Targets(op[c]) = <<>>
           /\ DistinctChannels =>
                \A i, j \in 1..Len(Targets(op[c])) : Targets(op[c])[i] = Targets(op[c])[j] => i = j
<1>1. op[c] \in Ops /\ Position(c) + 1 \in 1..Len(Commands(op[c]))
      /\ Head(todo[c]) = Commands(op[c])[Position(c) + 1]
  BY AtCommand
<1>2. Head(todo[c]).name # "publish" => op[c].kind \notin {"publish", "broadcast"}
  BY <1>1, CommandsOf
<1>3. QED
  BY <1>1, <1>2 DEF Targets, DistinctChannels

\* Every step keeps the deliveries of a call related to its progress.
LEMMA DeliverStep ==
    ASSUME DistinctChannels
    PROVE  Ranges /\ Deliveries /\ PlanInv /\ DeliverInv /\ [Next]_vars => DeliverInv'
<1> SUFFICES ASSUME Ranges, Deliveries, PlanInv, DeliverInv, [Next]_vars,
                    NEW d \in Calls
             PROVE  DeliverCall(d)'
  BY DEF DeliverInv
<1>0. DeliverCall(d)
  BY DEF DeliverInv
<1> USE DEF Ranges, Pending
<1>1. ASSUME NEW c \in Calls, Begin(c) PROVE DeliverCall(d)'
  <2>1. PICK o \in Ops : op' = [op EXCEPT ![c] = o] /\ Proceed(c, Commands(o))
    BY <1>1 DEF Begin
  <2>2. pc[c] = "idle" /\ UNCHANGED <<delivered, retried>>
    BY <1>1 DEF Begin
  <2>3. todo' = [todo EXCEPT ![c] = Commands(o)] /\ executed' = [executed EXCEPT ![c] = FALSE]
        /\ \A e \in Calls \ {c} : pc'[e] = pc[e]
    BY <2>1 DEF Proceed
  <2>4. CASE d = c
    <3>1. Len(Commands(o)) \in Nat /\ Position(c)' = 0
      <4>1. Commands(o) \in Seq(CommandSet)
        BY CommandsOf
      <4>2. op'[c] = o /\ todo'[c] = Commands(o)
        BY <2>1, <2>3 DEF PlanInv
      <4>3. Len(Commands(o)) \in Nat
        BY <4>1, LenProperties
      <4>4. QED
        BY <4>2, <4>3 DEF Position
    <3>2. \A ch \in Channels : ~(delivered'[ch][c] > 0) /\ ~(delivered'[ch][c] > 1)
      BY <1>0, <2>2, <2>4 DEF DeliverCall, Deliveries
    <3>3. executed'[c] = FALSE
      BY <2>3
    <3>4. QED
      BY <2>4, <3>1, <3>2, <3>3 DEF DeliverCall
  <2>5. CASE d # c
    <3>1. /\ op'[d] = op[d] /\ todo'[d] = todo[d] /\ executed'[d] = executed[d]
          /\ pc'[d] = pc[d] /\ \A ch \in Channels : delivered'[ch][d] = delivered[ch][d]
      BY <2>1, <2>2, <2>3, <2>5 DEF PlanInv
    <3>2. QED
      BY <1>0, <2>2, <3>1, CallStays
  <2>6. QED
    BY <2>4, <2>5
<1>2. ASSUME NEW c \in Calls, ConnectRefused(c) PROVE DeliverCall(d)'
  <2>1. Attempt(c, "connect", "already connecting") /\ UNCHANGED <<delivered, op, todo>>
        /\ pc[c] # "idle"
    BY <1>2 DEF ConnectRefused
  <2>2. QED
    BY <1>0, <2>1, AttemptStays
<1>3. ASSUME NEW c \in Calls, ConnectBegins(c) PROVE DeliverCall(d)'
  BY <1>0, <1>3, CallStays DEF ConnectBegins
<1>4. ASSUME NEW c \in Calls, ConnectResolves(c) PROVE DeliverCall(d)'
  BY <1>0, <1>4, CallStays DEF ConnectResolves, history
<1>5. ASSUME NEW c \in Calls, ConnectFails(c) PROVE DeliverCall(d)'
  <2>1. Attempt(c, "connect", "unreachable") /\ UNCHANGED <<delivered, op, todo>>
        /\ pc[c] # "idle"
    BY <1>5 DEF ConnectFails
  <2>2. QED
    BY <1>0, <2>1, AttemptStays
<1>6. ASSUME NEW c \in Calls, Answered(c) PROVE DeliverCall(d)'
  <2>1. /\ pc[c] = "command" /\ executed[c] /\ Proceed(c, Tail(todo[c]))
        /\ UNCHANGED <<delivered, op, retried>>
    BY <1>6 DEF Answered
  <2>2. /\ todo' = [todo EXCEPT ![c] = Tail(todo[c])] /\ executed' = [executed EXCEPT ![c] = FALSE]
        /\ \A e \in Calls : pc'[e] = "idle" <=> pc[e] = "idle"
    BY <2>1 DEF Proceed
  <2>3. CASE d = c
    <3>1. todo[c] # <<>>
      BY <2>1 DEF PlanInv
    <3>2. Position(c) \in Int /\ Position(c)' = Position(c) + 1
      <4>1. /\ Len(Commands(op[c])) \in Nat /\ Len(todo[c]) \in Nat /\ Position(c) \in Nat
            /\ Len(Tail(todo[c])) = Len(todo[c]) - 1
        BY <2>1, <3>1, AtCommand
      <4>2. op'[c] = op[c] /\ todo'[c] = Tail(todo[c])
        BY <2>1, <2>2 DEF PlanInv
      <4>3. /\ Position(c)' = Len(Commands(op[c])) - (Len(todo[c]) - 1)
            /\ Position(c) = Len(Commands(op[c])) - Len(todo[c])
        BY <4>1, <4>2 DEF Position
      <4>4. \A m, n \in Nat : m - (n - 1) = (m - n) + 1
        OBVIOUS
      <4>5. QED
        BY <4>1, <4>3, <4>4
    <3>3. op'[c] = op[c] /\ executed'[c] = FALSE /\ pc'[c] # "idle" /\ executed[c]
      BY <2>1, <2>2
    <3>4. \A i \in Nat : i <= Position(c)' <=> i <= Position(c) \/ i = Position(c) + 1
      BY <3>2
    <3>5. QED
      BY <1>0, <2>1, <2>3, <3>3, <3>4 DEF DeliverCall
  <2>4. CASE d # c
    BY <1>0, <2>1, <2>2, <2>4, CallStays DEF PlanInv
  <2>5. QED
    BY <2>3, <2>4
<1>7. ASSUME NEW c \in Calls, CommandFails(c) PROVE DeliverCall(d)'
  <2>1. Attempt(c, "command", "command") /\ UNCHANGED <<delivered, op, todo>> /\ pc[c] # "idle"
    BY <1>7 DEF CommandFails
  <2>2. QED
    BY <1>0, <2>1, AttemptStays
<1>8. ASSUME NEW c \in Calls, Execute(c) PROVE DeliverCall(d)'
  <2>1. /\ pc[c] = "command" /\ ~executed[c] /\ executed' = [executed EXCEPT ![c] = TRUE]
        /\ UNCHANGED <<op, todo, pc, retried>>
    BY <1>8 DEF Execute
  <2>2. todo[c] # <<>>
    BY <2>1 DEF PlanInv
  <2>3. CASE Head(todo[c]).name = "publish"
    <3> DEFINE at == Head(todo[c]).on
    <3>1. delivered' = [delivered EXCEPT ![at] = [delivered[at] EXCEPT ![c] = delivered[at][c] + 1]]
      BY <1>8, <2>3 DEF Execute
    <3>2. /\ Position(c) + 1 \in 1..Len(Targets(op[c])) /\ at \in Channels
          /\ at = Targets(op[c])[Position(c) + 1]
      BY <2>1, <2>2, <2>3, CallsItself
    <3>3. /\ \A ch \in Channels \ {at} : delivered'[ch] = delivered[ch]
          /\ delivered'[at][c] = delivered[at][c] + 1
          /\ \A e \in Calls \ {c} : delivered'[at][e] = delivered[at][e]
      BY <3>1, <3>2 DEF Deliveries
    <3>4. CASE d = c
      <4> HIDE DEF at
      <4>1. Position(c)' = Position(c)
        BY <2>1 DEF Position
      <4>2. \A i \in 1..Len(Targets(op[c])) : Targets(op[c])[i] = at => i = Position(c) + 1
        BY <2>1, <2>2, <3>2, PublishesOnly
      <4>3. delivered[at][c] \in Nat /\ executed'[c] = TRUE
        BY <2>1, <3>2 DEF Deliveries
      <4>4. delivered[at][c] > 0 => c \in retried
        <5>1. Position(c) \in Nat
          BY <2>1, <2>2, AtCommand
        <5>2. ~(Position(c) + 1 <= Position(c))
          BY <5>1
        <5>3. QED
          BY <1>0, <2>1, <3>2, <3>4, <4>2, <5>2 DEF DeliverCall
      <4>5. ASSUME NEW ch \in Channels, ch # at
            PROVE  delivered'[ch][c] = delivered[ch][c]
                   /\ \A i \in 1..Len(Targets(op[c])) :
                         Targets(op[c])[i] = ch => i # Position(c) + 1
        BY <3>2, <3>3, <4>5
      <4>6. QED
        BY <1>0, <2>1, <3>2, <3>3, <3>4, <4>1, <4>2, <4>3, <4>4, <4>5 DEF DeliverCall
    <3>5. CASE d # c
      <4>1. \A ch \in Channels : delivered'[ch][d] = delivered[ch][d]
        BY <3>3, <3>5
      <4>2. QED
        BY <1>0, <2>1, <3>5, <4>1, CallStays
    <3>6. QED
      BY <3>4, <3>5
  <2>4. CASE Head(todo[c]).name # "publish"
    <3>1. delivered' = delivered
      BY <1>8, <2>4 DEF Execute
    <3>2. CASE d = c
      BY <1>0, <2>1, <2>2, <2>4, <3>1, <3>2, PublishesOnly, NoTargets
    <3>3. CASE d # c
      BY <1>0, <2>1, <3>1, <3>3, CallStays
    <3>4. QED
      BY <3>2, <3>3
  <2>5. QED
    BY <2>3, <2>4
<1>9. ASSUME NEW c \in Calls, ExecuteDel(c) PROVE DeliverCall(d)'
  BY <1>0, <1>9, CallStays DEF ExecuteDel
<1>10. ASSUME NEW c \in Calls, DelFails(c) PROVE DeliverCall(d)'
  BY <1>0, <1>10, CallStays DEF DelFails
<1>11. ASSUME NEW c \in Calls, PipelineResolves(c) PROVE DeliverCall(d)'
  <2>1. /\ pc[c] = "command" /\ Head(todo[c]).name = "exec" /\ Proceed(c, <<>>)
        /\ UNCHANGED <<delivered, op, retried>>
    BY <1>11 DEF PipelineResolves, PipelineExecuted
  <2>2. CASE d = c
    <3>1. todo[c] # <<>>
      BY <2>1 DEF PlanInv
    <3>2. Targets(op[c]) = <<>>
      BY <2>1, <3>1, PublishesOnly
    <3>3. QED
      BY <1>0, <2>1, <2>2, <3>2, NoTargets
  <2>3. CASE d # c
    <3>1. todo'[d] = todo[d] /\ executed'[d] = executed[d] /\ pc'[d] = pc[d]
      BY <2>1, <2>3 DEF Proceed, PlanInv
    <3>2. QED
      BY <1>0, <2>1, <3>1, CallStays
  <2>4. QED
    BY <2>2, <2>3
<1>12. ASSUME NEW c \in Calls, Closed(c) PROVE DeliverCall(d)'
  <2>1. UNCHANGED <<delivered, op, todo>> /\ pc[c] # "idle"
    BY <1>12 DEF Closed
  <2>2. CASE Head(todo[c]).name = "exec"
    <3>1. UNCHANGED <<pc, executed, retried>>
      BY <1>12, <2>2 DEF Closed
    <3>2. QED
      BY <1>0, <2>1, <3>1, CallStays
  <2>3. CASE Head(todo[c]).name # "exec"
    <3>1. Attempt(c, "command", "closed")
      BY <1>12, <2>3 DEF Closed
    <3>2. QED
      BY <1>0, <2>1, <3>1, AttemptStays
  <2>4. QED
    BY <2>2, <2>3
<1>13. ASSUME NEW k \in Keys, Expire(k) PROVE DeliverCall(d)'
  BY <1>0, <1>13, CallStays DEF Expire, callVars
<1>14. ASSUME ClientConnects PROVE DeliverCall(d)'
  BY <1>0, <1>14, CallStays DEF ClientConnects, callVars
<1>15. ASSUME ClientReady PROVE DeliverCall(d)'
  BY <1>0, <1>15, CallStays DEF ClientReady, callVars, history
<1>16. ASSUME ConnectionLost PROVE DeliverCall(d)'
  <2>1. PICK lost \in SUBSET Calls :
           /\ \/ UNCHANGED <<executed, retried>>
              \/ /\ executed' = [c \in Calls |-> executed[c] /\ c \notin lost]
                 /\ retried' = retried \cup lost
           /\ UNCHANGED <<delivered, op, todo, pc>>
    <3>1. CASE UNCHANGED <<executed, retried>>
      BY <1>16, <3>1 DEF ConnectionLost
    <3>2. CASE ~UNCHANGED <<executed, retried>>
      BY <1>16, <3>2 DEF ConnectionLost
    <3>3. QED
      BY <3>1, <3>2
  <2>2. executed'[d] = executed[d] \/ (d \in retried' /\ executed'[d] = FALSE)
    BY <2>1
  <2>3. d \in retried => d \in retried'
    BY <2>1
  <2>4. QED
    BY <1>0, <2>1, <2>2, <2>3, CallStays
<1>17. CASE UNCHANGED vars
  BY <1>0, <1>17, CallStays DEF vars
<1>18. QED
  BY <1>1, <1>2, <1>3, <1>4, <1>5, <1>6, <1>7, <1>8, <1>9,
     <1>10, <1>11, <1>12, <1>13, <1>14, <1>15, <1>16, <1>17 DEF Next

-----------------------------------------------------------------------------
\* A call that a step leaves where it wants to connect, or that it does not bring there.
LEMMA ConnectStays ==
    ASSUME NEW c \in Calls, ConnectCall(c), op'[c] = op[c], todo'[c] = todo[c],
           c \in overlapped => c \in overlapped', pc[c] \in Ended => pc'[c] = pc[c],
           reason'[c] = reason[c] \/ reason'[c] # "already connecting",
           \/ pc'[c] # "connect" \/ status' \notin {"connecting", "ready"} \/ c \in overlapped'
           \/ pc[c] = "connect" /\ status \in {"connecting", "ready"}
    PROVE  ConnectCall(c)'
BY DEF ConnectCall

\* A call goes on to its next command.
LEMMA ConnectProceeds ==
    ASSUME Ranges, NEW c \in Calls, ConnectCall(c), NEW commands, Proceed(c, commands),
           todo \in [Calls -> Seq(CommandSet)], pc[c] \notin Ended,
           UNCHANGED <<status, reason>>,
           \A e \in Calls \ {c} : op'[e] = op[e], NEW d \in Calls, ConnectCall(d)
    PROVE  ConnectCall(d)'
<1>1. /\ todo' = [todo EXCEPT ![c] = commands] /\ overlapped \subseteq overlapped' \cup {c}
      /\ \A e \in Calls \ {c} : pc'[e] = pc[e]
  BY DEF Proceed, Ranges
<1>2. CASE d = c
  <2>1. todo'[c] = commands
    BY <1>1
  <2>2. ASSUME pc'[c] = "connect", status \in {"connecting", "ready"}
        PROVE  c \in overlapped' \/ Head(commands).name = "open"
    <3>1. ~Ready(Head(commands))
      BY <2>2 DEF Proceed, Ranges
    <3>2. CASE status = "connecting"
      BY <2>2, <3>2 DEF Proceed
    <3>3. CASE status = "ready"
      BY <3>1, <3>3 DEF Ready, Connected
    <3>4. QED
      BY <2>2, <3>2, <3>3
  <2>3. QED
    BY <1>1, <1>2, <2>1, <2>2 DEF ConnectCall
<1>3. CASE d # c
  BY <1>1, <1>3, ConnectStays
<1>4. QED
  BY <1>2, <1>3

\* An attempt fails.
LEMMA ConnectFailed ==
    ASSUME Ranges, NEW c \in Calls, NEW again \in Pending, NEW why, Attempt(c, again, why),
           pc[c] \notin Ended, UNCHANGED <<op, todo, overlapped>>, NEW d \in Calls,
           ConnectCall(c), ConnectCall(d),
           status' = status \/ status' \notin {"connecting", "ready"},
           again = "connect" => pc[c] = "connect" \/ status' \notin {"connecting", "ready"},
           why = "already connecting" => c \in overlapped \/ op[c].kind = "connectPublisher"
    PROVE  ConnectCall(d)'
<1>1. /\ \A e \in Calls \ {c} : pc'[e] = pc[e]
      /\ pc'[c] \in {again, "resolved", "rejected"}
      /\ reason'[c] \in {reason[c], why} /\ \A e \in Calls \ {c} : reason'[e] = reason[e]
  BY AttemptShape
<1>2. CASE d = c
  <2>1. reason[c] # "already connecting"
    BY DEF ConnectCall
  <2>2. reason'[c] = reason[c] \/ pc'[c] \in Ended
    BY DEF Attempt, Ranges, Ended
  <2>3. QED
    BY <1>1, <1>2, <2>1, <2>2 DEF ConnectCall, Ended
<1>3. CASE d # c
  BY <1>1, <1>3, ConnectStays
<1>4. QED
  BY <1>2, <1>3

\* Every step keeps calls that want to connect related to the client.
LEMMA ConnectStep == Ranges /\ PlanInv /\ ConnectInv /\ [Next]_vars => ConnectInv'
<1> SUFFICES ASSUME Ranges, PlanInv, ConnectInv, [Next]_vars, NEW d \in Calls
             PROVE  ConnectCall(d)'
  BY DEF ConnectInv
<1>0. /\ \A c \in Calls : ConnectCall(c) /\ todo \in [Calls -> Seq(CommandSet)]
      /\ ConnectCall(d)
  BY DEF ConnectInv, PlanInv
<1> USE DEF Pending, Ended
<1>1. ASSUME NEW c \in Calls, Begin(c) PROVE ConnectCall(d)'
  <2>1. PICK o \in Ops : op' = [op EXCEPT ![c] = o] /\ Proceed(c, Commands(o))
    BY <1>1 DEF Begin
  <2>2. pc[c] = "idle" /\ UNCHANGED <<status, reason>> /\ \A e \in Calls \ {c} : op'[e] = op[e]
    BY <1>1, <2>1 DEF Begin, Ranges
  <2>3. QED
    BY <1>0, <2>1, <2>2, ConnectProceeds
<1>2. ASSUME NEW c \in Calls, ConnectRefused(c) PROVE ConnectCall(d)'
  <2>1. /\ Attempt(c, "connect", "already connecting") /\ UNCHANGED <<status, op, todo, overlapped>>
        /\ pc[c] = "connect" /\ status \in {"connecting", "ready"}
    BY <1>2 DEF ConnectRefused
  <2>2. todo[c] # <<>>
    BY <2>1 DEF PlanInv
  <2>3. c \in overlapped \/ op[c].kind = "connectPublisher"
    BY <1>0, <2>1, <2>2, CallsItself DEF ConnectCall
  <2>4. QED
    BY <1>0, <2>1, <2>3, ConnectFailed
<1>3. ASSUME NEW c \in Calls, ConnectBegins(c) PROVE ConnectCall(d)'
  <2>1. /\ pc' = [pc EXCEPT ![c] = "awaiting"] /\ UNCHANGED <<op, todo, reason>>
        /\ overlapped' = (overlapped \cup {e \in Calls : pc[e] = "connect"}) \ {c}
        /\ pc[c] = "connect"
    BY <1>3 DEF ConnectBegins
  <2>2. CASE d = c
    BY <1>0, <2>1, <2>2 DEF Ranges, ConnectCall
  <2>3. CASE d # c
    <3>1. pc'[d] = pc[d] /\ (pc'[d] # "connect" \/ d \in overlapped')
          /\ (d \in overlapped => d \in overlapped')
      BY <2>1, <2>3 DEF Ranges
    <3>2. QED
      BY <1>0, <2>1, <3>1, ConnectStays
  <2>4. QED
    BY <2>2, <2>3
<1>4. ASSUME NEW c \in Calls, ConnectResolves(c) PROVE ConnectCall(d)'
  <2>1. UNCHANGED <<op, todo, reason, overlapped, status>>
    BY <1>4 DEF ConnectResolves, history
  <2>2. /\ pc'[c] \in {"resolved", "command"} /\ \A e \in Calls \ {c} : pc'[e] = pc[e]
        /\ pc[c] = "awaiting"
    BY <1>4 DEF ConnectResolves, Ranges
  <2>3. QED
    BY <1>0, <2>1, <2>2 DEF ConnectCall
<1>5. ASSUME NEW c \in Calls, ConnectFails(c) PROVE ConnectCall(d)'
  <2>1. Attempt(c, "connect", "unreachable") /\ UNCHANGED <<op, todo, overlapped>>
        /\ pc[c] \notin Ended /\ status' \notin {"connecting", "ready"}
    BY <1>5 DEF ConnectFails
  <2>2. "unreachable" # "already connecting" /\ "connect" \in Pending
    OBVIOUS
  <2>3. QED
    BY <1>0, <2>1, <2>2, ConnectFailed
<1>6. ASSUME NEW c \in Calls, Answered(c) PROVE ConnectCall(d)'
  BY <1>0, <1>6, ConnectProceeds DEF Answered
<1>7. ASSUME NEW c \in Calls, CommandFails(c) PROVE ConnectCall(d)'
  <2>1. Attempt(c, "command", "command") /\ UNCHANGED <<op, todo, overlapped>>
        /\ pc[c] \notin Ended /\ status' \in {status, "end", "wait"}
    BY <1>7 DEF CommandFails
  <2>2. /\ "command" # "already connecting" /\ "command" # "connect"
        /\ "command" \in Pending /\ (status' = status \/ status' \notin {"connecting", "ready"})
    BY <2>1
  <2>3. QED
    BY <1>0, <2>1, <2>2, ConnectFailed
<1>8. ASSUME NEW c \in Calls, Execute(c) PROVE ConnectCall(d)'
  <2>1. UNCHANGED <<op, todo, pc, reason, overlapped>>
    BY <1>8 DEF Execute
  <2>2. status' \in {status, "end"}
    BY <1>8 DEF Execute
  <2>3. QED
    BY <1>0, <2>1, <2>2, ConnectStays
<1>9. ASSUME NEW c \in Calls, ExecuteDel(c) PROVE ConnectCall(d)'
  BY <1>0, <1>9 DEF ExecuteDel, ConnectCall
<1>10. ASSUME NEW c \in Calls, DelFails(c) PROVE ConnectCall(d)'
  BY <1>0, <1>10 DEF DelFails, ConnectCall
<1>11. ASSUME NEW c \in Calls, PipelineResolves(c) PROVE ConnectCall(d)'
  BY <1>0, <1>11, ConnectProceeds DEF PipelineResolves
<1>12. ASSUME NEW c \in Calls, Closed(c) PROVE ConnectCall(d)'
  <2>1. UNCHANGED <<op, todo, overlapped, status>> /\ pc[c] \notin Ended
    BY <1>12 DEF Closed
  <2>2. CASE Head(todo[c]).name = "exec"
    <3>1. UNCHANGED <<pc, reason>>
      BY <1>12, <2>2 DEF Closed
    <3>2. QED
      BY <1>0, <2>1, <3>1 DEF ConnectCall
  <2>3. CASE Head(todo[c]).name # "exec"
    <3>1. Attempt(c, "command", "closed")
      BY <1>12, <2>3 DEF Closed
    <3>2. /\ "closed" # "already connecting" /\ "command" # "connect"
          /\ "command" \in Pending /\ status' = status
      BY <2>1
    <3>3. QED
      BY <1>0, <2>1, <3>1, <3>2, ConnectFailed
  <2>4. QED
    BY <2>2, <2>3
<1>13. ASSUME NEW k \in Keys, Expire(k) PROVE ConnectCall(d)'
  BY <1>0, <1>13 DEF Expire, callVars, ConnectCall
<1>14. ASSUME ClientConnects PROVE ConnectCall(d)'
  BY <1>0, <1>14, ConnectStays DEF ClientConnects, callVars
<1>15. ASSUME ClientReady PROVE ConnectCall(d)'
  BY <1>0, <1>15 DEF ClientReady, callVars, history, ConnectCall
<1>16. ASSUME ConnectionLost PROVE ConnectCall(d)'
  BY <1>0, <1>16, ConnectStays DEF ConnectionLost, callVars, history
<1>17. CASE UNCHANGED vars
  BY <1>0, <1>17 DEF vars, ConnectCall
<1>18. QED
  BY <1>1, <1>2, <1>3, <1>4, <1>5, <1>6, <1>7, <1>8, <1>9,
     <1>10, <1>11, <1>12, <1>13, <1>14, <1>15, <1>16, <1>17 DEF Next

-----------------------------------------------------------------------------
\* clearCache has two commands.
LEMMA ClearCommands ==
    ASSUME PlanInv, NEW c \in Calls, pc[c] # "idle", op[c].kind = "clear", todo[c] # <<>>
    PROVE  /\ Head(todo[c]).name \in {"keys", "exec"}
           /\ Head(todo[c]).name = "keys" => Len(todo[c]) = 2 /\ Tail(todo[c]) # <<>>
<1>1. /\ op[c] \in Ops /\ Position(c) + 1 \in 1..Len(Commands(op[c]))
      /\ Head(todo[c]) = Commands(op[c])[Position(c) + 1]
      /\ Len(Tail(todo[c])) = Len(todo[c]) - 1 /\ Tail(todo[c]) \in Seq(CommandSet)
      /\ Len(todo[c]) = Len(Commands(op[c])) - Position(c) /\ Position(c) \in Nat
  BY AtCommand
<1>2. Commands(op[c]) = ClearCache
  BY <1>1, CommandsOf
<1>3. /\ ClearCache[1].name = "keys" /\ ClearCache[2].name = "exec" /\ Len(ClearCache) = 2
      /\ \A i \in 1..Len(ClearCache) : i = 1 \/ i = 2
  BY DEF ClearCache, Command
<1>4. Head(todo[c]).name \in {"keys", "exec"}
  BY <1>1, <1>2, <1>3
<1>5. ASSUME Head(todo[c]).name = "keys" PROVE Len(todo[c]) = 2 /\ Tail(todo[c]) # <<>>
  <2>1. Position(c) + 1 = 1
    BY <1>1, <1>2, <1>3, <1>5
  <2>2. Position(c) = 0
    BY <1>1, <2>1
  <2>3. Len(todo[c]) = 2
    BY <1>1, <1>2, <1>3, <2>2
  <2>4. Len(Tail(todo[c])) = 2 - 1
    BY <1>1, <2>3
  <2>5. 2 - 1 # 0
    OBVIOUS
  <2>6. QED
    BY <1>1, <2>3, <2>4, <2>5, EmptySeq
<1>6. QED
  BY <1>4, <1>5

\* The pipeline is the last command.
LEMMA ExecIsLast ==
    ASSUME PlanInv, NEW c \in Calls, pc[c] # "idle", todo[c] # <<>>, Head(todo[c]).name = "exec"
    PROVE  op[c].kind = "clear" /\ Len(todo[c]) <= 1
<1>1. /\ op[c] \in Ops /\ Position(c) + 1 \in 1..Len(Commands(op[c]))
      /\ Head(todo[c]) = Commands(op[c])[Position(c) + 1]
      /\ Len(todo[c]) = Len(Commands(op[c])) - Position(c) /\ Position(c) \in Nat
  BY AtCommand
<1>2. op[c].kind = "clear" /\ Position(c) + 1 = 2 /\ Commands(op[c]) = ClearCache
  BY <1>1, CommandsOf
<1>3. Len(ClearCache) = 2
  BY DEF ClearCache
<1>4. Position(c) = 1
  BY <1>1, <1>2
<1>5. QED
  BY <1>1, <1>2, <1>3, <1>4

\* A step that leaves a call at its command, and writes no key but those it takes note of.
LEMMA ClearStays ==
    ASSUME NEW c \in Calls, ClearCall(c), op'[c] = op[c], todo'[c] = todo[c],
           listed'[c] = listed[c], found'[c] = found[c], asked'[c] = asked[c],
           unheard[c] \subseteq unheard'[c],
           untouched'[c] \subseteq untouched[c], \A k \in untouched'[c] : store'[k] # None,
           pc[c] = "idle" <=> pc'[c] = "idle", executed'[c] => executed[c]
    PROVE  ClearCall(c)'
BY DEF ClearCall

\* What a write leaves untouched is in the store still.
LEMMA WriteClears ==
    ASSUME Ranges, KeySets, ClearInv, NEW k \in Keys, NEW value, NEW expires,
           Write(k, value, expires), NEW d \in Calls
    PROVE  /\ untouched'[d] \subseteq untouched[d] \ {k}
           /\ \A q \in untouched'[d] : store'[q] # None
<1>1. untouched'[d] = untouched[d] \ {k} /\ untouched[d] \subseteq Keys
  BY DEF Write, KeySets
<1>2. \A q \in untouched'[d] : store'[q] = store[q]
  BY <1>1 DEF Write, Ranges
<1>3. QED
  BY <1>1, <1>2 DEF ClearInv, ClearCall

\* A step that writes nothing.
LEMMA ClearKept ==
    ASSUME NEW c \in Calls, ClearCall(c), op'[c] = op[c], todo'[c] = todo[c],
           UNCHANGED <<store, untouched, unheard>>, listed'[c] = listed[c],
           found'[c] = found[c], asked'[c] = asked[c],
           pc[c] = "idle" <=> pc'[c] = "idle", executed'[c] => executed[c]
    PROVE  ClearCall(c)'
BY ClearStays DEF ClearCall

\* The pipeline of a clearCache has nothing left to delete.
LEMMA ClearResolved ==
    ASSUME NEW c \in Calls, ClearCall(c), listed[c] = {}, listed'[c] = listed[c],
           found'[c] = found[c], asked'[c] = asked[c], UNCHANGED <<store, untouched, unheard>>,
           \A k \in untouched[c] : NodeOf[k] = asked[c] => k \in unheard[c]
    PROVE  ClearCall(c)'
BY DEF ClearCall

\* The pipeline is sent again from its beginning.
LEMMA ClearResent ==
    ASSUME NEW c \in Calls, ClearCall(c), op'[c] = op[c], todo'[c] = todo[c], todo[c] # <<>>,
           listed'[c] = found[c], found'[c] = found[c], asked'[c] = asked[c],
           UNCHANGED <<store, untouched, unheard, pc>>, executed'[c] => executed[c]
    PROVE  ClearCall(c)'
BY DEF ClearCall

\* The failure of an attempt.
LEMMA ClearFailed ==
    ASSUME Ranges, NEW c \in Calls, NEW d \in Calls, ClearCall(d), pc[c] # "idle",
           NEW again \in Pending, NEW why, Attempt(c, again, why),
           UNCHANGED <<store, op, todo, listed, found, asked, untouched, unheard>>
    PROVE  ClearCall(d)'
<1>1. /\ executed' = [executed EXCEPT ![c] = FALSE]
      /\ pc'[c] # "idle" /\ \A e \in Calls \ {c} : pc'[e] = pc[e]
  BY AttemptShape DEF Pending
<1>2. executed'[d] => executed[d]
  BY <1>1 DEF Ranges
<1>3. QED
  BY <1>1, <1>2, ClearKept

\* A key leaves the list of a clearCache, deleted or not.
LEMMA ListShrinks ==
    ASSUME PlanInv, NEW c \in Calls, ClearCall(c), pc[c] # "idle", NEW gone \in SUBSET listed[c],
           UNCHANGED <<op, todo, pc, executed, found, asked>>,
           listed'[c] = listed[c] \ gone,
           \A k \in gone : k \notin untouched'[c] \/ k \in unheard'[c],
           unheard[c] \subseteq unheard'[c], untouched'[c] \subseteq untouched[c],
           \A k \in untouched'[c] : store'[k] # None
    PROVE  ClearCall(c)'
<1>1. ASSUME \A k \in untouched[c] :
                NodeOf[k] = asked[c] => k \in listed[c] \/ k \in unheard[c]
      PROVE  \A k \in untouched'[c] :
                NodeOf[k] = asked'[c] => k \in listed'[c] \/ k \in unheard'[c]
  BY <1>1
<1>2. listed[c] = {} => listed'[c] = {}
  OBVIOUS
<1>3. QED
  BY <1>1, <1>2 DEF ClearCall

\* Every step keeps the list of a clearCache related to the keys it must delete.
LEMMA ClearStep == Ranges /\ KeySets /\ PlanInv /\ ClearInv /\ [Next]_vars => ClearInv'
<1> SUFFICES ASSUME Ranges, KeySets, PlanInv, ClearInv, [Next]_vars, NEW d \in Calls
             PROVE  ClearCall(d)'
  BY DEF ClearInv
<1>0. ClearCall(d) /\ \A c \in Calls : pc[c] = "command" => todo[c] # <<>>
  BY DEF ClearInv, PlanInv, Pending
<1> USE DEF Ranges, KeySets
<1>1. ASSUME NEW c \in Calls, Begin(c) PROVE ClearCall(d)'
  <2>1. PICK o \in Ops :
           /\ op' = [op EXCEPT ![c] = o] /\ Proceed(c, Commands(o))
           /\ untouched' = [untouched EXCEPT ![c] =
                  IF o.kind = "clear" THEN {k \in Keys : store[k] # None} ELSE {}]
    BY <1>1 DEF Begin
  <2>2. UNCHANGED <<store, listed, unheard, found, asked>>
    BY <1>1 DEF Begin
  <2>3. /\ todo' = [todo EXCEPT ![c] = Commands(o)] /\ executed' = [executed EXCEPT ![c] = FALSE]
        /\ \A e \in Calls \ {c} : pc'[e] = pc[e]
    BY <2>1 DEF Proceed
  <2>4. CASE d = c
    <3>1. op'[c] = o /\ todo'[c] = Commands(o) /\ executed'[c] = FALSE
      BY <2>1, <2>3 DEF PlanInv
    <3>2. o.kind = "clear" => ~(Len(todo'[c]) <= 1) /\ todo'[c] # <<>>
      <4>1. o.kind = "clear" => Commands(o) = ClearCache
        BY CommandsOf
      <4>2. Len(ClearCache) = 2 /\ ~(Len(ClearCache) <= 1) /\ ClearCache # <<>>
        BY DEF ClearCache
      <4>3. QED
        BY <3>1, <4>1, <4>2
    <3>3. listed'[c] \subseteq found'[c] /\ \A k \in untouched'[c] : store'[k] # None
      BY <1>0, <2>1, <2>2, <2>4 DEF ClearCall
    <3>4. QED
      BY <2>4, <3>1, <3>2, <3>3 DEF ClearCall
  <2>5. CASE d # c
    <3>1. \A k \in untouched'[d] : store'[k] # None
      BY <1>0, <2>1, <2>2, <2>5 DEF ClearCall
    <3>2. QED
      BY <1>0, <2>1, <2>2, <2>3, <2>5, <3>1, ClearStays DEF PlanInv
  <2>6. QED
    BY <2>4, <2>5
<1>2. ASSUME NEW c \in Calls, ConnectRefused(c) PROVE ClearCall(d)'
  <2>1. /\ Attempt(c, "connect", "already connecting") /\ pc[c] # "idle"
        /\ UNCHANGED <<store, op, todo, listed, found, asked, untouched, unheard>>
    BY <1>2 DEF ConnectRefused
  <2>2. QED
    BY <1>0, <2>1, ClearFailed DEF Pending
<1>3. ASSUME NEW c \in Calls, ConnectBegins(c) PROVE ClearCall(d)'
  BY <1>0, <1>3, ClearKept DEF ConnectBegins
<1>4. ASSUME NEW c \in Calls, ConnectResolves(c) PROVE ClearCall(d)'
  BY <1>0, <1>4, ClearKept DEF ConnectResolves, history
<1>5. ASSUME NEW c \in Calls, ConnectFails(c) PROVE ClearCall(d)'
  <2>1. /\ Attempt(c, "connect", "unreachable") /\ pc[c] # "idle"
        /\ UNCHANGED <<store, op, todo, listed, found, asked, untouched, unheard>>
    BY <1>5 DEF ConnectFails
  <2>2. QED
    BY <1>0, <2>1, ClearFailed DEF Pending
<1>6. ASSUME NEW c \in Calls, Answered(c) PROVE ClearCall(d)'
  <2>1. /\ pc[c] = "command" /\ executed[c] /\ Proceed(c, Tail(todo[c]))
        /\ UNCHANGED <<store, op, listed, found, asked, untouched, unheard>>
    BY <1>6 DEF Answered
  <2>2. /\ todo' = [todo EXCEPT ![c] = Tail(todo[c])] /\ executed' = [executed EXCEPT ![c] = FALSE]
        /\ \A e \in Calls \ {c} : pc'[e] = pc[e]
    BY <2>1 DEF Proceed
  <2>3. CASE d = c
    <3>1. op[c].kind = "clear" => Tail(todo[c]) # <<>>
      BY <1>0, <2>1, ClearCommands DEF PlanInv
    <3>2. op'[c] = op[c] /\ todo'[c] = Tail(todo[c]) /\ executed[c]
      BY <2>1, <2>2 DEF PlanInv
    <3>3. store' = store /\ untouched' = untouched /\ unheard' = unheard /\ listed' = listed
          /\ found' = found /\ asked' = asked
      BY <2>1
    <3>4. op[c].kind = "clear" =>
             \A k \in untouched[c] :
                NodeOf[k] = asked[c] => k \in listed[c] \/ k \in unheard[c]
      <4>1. pc[c] # "idle" /\ executed[c] /\ ClearCall(c)
        BY <1>0, <2>1, <2>3
      <4>2. QED
        BY ONLY <4>1 DEF ClearCall
    <3>5. listed[c] \subseteq found[c] /\ \A k \in untouched[c] : store[k] # None
      BY ONLY <1>0, <2>3 DEF ClearCall
    <3>6. ClearCall(c)'
      BY ONLY <3>1, <3>2, <3>3, <3>4, <3>5 DEF ClearCall
    <3>7. QED
      BY ONLY <2>3, <3>6
  <2>4. CASE d # c
    BY <1>0, <2>1, <2>2, <2>4, ClearKept DEF PlanInv
  <2>5. QED
    BY <2>3, <2>4
<1>7. ASSUME NEW c \in Calls, CommandFails(c) PROVE ClearCall(d)'
  <2>1. /\ Attempt(c, "command", "command") /\ pc[c] # "idle"
        /\ UNCHANGED <<store, op, todo, listed, found, asked, untouched, unheard>>
    BY <1>7 DEF CommandFails
  <2>2. QED
    BY <1>0, <2>1, ClearFailed DEF Pending
<1>8. ASSUME NEW c \in Calls, Execute(c) PROVE ClearCall(d)'
  <2>1. /\ pc[c] = "command" /\ ~executed[c] /\ executed' = [executed EXCEPT ![c] = TRUE]
        /\ Head(todo[c]).name # "exec" /\ UNCHANGED <<op, todo, pc, unheard>>
    BY <1>8 DEF Execute
  <2>2. /\ untouched'[d] \subseteq untouched[d]
        /\ \A k \in untouched'[d] : store'[k] # None
    <3>1. CASE Head(todo[c]).name \in {"set", "setex", "del"}
      <4>1. Head(todo[c]).on \in Keys
        BY <1>0, <2>1, <3>1, CallsItself
      <4>2. \/ Write(Head(todo[c]).on, c, Head(todo[c]).name = "setex")
            \/ Write(Head(todo[c]).on, None, FALSE)
        BY <1>8, <3>1 DEF Execute
      <4>3. QED
        BY <4>1, <4>2, WriteClears
    <3>2. CASE Head(todo[c]).name \notin {"set", "setex", "del"}
      <4>1. UNCHANGED <<store, untouched>>
        BY <1>8, <3>2 DEF Execute
      <4>2. QED
        BY <1>0, <4>1 DEF ClearCall
    <3>3. QED
      BY <3>1, <3>2
  <2>3. CASE d # c
    <3>1. listed'[d] = listed[d]
      BY <1>8, <2>3 DEF Execute
    <3>2. found'[d] = found[d] /\ asked'[d] = asked[d]
      BY <1>8, <2>3 DEF Execute
    <3>3. QED
      BY <1>0, <2>1, <2>2, <2>3, <3>1, <3>2, ClearStays
  <2>4. CASE d = c /\ op[c].kind # "clear"
    <3>1. listed'[c] \subseteq found'[c]
      BY <1>0, <1>8, <2>4 DEF Execute, ClearCall
    <3>2. QED
      BY <2>1, <2>2, <2>4, <3>1 DEF ClearCall
  <2>5. CASE d = c /\ op[c].kind = "clear"
    <3>1. Head(todo[c]).name = "keys" /\ todo[c] # <<>>
      BY <1>0, <2>1, <2>5, ClearCommands
    <3>2. PICK node \in {NodeOf[k] : k \in Keys} :
             /\ asked' = [asked EXCEPT ![c] = node]
             /\ found' = [found EXCEPT ![c] = {k \in Keys : store[k] # None /\ NodeOf[k] = node}]
             /\ listed' = [listed EXCEPT ![c] = found'[c]]
      BY <1>8, <3>1 DEF Execute
    <3>3. UNCHANGED <<store, untouched>>
      BY <1>8, <3>1 DEF Execute
    <3>4. \A k \in untouched'[c] : NodeOf[k] = asked'[c] => k \in listed'[c]
      BY <1>0, <2>5, <3>2, <3>3 DEF ClearCall
    <3>5. listed'[c] = found'[c]
      BY <3>2
    <3>6. QED
      BY <2>1, <2>2, <2>5, <3>1, <3>4, <3>5 DEF ClearCall
  <2>6. QED
    BY <2>3, <2>4, <2>5
<1>9. ASSUME NEW c \in Calls, ExecuteDel(c) PROVE ClearCall(d)'
  <2>1. PICK k \in listed[c] : listed' = [listed EXCEPT ![c] = @ \ {k}] /\ Write(k, None, FALSE)
    BY <1>9 DEF ExecuteDel
  <2>2. UNCHANGED <<op, todo, pc, executed, unheard, found, asked>> /\ pc[c] # "idle" /\ k \in Keys
    BY <1>9, <2>1 DEF ExecuteDel
  <2>3. untouched'[d] \subseteq untouched[d] \ {k} /\ \A q \in untouched'[d] : store'[q] # None
    BY <2>1, <2>2, WriteClears
  <2>4. CASE d = c
    <3> DEFINE gone == {k}
    <3>1. gone \in SUBSET listed[c] /\ listed'[c] = listed[c] \ gone
      BY <2>1
    <3>2. \A q \in gone : q \notin untouched'[c]
      BY <2>3, <2>4
    <3> HIDE DEF gone
    <3>3. QED
      BY <1>0, <2>2, <2>3, <2>4, <3>1, <3>2, ListShrinks
  <2>5. CASE d # c
    BY <1>0, <2>1, <2>2, <2>3, <2>5, ClearStays
  <2>6. QED
    BY <2>4, <2>5
<1>10. ASSUME NEW c \in Calls, DelFails(c) PROVE ClearCall(d)'
  <2>1. PICK k \in listed[c] : /\ listed' = [listed EXCEPT ![c] = @ \ {k}]
                               /\ unheard' = [unheard EXCEPT ![c] = @ \cup {k}]
    BY <1>10 DEF DelFails
  <2>2. UNCHANGED <<op, todo, pc, executed, store, untouched, found, asked>> /\ pc[c] # "idle"
    BY <1>10 DEF DelFails
  <2>3. untouched'[d] = untouched[d] /\ \A q \in untouched'[d] : store'[q] # None
    BY <1>0, <2>2 DEF ClearCall
  <2>4. CASE d = c
    <3> DEFINE gone == {k}
    <3>1. gone \in SUBSET listed[c] /\ listed'[c] = listed[c] \ gone
      BY <2>1
    <3>2. unheard[c] \subseteq unheard'[c] /\ \A q \in gone : q \in unheard'[c]
      BY <2>1
    <3> HIDE DEF gone
    <3>3. QED
      BY <1>0, <2>2, <2>3, <2>4, <3>1, <3>2, ListShrinks
  <2>5. CASE d # c
    BY <1>0, <2>1, <2>2, <2>3, <2>5, ClearStays
  <2>6. QED
    BY <2>4, <2>5
<1>11. ASSUME NEW c \in Calls, PipelineResolves(c) PROVE ClearCall(d)'
  <2>1. /\ pc[c] = "command" /\ listed[c] = {} /\ Head(todo[c]).name = "exec"
        /\ Proceed(c, <<>>) /\ UNCHANGED <<store, op, listed, found, asked, untouched, unheard>>
    BY <1>11 DEF PipelineResolves, PipelineExecuted
  <2>2. /\ todo' = [todo EXCEPT ![c] = <<>>] /\ executed' = [executed EXCEPT ![c] = FALSE]
        /\ \A e \in Calls \ {c} : pc'[e] = pc[e]
    BY <2>1 DEF Proceed
  <2>3. CASE d = c
    <3>1. Len(todo[c]) <= 1
      BY <1>0, <2>1, ExecIsLast
    <3>2. \A k \in untouched[c] : NodeOf[k] = asked[c] => k \in listed[c] \/ k \in unheard[c]
      BY <1>0, <2>1, <2>3, <3>1, ExecIsLast DEF ClearCall
    <3>3. /\ UNCHANGED <<store, listed, found, asked, untouched, unheard>>
          /\ ClearCall(c) /\ listed[c] = {}
      BY <1>0, <2>1, <2>3
    <3>4. \A k \in untouched[c] : NodeOf[k] = asked[c] => k \in unheard[c]
      BY <2>1, <3>2
    <3>5. QED
      BY <2>3, <3>3, <3>4, ClearResolved
  <2>4. CASE d # c
    BY <1>0, <2>1, <2>2, <2>4, ClearKept DEF PlanInv
  <2>5. QED
    BY <2>3, <2>4
<1>12. ASSUME NEW c \in Calls, Closed(c) PROVE ClearCall(d)'
  <2>1. UNCHANGED <<store, op, todo, untouched, found, asked>> /\ pc[c] # "idle"
    BY <1>12 DEF Closed
  <2>2. CASE Head(todo[c]).name = "exec"
    <3>1. /\ listed' = [listed EXCEPT ![c] = {}] /\ UNCHANGED <<pc, executed>>
          /\ unheard' = [unheard EXCEPT ![c] = @ \cup listed[c]]
      BY <1>12, <2>2 DEF Closed
    <3>2. untouched'[d] = untouched[d] /\ \A q \in untouched'[d] : store'[q] # None
      BY <1>0, <2>1 DEF ClearCall
    <3>3. CASE d = c
      <4> DEFINE gone == listed[c]
      <4>1. gone \in SUBSET listed[c] /\ listed'[c] = listed[c] \ gone
        BY <3>1
      <4>2. unheard[c] \subseteq unheard'[c] /\ \A q \in gone : q \in unheard'[c]
        BY <3>1
      <4> HIDE DEF gone
      <4>3. QED
        BY <1>0, <2>1, <3>1, <3>2, <3>3, <4>1, <4>2, ListShrinks
    <3>4. CASE d # c
      BY <1>0, <2>1, <3>1, <3>2, <3>4, ClearStays
    <3>5. QED
      BY <3>3, <3>4
  <2>3. CASE Head(todo[c]).name # "exec"
    <3>1. Attempt(c, "command", "closed") /\ UNCHANGED <<listed, unheard>>
      BY <1>12, <2>3 DEF Closed
    <3>2. QED
      BY <1>0, <2>1, <3>1, ClearFailed DEF Pending
  <2>4. QED
    BY <2>2, <2>3
<1>13. ASSUME NEW k \in Keys, Expire(k) PROVE ClearCall(d)'
  <2>1. Write(k, None, FALSE) /\ UNCHANGED <<op, todo, pc, executed, listed, unheard, found, asked>>
    BY <1>13 DEF Expire, callVars
  <2>2. untouched'[d] \subseteq untouched[d] \ {k} /\ \A q \in untouched'[d] : store'[q] # None
    BY <2>1, WriteClears
  <2>3. QED
    BY <1>0, <2>1, <2>2, ClearStays
<1>14. ASSUME ClientConnects PROVE ClearCall(d)'
  BY <1>0, <1>14, ClearKept DEF ClientConnects, callVars
<1>15. ASSUME ClientReady PROVE ClearCall(d)'
  BY <1>0, <1>15, ClearKept DEF ClientReady, callVars, history
<1>16. ASSUME ConnectionLost PROVE ClearCall(d)'
  <2>1. UNCHANGED <<store, op, todo, pc, found, asked, untouched, unheard>>
    BY <1>16 DEF ConnectionLost
  <2>2. executed'[d] => executed[d]
    BY <1>16 DEF ConnectionLost
  <2>3. listed'[d] = listed[d] \/ (pc[d] = "command" /\ listed'[d] = found[d])
    BY <1>16 DEF ConnectionLost
  <2>4. CASE listed'[d] = listed[d]
    BY <1>0, <2>1, <2>2, <2>4, ClearKept
  <2>5. CASE pc[d] = "command" /\ listed'[d] = found[d]
    BY <1>0, <2>1, <2>2, <2>5, ClearResent
  <2>6. QED
    BY <2>3, <2>4, <2>5
<1>17. CASE UNCHANGED vars
  BY <1>0, <1>17, ClearKept DEF vars
<1>18. QED
  BY <1>1, <1>2, <1>3, <1>4, <1>5, <1>6, <1>7, <1>8, <1>9,
     <1>10, <1>11, <1>12, <1>13, <1>14, <1>15, <1>16, <1>17 DEF Next

-----------------------------------------------------------------------------
\* What the channels of a broadcast have.
LEMMA PrefixDelivered ==
    ASSUME DistinctChannels, TypeInv, ResolvedInv, DeliverInv PROVE BroadcastPrefix
<1> SUFFICES ASSUME NEW c \in Calls, op[c] # None, op[c].kind = "broadcast"
             PROVE  /\ \A i, j \in DOMAIN op[c].on :
                           i < j /\ delivered[op[c].on[j]][c] > 0 => delivered[op[c].on[i]][c] > 0
                    /\ pc[c] = "resolved" =>
                           \A i \in DOMAIN op[c].on : delivered[op[c].on[i]][c] > 0
  BY DEF BroadcastPrefix
<1> DEFINE on == op[c].on
<1>1. /\ op[c] \in Ops /\ Targets(op[c]) = on /\ on \in Seq(Channels)
      /\ DOMAIN on = 1..Len(on) /\ Len(on) \in Nat /\ \A i \in 1..Len(on) : on[i] \in Channels
  <2>1. op[c] \in Ops
    BY DEF TypeInv, Ranges
  <2>2. QED
    BY <2>1, OpsAssumption, LenProperties DEF Targets
<1>2. \A i, j \in 1..Len(on) : on[i] = on[j] => i = j
  BY <1>1 DEF DistinctChannels
<1>3. Commands(op[c]) \in Seq(CommandSet) /\ Len(Commands(op[c])) = Len(on)
  BY <1>1, CommandsOf
<1>4. todo[c] \in Seq(CommandSet) /\ Len(todo[c]) \in Nat /\ Position(c) \in Int
  BY <1>1, <1>3, LenProperties DEF TypeInv, PlanInv, Position
<1> HIDE DEF on
<1>5. ASSUME NEW i \in 1..Len(on), NEW j \in 1..Len(on), i < j, delivered[on[j]][c] > 0
      PROVE  delivered[on[i]][c] > 0
  <2>1. pc[c] # "idle" /\ j <= Position(c) + 1
    BY <1>1, <1>2, <1>4, <1>5 DEF DeliverInv, DeliverCall
  <2>2. i <= Position(c)
    BY <1>4, <1>5, <2>1
  <2>3. QED
    BY <1>1, <2>1, <2>2 DEF DeliverInv, DeliverCall
<1>6. ASSUME pc[c] = "resolved", NEW i \in 1..Len(on) PROVE delivered[on[i]][c] > 0
  <2>1. todo[c] = <<>>
    <3>1. ASSUME todo[c] # <<>> PROVE Head(todo[c]).name = "publish"
      BY <1>6, <3>1, PublishesOnly, <1>1, EmptySeq DEF TypeInv
    <3>2. QED
      BY <1>6, <3>1 DEF ResolvedInv
  <2>2. i <= Position(c)
    BY <1>3, <1>6, <2>1, EmptySeq DEF Position
  <2>3. QED
    BY <1>1, <1>6, <2>2 DEF DeliverInv, DeliverCall
<1>7. QED
  BY <1>1, <1>5, <1>6 DEF on

-----------------------------------------------------------------------------
\* The invariants hold of the initial states.
LEMMA Initially ==
    Init => ResolvedInv /\ WriteInv /\ DeliverInv /\ ConnectInv /\ ClearInv
<1> SUFFICES ASSUME Init PROVE ResolvedInv /\ WriteInv /\ DeliverInv /\ ConnectInv /\ ClearInv
  OBVIOUS
<1> USE DEF Init
<1>1. ResolvedInv
  BY DEF ResolvedInv
<1>2. WriteInv
  BY DEF WriteInv
<1>3. DeliverInv
  BY DEF DeliverInv, DeliverCall
<1>4. ConnectInv
  <2>1. None # "already connecting"
    BY NoneAssumption
  <2>2. QED
    BY <2>1 DEF ConnectInv, ConnectCall
<1>5. ClearInv
  BY DEF ClearInv, ClearCall
<1>6. QED
  BY <1>1, <1>2, <1>3, <1>4, <1>5

\* The values in the store come from a set() of their key that was answered, or executed,
\* or tried again (commands of RedisCache, retried by retryCommand).
THEOREM WritesCorrect == Spec => []WriteInv
<1>1. TypeInv /\ WriteInv /\ [Next]_vars => WriteInv'
  BY WriteStep DEF TypeInv
<1>2. QED
  BY <1>1, Initially, TypeCorrect, PTL DEF Spec

\* Where no broadcast names a channel twice, publish delivers a message once for every
\* channel, and set() writes once, unless an attempt of retryCommand failed or ioredis sent
\* the command again after a lost connection.
THEOREM OnceCorrect == ASSUME DistinctChannels PROVE Spec => []OnceUnlessRetried
<1>1. TypeInv /\ DeliverInv /\ [Next]_vars => DeliverInv'
  BY DeliverStep DEF TypeInv
<1>2. DeliverInv /\ WriteInv => OnceUnlessRetried
  BY DEF DeliverInv, DeliverCall, WriteInv, OnceUnlessRetried
<1>3. QED
  BY <1>1, <1>2, Initially, TypeCorrect, WritesCorrect, PTL DEF Spec

\* Where no broadcast names a channel twice, the channels that have its message are the
\* first ones, and all of them when it resolves.
THEOREM BroadcastsCorrect == ASSUME DistinctChannels PROVE Spec => []BroadcastPrefix
<1>1. TypeInv /\ DeliverInv /\ [Next]_vars => DeliverInv'
  BY DeliverStep DEF TypeInv
<1>2. TypeInv /\ ResolvedInv /\ [Next]_vars => ResolvedInv'
  BY ResolvedStep DEF TypeInv
<1>3. TypeInv /\ ResolvedInv /\ DeliverInv => BroadcastPrefix
  BY PrefixDelivered
<1>4. QED
  BY <1>1, <1>2, <1>3, Initially, TypeCorrect, PTL DEF Spec

\* A client refuses to connect a call that looks at its status only if something else was
\* connecting it while the call wanted to.
THEOREM RefusalsCorrect == Spec => []RefusedOnlyInRace
<1>1. TypeInv /\ ConnectInv /\ [Next]_vars => ConnectInv'
  BY ConnectStep DEF TypeInv
<1>2. ConnectInv => RefusedOnlyInRace
  BY DEF ConnectInv, ConnectCall, RefusedOnlyInRace
<1>3. QED
  BY <1>1, <1>2, Initially, TypeCorrect, PTL DEF Spec

\* A clearCache that resolves has left no key of the node that answered its KEYS, there before
\* and not written since, unless its deletion failed.
THEOREM ClearCorrect == Spec => []Cleared
<1>1. TypeInv /\ ClearInv /\ [Next]_vars => ClearInv'
  BY ClearStep DEF TypeInv
<1>2. TypeInv /\ ResolvedInv /\ [Next]_vars => ResolvedInv'
  BY ResolvedStep DEF TypeInv
<1>3. TypeInv /\ ResolvedInv /\ ClearInv => Cleared
  <2> SUFFICES ASSUME TypeInv, ResolvedInv, ClearInv, NEW c \in Calls,
                      pc[c] = "resolved", op[c].kind = "clear"
               PROVE  \A k \in untouched[c] : NodeOf[k] = asked[c] => k \in unheard[c]
    BY DEF Cleared
  <2>1. todo[c] = <<>>
    BY ClearCommands DEF ResolvedInv, TypeInv
  <2>2. Len(todo[c]) <= 1
    BY <2>1, EmptySeq
  <2>3. QED
    BY <2>1, <2>2 DEF ClearInv, ClearCall
<1>4. QED
  BY <1>1, <1>2, <1>3, Initially, TypeCorrect, PTL DEF Spec
=============================================================================

--------------------------- MODULE WebsocketClient ---------------------------
(* WebsocketClient and RpcEventProducer (packages/tendermint-rpc/src/         *)
(* rpcclients/websocketclient.ts) on a ReconnectingSocket: calls and event    *)
(* subscriptions share one connection, every message is shown to all who     *)
(* listen, and each picks the responses that carry its id.                   *)
EXTENDS Naturals, Sequences, FiniteSets

CONSTANTS
  MaxCalls,    \* bound: calls of execute(), numbered in the order they are made
  Streams,     \* the queries of listen(), each with a request id of its own
  Nobody,      \* stands for "no call"
  Limits       \* bounds of the runs: calls, starts of a stream, events, faults

Calls == 1..MaxCalls

ASSUME NamesAssumption ==
  /\ MaxCalls \in Nat /\ IsFiniteSet(Streams)
  /\ Calls \cap Streams = {} /\ Nobody \notin Calls \cup Streams
ASSUME LimitsAssumption == Limits \subseteq [calls : Nat, starts : Nat, events : Nat, faults : Nat]

VARIABLES
  outcome,    \* the promise of each call: idle, pending, resolved or rejected
  answerOf,   \* history: the call that the message which settled a promise answered
  stream,     \* each query's stream: off, on (it has a listener), failed or completed
  groups,     \* RpcEventProducer.subscriptions, in groups of three
  seen,       \* the events that the present listener has got
  outbox,     \* requests in the queue of the socket
  connected,  \* the status of the socket
  stuck,      \* isProcessingQueue of an idle socket
  closed,     \* disconnect() was called
  up, down,   \* what is under way on the connection, in order
  subs,       \* queries that the server knows for this connection
  published,  \* events sent for each query
  lost,       \* history: calls whose request or answer went down with a connection
  starts, drops, garbled,
  limit       \* parameter: the bounds of this behaviour

client == <<outcome, answerOf, stream, groups, seen>>
socket == <<outbox, connected, stuck, closed>>
server == <<up, down, subs, published>>
history == <<lost, starts, drops, garbled, limit>>
vars == <<client, socket, server, history>>

Request(method, id) == [method |-> method, id |-> id]
Message(kind, id, n) == [kind |-> kind, id |-> id, n |-> n]

Requests == [method : {"call"}, id : Calls] \cup [method : {"subscribe", "unsubscribe"}, id : Streams]
Messages == [kind : {"result", "error"}, id : Calls \cup Streams, n : {0}]
              \cup [kind : {"event"}, id : Streams, n : Nat \ {0}]
              \cup [kind : {"garbled"}, id : {Nobody}, n : {0}]

Init ==
  /\ outcome = [c \in Calls |-> "idle"]
  /\ answerOf = [c \in Calls |-> Nobody]
  /\ stream = [q \in Streams |-> "off"]
  /\ groups = [q \in Streams |-> 0]
  /\ seen = [q \in Streams |-> <<>>]
  /\ outbox = <<>> /\ connected = FALSE /\ stuck = FALSE /\ closed = FALSE
  /\ up = <<>> /\ down = <<>> /\ subs = {}
  /\ published = [q \in Streams |-> 0]
  /\ lost = {} /\ starts = [q \in Streams |-> 0] /\ drops = 0 /\ garbled = 0
  /\ limit \in Limits
-----------------------------------------------------------------------------
(* Calls of the application.                                                 *)

\* queueRequest throws when the socket was disconnected.
Execute(c) ==
  /\ outcome[c] = "idle" /\ c <= limit.calls
  /\ \A d \in 1..(c - 1) : outcome[d] # "idle"
  /\ \/ /\ ~closed
        /\ outcome' = [outcome EXCEPT ![c] = "pending"]
        /\ outbox' = Append(outbox, Request("call", c))
     \/ /\ closed
        /\ outcome' = [outcome EXCEPT ![c] = "rejected"]
        /\ UNCHANGED outbox
  /\ UNCHANGED <<answerOf, stream, groups, seen, connected, stuck, closed, server, history>>

\* Faulty: the two subscriptions that look at the responses both forward them.
ConnectToClientTwice(q) == groups' = [groups EXCEPT ![q] = @ + 2]

\* Three subscriptions to the responses: one until the first answer, one for
\* the events, one for the end of the stream.  Earlier ones stay.
ConnectToClient(q) == groups' = [groups EXCEPT ![q] = @ + 1]

\* A first listener starts the producer.  The queue of a disconnected socket
\* throws, and leaves the producer running with nothing to come.
Listen(q) ==
  /\ stream[q] # "on" /\ starts[q] < limit.starts
  /\ stream' = [stream EXCEPT ![q] = "on"]
  /\ ConnectToClient(q)
  /\ seen' = [seen EXCEPT ![q] = <<>>]
  /\ outbox' = IF closed THEN outbox ELSE Append(outbox, Request("subscribe", q))
  /\ starts' = [starts EXCEPT ![q] = @ + 1]
  /\ UNCHANGED <<outcome, answerOf, connected, stuck, closed, server, lost, drops, garbled, limit>>

\* Faulty: the server is told only while the connection is open.
StopConnected(S) ==
  \E order \in {s \in [1..Cardinality(S) -> S] : \A q \in S : \E k \in DOMAIN s : s[k] = q} :
    outbox' = IF closed \/ ~connected THEN outbox
              ELSE outbox \o [k \in DOMAIN order |-> Request("unsubscribe", order[k])]

\* RpcEventProducer.stop for each of S.  The subscriptions stay.
Stop(S) ==
  \E order \in {s \in [1..Cardinality(S) -> S] : \A q \in S : \E k \in DOMAIN s : s[k] = q} :
    outbox' = IF closed THEN outbox
              ELSE outbox \o [k \in DOMAIN order |-> Request("unsubscribe", order[k])]

\* The last listener leaves.
Leave(q) ==
  /\ stream[q] = "on"
  /\ stream' = [stream EXCEPT ![q] = "off"]
  /\ Stop({q})
  /\ UNCHANGED <<outcome, answerOf, groups, seen, connected, stuck, closed, server, history>>

\* Producers Q lose their subscriptions; those that run tell the listener how
\* their stream ends, and stop.
CloseSubscriptions(Q, how) ==
  LET running == {q \in Q : stream[q] = "on"} IN
  /\ groups' = [q \in Streams |-> IF q \in Q THEN 0 ELSE groups[q]]
  /\ stream' = [q \in Streams |-> IF q \in running THEN how ELSE stream[q]]
  /\ Stop(running)

Listening == {q \in Streams : groups[q] > 0}

\* The events complete: firstEvent rejects, and each subscription completes
\* before the socket is marked as disconnected.
Disconnect ==
  /\ ~closed /\ closed' = TRUE
  /\ outcome' = [c \in Calls |-> IF outcome[c] = "pending" THEN "rejected" ELSE outcome[c]]
  /\ CloseSubscriptions(Listening, "completed")
  /\ connected' = FALSE
  /\ up' = <<>> /\ down' = <<>> /\ subs' = {}
  /\ UNCHANGED <<answerOf, seen, stuck, published, history>>
-----------------------------------------------------------------------------
(* The socket, as ReconnectingSocket keeps it: the queue outlives the        *)
(* connection, and isProcessingQueue is never reset when a connection opens  *)
(* on an empty queue.                                                        *)
Open ==
  /\ ~connected
  /\ connected' = TRUE
  /\ stuck' = (stuck \/ outbox = <<>>)
  /\ UNCHANGED <<client, outbox, closed, server, history>>

Write ==
  /\ connected /\ ~stuck /\ outbox # <<>>
  /\ up' = Append(up, Head(outbox))
  /\ outbox' = Tail(outbox)
  /\ UNCHANGED <<client, connected, stuck, closed, down, subs, published, history>>

Drop ==
  /\ connected /\ drops + garbled < limit.faults
  /\ connected' = FALSE
  /\ drops' = drops + 1
  /\ lost' = lost \cup {c \in Calls : c \in {up[i].id : i \in DOMAIN up} \cup {down[i].id : i \in DOMAIN down}}
  /\ up' = <<>> /\ down' = <<>> /\ subs' = {}
  /\ UNCHANGED <<client, outbox, stuck, closed, published, starts, garbled, limit>>
-----------------------------------------------------------------------------
(* The node: requests of one id are answered in order, others may overtake.  *)
Answer(i) ==
  LET r == up[i] IN
  /\ i \in DOMAIN up /\ \A j \in 1..(i - 1) : up[j].id # r.id
  /\ up' = SubSeq(up, 1, i - 1) \o SubSeq(up, i + 1, Len(up))
  /\ \E kind \in {"result", "error"} :
       /\ r.method = "subscribe" /\ r.id \in subs => kind = "error"
       /\ r.method = "unsubscribe" => (kind = "error" <=> r.id \notin subs)
       /\ down' = Append(down, Message(kind, r.id, 0))
       /\ subs' = IF kind = "error" \/ r.method = "call" THEN subs
                  ELSE IF r.method = "subscribe" THEN subs \cup {r.id} ELSE subs \ {r.id}
  /\ UNCHANGED <<client, socket, published, history>>

Publish(q) ==
  /\ q \in subs /\ published[q] < limit.events
  /\ published' = [published EXCEPT ![q] = @ + 1]
  /\ down' = Append(down, Message("event", q, published[q] + 1))
  /\ UNCHANGED <<client, socket, up, subs, history>>

Garble ==
  /\ connected /\ drops + garbled < limit.faults
  /\ garbled' = garbled + 1
  /\ down' = Append(down, Message("garbled", Nobody, 0))
  /\ UNCHANGED <<client, socket, up, subs, published, lost, starts, drops, limit>>
-----------------------------------------------------------------------------
(* A message arrives.                                                        *)

\* Faulty: the first call that waits takes the response, whatever its id.
PicksAny(m) == {c \in Calls : m.kind \in {"result", "error"} /\ m.id \in Calls /\ outcome[c] = "pending"}

\* The filter on r.id of execute.
Picks(m) == {c \in Calls : m.kind \in {"result", "error"} /\ m.id = c /\ outcome[c] = "pending"}

\* toJsonRpcResponse throws: the mapped stream fails for all who listen.
DeliverGarbled ==
  /\ down # <<>> /\ Head(down).kind = "garbled"
  /\ outcome' = [c \in Calls |-> IF outcome[c] = "pending" THEN "rejected" ELSE outcome[c]]
  /\ CloseSubscriptions(Listening, "failed")
  /\ down' = Tail(down)
  /\ UNCHANGED <<answerOf, seen, connected, stuck, closed, up, subs, published, history>>

\* Faulty: nobody looks at a result, only errors settle the promise.
DeliverAnswerErrors ==
  LET m == Head(down) IN
  /\ down # <<>> /\ m.id \in Calls
  /\ outcome' = [c \in Calls |-> IF c \in Picks(m) /\ m.kind = "error" THEN "rejected" ELSE outcome[c]]
  /\ down' = Tail(down)
  /\ UNCHANGED <<answerOf, stream, groups, seen, socket, up, subs, published, history>>

\* The response to a call.
DeliverAnswer ==
  LET m == Head(down) IN
  /\ down # <<>> /\ m.id \in Calls
  /\ outcome' = [c \in Calls |-> IF c \notin Picks(m) THEN outcome[c]
                                 ELSE IF m.kind = "error" THEN "rejected" ELSE "resolved"]
  /\ answerOf' = [c \in Calls |-> IF c \in Picks(m) THEN m.id ELSE answerOf[c]]
  /\ down' = Tail(down)
  /\ UNCHANGED <<stream, groups, seen, socket, up, subs, published, history>>

\* The node's answer to subscribe or unsubscribe, which have the same id.  The
\* empty result of a success is filtered out; an error ends the stream.
DeliverReply ==
  LET m == Head(down) IN
  /\ down # <<>> /\ m.id \in Streams /\ m.kind # "event"
  /\ CloseSubscriptions(IF m.kind = "error" /\ groups[m.id] > 0 THEN {m.id} ELSE {}, "failed")
  /\ down' = Tail(down)
  /\ UNCHANGED <<outcome, answerOf, seen, connected, stuck, closed, up, subs, published, history>>

\* Each group of subscriptions forwards the event to the one listener.
DeliverEvent ==
  LET m == Head(down) IN
  /\ down # <<>> /\ m.kind = "event"
  /\ seen' = IF stream[m.id] = "on"
             THEN [seen EXCEPT ![m.id] = @ \o [k \in 1..groups[m.id] |-> m.n]]
             ELSE seen
  /\ down' = Tail(down)
  /\ UNCHANGED <<outcome, answerOf, stream, groups, socket, up, subs, published, history>>

Deliver == DeliverGarbled \/ DeliverAnswer \/ DeliverReply \/ DeliverEvent
-----------------------------------------------------------------------------
Next ==
  \/ \E c \in Calls : Execute(c)
  \/ \E q \in Streams : Listen(q) \/ Leave(q) \/ Publish(q)
  \/ Disconnect \/ Open \/ Write \/ Drop \/ Garble
  \/ \E i \in DOMAIN up : Answer(i)
  \/ Deliver

Spec == Init /\ [][Next]_vars

(* The socket reconnects and writes, the node answers, messages arrive.      *)
FairSpec ==
  Spec /\ WF_vars(Open) /\ WF_vars(Write) /\ WF_vars(\E i \in DOMAIN up : Answer(i)) /\ WF_vars(Deliver)
-----------------------------------------------------------------------------
(* Type invariant.                                                           *)
TypeOK ==
  /\ outcome \in [Calls -> {"idle", "pending", "resolved", "rejected"}]
  /\ answerOf \in [Calls -> Calls \cup {Nobody}]
  /\ stream \in [Streams -> {"off", "on", "failed", "completed"}]
  /\ groups \in [Streams -> Nat]
  /\ seen \in [Streams -> Seq(Nat \ {0})]
  /\ outbox \in Seq(Requests)
  /\ {connected, stuck, closed} \subseteq BOOLEAN
  /\ up \in Seq(Requests) /\ down \in Seq(Messages)
  /\ subs \subseteq Streams
  /\ published \in [Streams -> Nat]
  /\ lost \subseteq Calls
  /\ starts \in [Streams -> Nat]
  /\ drops \in Nat /\ garbled \in Nat /\ limit \in Limits

(* Events reach the listener in the order of the chain, and a stream that    *)
(* never was restarted delivers each of them once.                           *)
EventsOnceInOrder ==
  \A q \in Streams : \A i, j \in DOMAIN seen[q] : i < j =>
    /\ seen[q][i] <= seen[q][j]
    /\ starts[q] = 1 => seen[q][i] < seen[q][j]

\* Requests that the node has not handled, the oldest first; those about query q.
UnderWay == up \o outbox
About(q) == {i \in DOMAIN UnderWay : UnderWay[i].id = q}

(* As long as no connection was lost, the client and the node agree about    *)
(* the subscriptions once everything under way has arrived: who listens is   *)
(* subscribed or about to learn that the stream failed, and the node keeps   *)
(* no subscription that nobody listens to.                                   *)
SubscriptionsAgree ==
  (drops = 0 /\ ~closed) => \A q \in Streams :
    IF About(q) # {}
    THEN \A i \in About(q) : (\A j \in About(q) : j <= i) =>
           (stream[q] = "on" <=> UnderWay[i].method = "subscribe")
    ELSE IF stream[q] = "on"
         THEN q \in subs \/ \E i \in DOMAIN down : down[i].id = q /\ down[i].kind = "error"
         ELSE q \notin subs

(* The client keeps the promise of every RPC client: no answer of another    *)
(* call, no second settlement, whatever restarts, errors and lost            *)
(* connections happen around it.                                             *)
Abstract == INSTANCE RpcCalls
ImplementsRpcCalls == Abstract!Spec

(* Every call settles, unless its request or its answer was lost with a      *)
(* connection, or the socket opened on an empty queue and is stuck since     *)
(* (the finding of run socket_idle_queue).                                   *)
OnlyLostCallsHang ==
  \A c \in Calls : outcome[c] = "pending" ~> (outcome[c] # "pending" \/ c \in lost \/ stuck)
=============================================================================

-------------------------- MODULE HttpBatchClient --------------------------
(* HttpBatchClient (packages/tendermint-rpc/src/rpcclients): execute() queues *)
(* a request; a full queue or the interval timer sends a batch in one HTTP    *)
(* POST; the elements of the reply are matched to the batch by their id.      *)
EXTENDS Naturals, Sequences, FiniteSets

CONSTANTS
  Calls,            \* the calls of execute(); a bound on their number for TLC
  Nobody,           \* stands for "no call"
  Ids, idOf,        \* JSON-RPC ids, and the id of the request of each call
  BatchSizeLimit    \* options.batchSizeLimit

ASSUME CallsAssumption == IsFiniteSet(Calls) /\ Nobody \notin Calls
ASSUME IdsAssumption == idOf \in [Calls -> Ids]
\* validate() refuses every other limit
ASSUME LimitAssumption == BatchSizeLimit \in Nat \ {0}

\* makeJsonRpcId: "Multiple calls of this produce unique values."
ASSUME UniqueIds == \A c, d \in Calls : idOf[c] = idOf[d] => c = d

VARIABLES
  timer,      \* the dispatch interval is armed
  queue,      \* calls not yet sent
  batches,    \* batches whose HTTP request is outstanding
  outcome,    \* the promise of each call: idle, pending, resolved or rejected
  answerOf,   \* history: the call that the element which settled a promise answered
  faulty      \* parameter: replies may omit, repeat, invent and garble elements

vars == <<timer, queue, batches, outcome, answerOf, faulty>>

SeqSet(s) == {s[i] : i \in DOMAIN s}

Init ==
  /\ timer = TRUE
  /\ queue = <<>>
  /\ batches = {}
  /\ outcome = [c \in Calls |-> "idle"]
  /\ answerOf = [c \in Calls |-> Nobody]
  /\ faulty \in BOOLEAN
-----------------------------------------------------------------------------
\* Faulty: the batch is copied and stays in the queue.
DispatchCopy(q) ==
  /\ batches' = batches \cup {SubSeq(q, 1, IF Len(q) <= BatchSizeLimit THEN Len(q) ELSE BatchSizeLimit)}
  /\ queue' = q

\* tick() on queue q: the first BatchSizeLimit calls leave it as one batch.
Dispatch(q) ==
  LET n == IF Len(q) <= BatchSizeLimit THEN Len(q) ELSE BatchSizeLimit IN
  /\ batches' = batches \cup {SubSeq(q, 1, n)}
  /\ queue' = SubSeq(q, n + 1, Len(q))

\* Faulty: off by one, a full train waits for another call.
ExecuteLate(c) ==
  LET q == Append(queue, c) IN
  /\ outcome[c] = "idle"
  /\ outcome' = [outcome EXCEPT ![c] = "pending"]
  /\ \/ Len(q) > BatchSizeLimit /\ Dispatch(q)
     \/ Len(q) <= BatchSizeLimit /\ queue' = q /\ UNCHANGED batches
  /\ UNCHANGED <<timer, answerOf, faulty>>

Execute(c) ==
  LET q == Append(queue, c) IN
  /\ outcome[c] = "idle"
  /\ outcome' = [outcome EXCEPT ![c] = "pending"]
  /\ \/ Len(q) >= BatchSizeLimit /\ Dispatch(q)
     \/ Len(q) < BatchSizeLimit /\ queue' = q /\ UNCHANGED batches
  /\ UNCHANGED <<timer, answerOf, faulty>>

\* Faulty: the interval sends full trains only.
TickFullOnly ==
  /\ timer /\ Len(queue) >= BatchSizeLimit
  /\ Dispatch(queue)
  /\ UNCHANGED <<timer, outcome, answerOf, faulty>>

\* The interval fires; on an empty queue tick() returns early.
Tick ==
  /\ timer /\ queue # <<>>
  /\ Dispatch(queue)
  /\ UNCHANGED <<timer, outcome, answerOf, faulty>>

Disconnect ==
  /\ timer
  /\ timer' = FALSE
  /\ UNCHANGED <<queue, batches, outcome, answerOf, faulty>>
-----------------------------------------------------------------------------
(* Replies of the server.  An element carries an id and is a result, an      *)
(* error, or garbled in a way that parseJsonRpcResponse throws on; about is   *)
(* the call the server meant, Nobody for an element it made up.              *)
Kinds == {"result", "error", "garbled"}

Elements(b) ==
  LET Answers(kinds) ==
        UNION {[id : {idOf[c]}, about : {c}, kind : kinds] : c \in SeqSet(b)}
      MadeUp == [id : Ids \ {idOf[c] : c \in SeqSet(b)}, about : {Nobody}, kind : Kinds]
  IN IF faulty THEN Answers(Kinds) \cup MadeUp ELSE Answers({"result", "error"})

(* An honest server answers each call of the batch once, in any order.  A    *)
(* faulty one sends any elements; no more of them than calls, as a bound.    *)
Replies(b) ==
  IF faulty
  THEN UNION {[1..n -> Elements(b)] : n \in 0..Len(b)}
  ELSE {reply \in [1..Len(b) -> Elements(b)] :
          \A c \in SeqSet(b) : \E i \in 1..Len(b) :
            \A j \in 1..Len(b) : reply[j].about = c <=> j = i}

\* batch.find((s) => s.request.id === id) finds call b[k]
Finds(b, id, k) ==
  /\ k \in 1..Len(b)
  /\ idOf[b[k]] = id
  /\ \A j \in 1..(k - 1) : idOf[b[j]] # id

\* forEach is left by the exception that a garbled element of the batch raises
Reached(b, reply, i) ==
  \A j \in 1..i : ~(reply[j].kind = "garbled" /\ \E k \in 1..Len(b) : Finds(b, reply[j].id, k))

\* Faulty: elements are matched by position.
SettlesByPosition(b, reply, i, c) ==
  /\ i \in DOMAIN reply \cap DOMAIN b
  /\ b[i] = c /\ Reached(b, reply, i)

\* Element i of the reply calls resolve or reject of call c first.
Settles(b, reply, i, c) ==
  LET Hits(m) == Reached(b, reply, m)
                   /\ \E k \in 1..Len(b) : b[k] = c /\ Finds(b, reply[m].id, k)
  IN /\ i \in DOMAIN reply /\ Hits(i)
     /\ \A j \in 1..(i - 1) : ~Hits(j)

\* A promise settles once; later calls of its resolve and reject do nothing.
Response(b) ==
  /\ b \in batches
  /\ batches' = batches \ {b}
  /\ \E reply \in Replies(b) :
       LET settled == {c \in Calls : outcome[c] = "pending"
                                       /\ \E i \in DOMAIN reply : Settles(b, reply, i, c)}
           By(c) == reply[CHOOSE i \in DOMAIN reply : Settles(b, reply, i, c)]
       IN /\ outcome' = [c \in Calls |->
               IF c \notin settled THEN outcome[c]
               ELSE IF By(c).kind = "error" THEN "rejected" ELSE "resolved"]
          /\ answerOf' = [c \in Calls |-> IF c \in settled THEN By(c).about ELSE answerOf[c]]
  /\ UNCHANGED <<timer, queue, faulty>>

\* Faulty: only the first promise of the batch is rejected.
HttpErrorFirst(b) ==
  /\ b \in batches
  /\ batches' = batches \ {b}
  /\ outcome' = [outcome EXCEPT ![b[1]] = "rejected"]
  /\ UNCHANGED <<timer, queue, answerOf, faulty>>

\* The HTTP request fails: for every id, the promise that find() returns.
HttpError(b) ==
  /\ b \in batches
  /\ batches' = batches \ {b}
  /\ outcome' = [c \in Calls |->
       IF outcome[c] = "pending" /\ \E k \in 1..Len(b) : b[k] = c /\ Finds(b, idOf[c], k)
       THEN "rejected" ELSE outcome[c]]
  /\ UNCHANGED <<timer, queue, answerOf, faulty>>
-----------------------------------------------------------------------------
Next ==
  \/ \E c \in Calls : Execute(c)
  \/ Tick
  \/ Disconnect
  \/ \E b \in batches : Response(b) \/ HttpError(b)

Spec == Init /\ [][Next]_vars

(* The interval fires while it is armed, and fetch either delivers a reply   *)
(* or fails.                                                                 *)
FairSpec ==
  /\ Spec
  /\ WF_vars(Tick)
  /\ WF_vars(\E b \in batches : Response(b) \/ HttpError(b))
-----------------------------------------------------------------------------
(* Type invariant.                                                           *)
TypeOK ==
  /\ timer \in BOOLEAN
  /\ queue \in Seq(Calls)
  /\ batches \subseteq Seq(Calls) \ {<<>>}
  /\ outcome \in [Calls -> {"idle", "pending", "resolved", "rejected"}]
  /\ answerOf \in [Calls -> Calls \cup {Nobody}]
  /\ faulty \in BOOLEAN

NoRepeats(s) == \A i, j \in DOMAIN s : s[i] = s[j] => i = j

(* The queue never holds a full batch between two handlers, so that every    *)
(* tick empties it and no request waits for a second tick.                   *)
QueueBelowLimit == Len(queue) < BatchSizeLimit

(* A call is sent once: it is in the queue or in one outstanding batch, at    *)
(* one place, and only while its promise is pending.                         *)
PlacedOnce ==
  /\ NoRepeats(queue)
  /\ \A b \in batches : NoRepeats(b) /\ Len(b) <= BatchSizeLimit
  /\ \A b \in batches : SeqSet(b) \cap SeqSet(queue) = {}
  /\ \A a, b \in batches : a # b => SeqSet(a) \cap SeqSet(b) = {}
  /\ \A c \in SeqSet(queue) \cup UNION {SeqSet(b) : b \in batches} : outcome[c] = "pending"

(* With a server that answers all elements of a batch, no promise is left    *)
(* behind: a pending call waits in the queue or in an outstanding request.   *)
NoneStranded ==
  ~faulty =>
    \A c \in Calls : outcome[c] = "pending" =>
      c \in SeqSet(queue) \cup UNION {SeqSet(b) : b \in batches}

(* No promise settles with the answer to another call, even when the reply   *)
(* is out of order, incomplete, repeats elements or invents some.            *)
AnswersMatch == \A c \in Calls : answerOf[c] \in {c, Nobody}

(* The client keeps the promise of every RPC client.                         *)
Abstract == INSTANCE RpcCalls
ImplementsRpcCalls == Abstract!Spec

(* As long as disconnect() is not called and the server answers, every call   *)
(* settles: a train that is not full leaves with the interval.               *)
EverySettles ==
  \A c \in Calls :
    (outcome[c] = "pending" /\ ~faulty) ~> (outcome[c] \in {"resolved", "rejected"} \/ ~timer)
=============================================================================

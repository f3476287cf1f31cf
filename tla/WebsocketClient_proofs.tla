----------------------- MODULE WebsocketClient_proofs -----------------------
(* Proofs about WebsocketClient, for any number of calls, any streams and     *)
(* bounds.                                                                    *)
EXTENDS WebsocketClient, SequenceTheorems, FiniteSetTheorems, TLAPS

-----------------------------------------------------------------------------
(* Sequences.                                                                 *)

LEMMA DomainOfAppend ==
  ASSUME NEW S, NEW s \in Seq(S), NEW x \in S
  PROVE  /\ Append(s, x) \in Seq(S) /\ Len(s) \in Nat
         /\ DOMAIN s = 1..Len(s) /\ DOMAIN Append(s, x) = 1..(Len(s) + 1)
         /\ \A i \in DOMAIN s : Append(s, x)[i] = s[i]
         /\ Append(s, x)[Len(s) + 1] = x
<1>1. /\ Append(s, x) \in Seq(S) /\ Len(Append(s, x)) = Len(s) + 1
      /\ \A i \in 1..Len(s) : Append(s, x)[i] = s[i]
      /\ Append(s, x)[Len(s) + 1] = x
  BY AppendProperties
<1> QED  BY <1>1, LenProperties

LEMMA DomainOfTail ==
  ASSUME NEW S, NEW s \in Seq(S), s # <<>>
  PROVE  /\ Tail(s) \in Seq(S) /\ Head(s) \in S /\ Head(s) = s[1]
         /\ Len(s) \in Nat \ {0} /\ DOMAIN s = 1..Len(s) /\ DOMAIN Tail(s) = 1..(Len(s) - 1)
         /\ \A i \in DOMAIN Tail(s) : i + 1 \in DOMAIN s /\ Tail(s)[i] = s[i + 1]
<1>1. /\ Tail(s) \in Seq(S) /\ Len(Tail(s)) = Len(s) - 1 /\ Head(s) \in S /\ Head(s) = s[1]
      /\ \A i \in 1..Len(Tail(s)) : Tail(s)[i] = s[i + 1]
  BY HeadTailProperties
<1>2. /\ DOMAIN s = 1..Len(s) /\ Len(s) \in Nat \ {0}
      /\ DOMAIN Tail(s) = 1..(Len(s) - 1)
  BY <1>1, LenProperties, EmptySeq
<1> QED  BY <1>1, <1>2
-----------------------------------------------------------------------------
(* Types.                                                                     *)

LEMMA StopType ==
  ASSUME outbox \in Seq(Requests), NEW S \in SUBSET Streams, Stop(S)
  PROVE  outbox' \in Seq(Requests)
<1> PICK order \in [1..Cardinality(S) -> S] :
      outbox' = IF closed THEN outbox
                ELSE outbox \o [k \in DOMAIN order |-> Request("unsubscribe", order[k])]
  BY DEF Stop
<1> DEFINE stops == [k \in DOMAIN order |-> Request("unsubscribe", order[k])]
<1>1. Cardinality(S) \in Nat
  BY FS_Subset, FS_CardinalityType, NamesAssumption DEF NamesAssumption
<1>2. stops \in [1..Cardinality(S) -> Requests]
  BY DEF Request, Requests
<1>3. stops \in Seq(Requests)
  BY <1>1, <1>2, SeqDef
<1> HIDE DEF stops
<1>4. outbox \o stops \in Seq(Requests)
  BY <1>3, ConcatProperties
<1> QED  BY <1>4 DEF stops

LEMMA CloseType ==
  ASSUME TypeOK, NEW Q \in SUBSET Streams, NEW how \in {"failed", "completed"}, CloseSubscriptions(Q, how)
  PROVE  /\ groups' \in [Streams -> Nat] /\ outbox' \in Seq(Requests)
         /\ stream' \in [Streams -> {"off", "on", "failed", "completed"}]
         /\ \A q \in Streams : groups'[q] \in {0, groups[q]}
<1>1. outbox' \in Seq(Requests)
  BY StopType DEF CloseSubscriptions, TypeOK
<1> QED  BY <1>1 DEF CloseSubscriptions, TypeOK

LEMMA MessageTypes ==
  /\ \A kind \in {"result", "error"}, id \in Calls \cup Streams : Message(kind, id, 0) \in Messages
  /\ \A q \in Streams, n \in Nat : Message("event", q, n + 1) \in Messages
  /\ Message("garbled", Nobody, 0) \in Messages
BY DEF Message, Messages

LEMMA InitType == Init => TypeOK
<1> SUFFICES ASSUME Init PROVE TypeOK
  OBVIOUS
<1>1. <<>> \in Seq(Requests) /\ <<>> \in Seq(Messages) /\ <<>> \in Seq(Nat \ {0})
  BY EmptySeq
<1> QED  BY <1>1 DEF Init, TypeOK

LEMMA NextType == TypeOK /\ [Next]_vars => TypeOK'
<1> SUFFICES ASSUME TypeOK, [Next]_vars PROVE TypeOK'
  OBVIOUS
<1> USE DEF client, socket, server, history
<1>0. Listening \subseteq Streams /\ \A q \in Streams : {q} \subseteq Streams
  BY DEF Listening
<1>1. ASSUME NEW c \in Calls, Execute(c) PROVE TypeOK'
  <2>1. Request("call", c) \in Requests
    BY DEF Request, Requests
  <2>2. Append(outbox, Request("call", c)) \in Seq(Requests) /\ outbox \in Seq(Requests)
    BY <2>1, DomainOfAppend DEF TypeOK
  <2> QED  BY <1>1, <2>2 DEF Execute, TypeOK
<1>2. ASSUME NEW q \in Streams, Listen(q) PROVE TypeOK'
  <2>1. Request("subscribe", q) \in Requests /\ <<>> \in Seq(Nat \ {0})
    BY EmptySeq DEF Request, Requests
  <2>2. outbox' \in Seq(Requests)
    BY <1>2, <2>1, DomainOfAppend DEF Listen, TypeOK
  <2> QED  BY <1>2, <2>1, <2>2 DEF Listen, ConnectToClient, TypeOK
<1>3. ASSUME NEW q \in Streams, Leave(q) PROVE TypeOK'
  <2>1. Stop({q}) /\ {q} \in SUBSET Streams /\ outbox \in Seq(Requests)
    BY <1>3 DEF Leave, TypeOK
  <2>2. outbox' \in Seq(Requests)
    BY <2>1, StopType
  <2> QED  BY <1>3, <2>2 DEF Leave, TypeOK
<1>4. ASSUME NEW q \in Streams, Publish(q) PROVE TypeOK'
  <2>1. down' \in Seq(Messages)
    BY <1>4, MessageTypes, DomainOfAppend DEF Publish, TypeOK
  <2> QED  BY <1>4, <2>1 DEF Publish, TypeOK
<1>5. CASE Disconnect
  <2>1. <<>> \in Seq(Requests) /\ <<>> \in Seq(Messages)
    BY EmptySeq
  <2>2. /\ groups' \in [Streams -> Nat] /\ outbox' \in Seq(Requests)
        /\ stream' \in [Streams -> {"off", "on", "failed", "completed"}]
    BY <1>0, <1>5, CloseType DEF Disconnect
  <2> QED  BY <1>5, <2>1, <2>2 DEF Disconnect, TypeOK
<1>6. CASE Open
  BY <1>6 DEF Open, TypeOK
<1>7. CASE Write
  <2>1. up' \in Seq(Requests) /\ outbox' \in Seq(Requests)
    BY <1>7, DomainOfTail, DomainOfAppend DEF Write, TypeOK
  <2> QED  BY <1>7, <2>1 DEF Write, TypeOK
<1>8. CASE Drop
  <2>1. <<>> \in Seq(Requests) /\ <<>> \in Seq(Messages)
    BY EmptySeq
  <2>2. lost' \subseteq Calls
    <3>1. \A S : {c \in Calls : c \in S} \subseteq Calls
      OBVIOUS
    <3>2. lost \subseteq Calls
      BY DEF TypeOK
    <3> QED  BY <1>8, <3>1, <3>2 DEF Drop
  <2>3. /\ connected' = FALSE /\ drops' = drops + 1 /\ up' = <<>> /\ down' = <<>> /\ subs' = {}
        /\ UNCHANGED <<client, outbox, stuck, closed, published, starts, garbled, limit>>
    BY <1>8 DEF Drop
  <2>4. {connected', stuck', closed'} \subseteq BOOLEAN
    BY <2>3 DEF TypeOK
  <2>5. drops' \in Nat /\ garbled' \in Nat /\ limit' \in Limits
    BY <2>3 DEF TypeOK
  <2>6. UNCHANGED <<outcome, answerOf, stream, groups, seen, outbox, published, starts>>
    BY <2>3
  <2> QED  BY <2>1, <2>2, <2>3, <2>4, <2>5, <2>6 DEF TypeOK
<1>9. CASE Garble
  <2>1. down' \in Seq(Messages)
    BY <1>9, MessageTypes, DomainOfAppend DEF Garble, TypeOK
  <2> QED  BY <1>9, <2>1 DEF Garble, TypeOK
<1>10. ASSUME NEW i \in DOMAIN up, Answer(i) PROVE TypeOK'
  <2>1. up \in Seq(Requests) /\ DOMAIN up = 1..Len(up) /\ Len(up) \in Nat /\ up[i] \in Requests
    BY LenProperties, ElementOfSeq DEF TypeOK
  <2>2. SubSeq(up, 1, i - 1) \in Seq(Requests) /\ SubSeq(up, i + 1, Len(up)) \in Seq(Requests)
    <3>1. \A j \in 1..Len(up) : up[j] \in Requests
      BY <2>1, ElementOfSeq
    <3>2. \A j \in 1..(i - 1) : up[j] \in Requests
      BY <2>1, <3>1
    <3>3. \A j \in (i + 1)..Len(up) : up[j] \in Requests
      BY <2>1, <3>1
    <3>4. i \in Int /\ i - 1 \in Int /\ i + 1 \in Int /\ Len(up) \in Int /\ 1 \in Int
      BY <2>1
    <3> QED  BY <3>2, <3>3, <3>4, SubSeqProperties
  <2>3. up' \in Seq(Requests)
    BY <1>10, <2>2, ConcatProperties DEF Answer
  <2>4. up[i].id \in Calls \cup Streams /\ (up[i].method # "call" => up[i].id \in Streams)
    BY <2>1 DEF Requests
  <2>5. PICK kind \in {"result", "error"} :
           /\ down' = Append(down, Message(kind, up[i].id, 0))
           /\ subs' = IF kind = "error" \/ up[i].method = "call" THEN subs
                      ELSE IF up[i].method = "subscribe" THEN subs \cup {up[i].id} ELSE subs \ {up[i].id}
    BY <1>10 DEF Answer
  <2>6. Message(kind, up[i].id, 0) \in Messages
    BY <2>4, MessageTypes
  <2>7. down' \in Seq(Messages) /\ subs' \subseteq Streams
    BY <2>4, <2>5, <2>6, DomainOfAppend DEF TypeOK
  <2> QED  BY <1>10, <2>3, <2>7 DEF Answer, TypeOK
<1>11. CASE Deliver
  <2>1. down # <<>> /\ down' = Tail(down)
    BY <1>11 DEF Deliver, DeliverGarbled, DeliverAnswer, DeliverReply, DeliverEvent
  <2>2. Head(down) \in Messages /\ down' \in Seq(Messages)
    BY <2>1, DomainOfTail DEF TypeOK
  <2>3. CASE DeliverGarbled
    <3>1. /\ groups' \in [Streams -> Nat] /\ outbox' \in Seq(Requests)
          /\ stream' \in [Streams -> {"off", "on", "failed", "completed"}]
      BY <1>0, <2>3, CloseType DEF DeliverGarbled
    <3> QED  BY <2>2, <2>3, <3>1 DEF DeliverGarbled, TypeOK
  <2>4. CASE DeliverAnswer
    BY <2>2, <2>4 DEF DeliverAnswer, TypeOK
  <2>5. CASE DeliverReply
    <3>1. /\ groups' \in [Streams -> Nat] /\ outbox' \in Seq(Requests)
          /\ stream' \in [Streams -> {"off", "on", "failed", "completed"}]
      BY <2>5, CloseType DEF DeliverReply
    <3> QED  BY <2>2, <2>5, <3>1 DEF DeliverReply, TypeOK
  <2>6. CASE DeliverEvent
    <3> DEFINE q == Head(down).id
               copies == [k \in 1..groups[q] |-> Head(down).n]
    <3>1. q \in Streams /\ Head(down).n \in Nat \ {0} /\ groups[q] \in Nat
      BY <2>2, <2>6 DEF DeliverEvent, Messages, TypeOK
    <3>0. copies \in [1..groups[q] -> Nat \ {0}]
      BY <3>1
    <3> HIDE DEF copies
    <3>2. copies \in Seq(Nat \ {0}) /\ seen[q] \in Seq(Nat \ {0})
      <4>1. copies \in Seq(Nat \ {0})
        BY <3>1, <3>0, SeqDef
      <4>2. seen[q] \in Seq(Nat \ {0})
        BY <3>1 DEF TypeOK
      <4> QED  BY <4>1, <4>2
    <3>3. seen[q] \o copies \in Seq(Nat \ {0})
      BY <3>2, ConcatProperties
    <3>4. seen' \in [Streams -> Seq(Nat \ {0})]
      BY <2>6, <3>3 DEF DeliverEvent, copies, TypeOK
    <3> QED  BY <2>2, <2>6, <3>4 DEF DeliverEvent, TypeOK
  <2> QED  BY <1>11, <2>3, <2>4, <2>5, <2>6 DEF Deliver
<1>12. CASE UNCHANGED vars
  BY <1>12 DEF vars, TypeOK
<1> QED
  BY <1>1, <1>2, <1>3, <1>4, <1>5, <1>6, <1>7, <1>8, <1>9, <1>10, <1>11, <1>12 DEF Next

(* Type correctness: every message and every request under way belongs to a   *)
(* call or a stream of this client.                                           *)
THEOREM TypeCorrect == Spec => []TypeOK
<1> QED  BY InitType, NextType, PTL DEF Spec
-----------------------------------------------------------------------------
(* The promise of RPC clients.                                                *)

\* A promise that is not settled got no answer yet.
Unanswered == \A c \in Calls : outcome[c] \in {"idle", "pending"} => answerOf[c] = Nobody

\* What a message may do to the promise of c.
Settles(c) ==
  /\ outcome[c] = "pending" /\ outcome'[c] \in {"resolved", "rejected"}
  /\ answerOf'[c] \in {c, Nobody}

LEMMA PromiseSteps ==
  ASSUME TypeOK, Unanswered, [Next]_vars
  PROVE  \/ UNCHANGED <<outcome, answerOf>>
         \/ \E c \in Calls : Abstract!Issue(c) \/ Abstract!Refuse(c)
         \/ \A c \in Calls : Settles(c) \/ (outcome'[c] = outcome[c] /\ answerOf'[c] = answerOf[c])
<1> USE DEF client, socket, server, history
<1>1. ASSUME NEW c \in Calls, Execute(c) PROVE Abstract!Issue(c) \/ Abstract!Refuse(c)
  BY <1>1 DEF Execute, Abstract!Issue, Abstract!Refuse
<1>2. ASSUME DeliverAnswer, NEW c \in Calls
      PROVE  Settles(c) \/ (outcome'[c] = outcome[c] /\ answerOf'[c] = answerOf[c])
  BY <1>2 DEF DeliverAnswer, Picks, Settles
<1>3. ASSUME DeliverGarbled \/ Disconnect, NEW c \in Calls
      PROVE  Settles(c) \/ (outcome'[c] = outcome[c] /\ answerOf'[c] = answerOf[c])
  BY <1>3 DEF DeliverGarbled, Disconnect, Settles, Unanswered, TypeOK
<1>4. ASSUME NEW q \in Streams, Listen(q) \/ Leave(q) \/ Publish(q) PROVE UNCHANGED <<outcome, answerOf>>
  BY <1>4 DEF Listen, Leave, Publish
<1>5. ASSUME NEW i \in DOMAIN up, Answer(i) PROVE UNCHANGED <<outcome, answerOf>>
  BY <1>5 DEF Answer
<1>6. ASSUME Open \/ Write \/ Drop \/ Garble \/ DeliverReply \/ DeliverEvent \/ UNCHANGED vars
      PROVE  UNCHANGED <<outcome, answerOf>>
  BY <1>6 DEF Open, Write, Drop, Garble, DeliverReply, DeliverEvent, vars
<1> QED  BY <1>1, <1>2, <1>3, <1>4, <1>5, <1>6 DEF Next, Deliver

(* The client implements RpcCalls: a promise settles once at most, and with   *)
(* no answer to another call, also when connections are lost and messages     *)
(* cannot be parsed.                                                          *)
THEOREM Refinement == Spec => ImplementsRpcCalls
<1>1. Init => Abstract!Init /\ Unanswered
  BY DEF Init, Abstract!Init, Unanswered
<1>2. TypeOK /\ Unanswered /\ [Next]_vars => Unanswered'
  <2> SUFFICES ASSUME TypeOK, Unanswered, [Next]_vars, NEW c \in Calls, outcome'[c] \in {"idle", "pending"}
               PROVE  answerOf'[c] = Nobody
    BY DEF Unanswered
  <2>1. CASE UNCHANGED <<outcome, answerOf>>
    BY <2>1 DEF Unanswered
  <2>2. CASE \E d \in Calls : Abstract!Issue(d) \/ Abstract!Refuse(d)
    BY <2>2 DEF Abstract!Issue, Abstract!Refuse, Unanswered, TypeOK
  <2>3. CASE Settles(c) \/ (outcome'[c] = outcome[c] /\ answerOf'[c] = answerOf[c])
    BY <2>3 DEF Settles, Unanswered
  <2> QED  BY <2>1, <2>2, <2>3, PromiseSteps
<1>3. TypeOK /\ TypeOK' /\ Unanswered /\ [Next]_vars => [Abstract!Next]_(Abstract!vars)
  <2> SUFFICES ASSUME TypeOK, TypeOK', Unanswered, [Next]_vars PROVE [Abstract!Next]_(Abstract!vars)
    OBVIOUS
  <2>1. CASE UNCHANGED <<outcome, answerOf>>
    BY <2>1 DEF Abstract!vars
  <2>2. CASE \E c \in Calls : Abstract!Issue(c) \/ Abstract!Refuse(c)
    BY <2>2 DEF Abstract!Next
  <2>3. CASE \A c \in Calls : Settles(c) \/ (outcome'[c] = outcome[c] /\ answerOf'[c] = answerOf[c])
    BY <2>3 DEF Settles, TypeOK, Abstract!Next, Abstract!Settle, Abstract!Settled
  <2> QED  BY <2>1, <2>2, <2>3, PromiseSteps
<1> QED  BY <1>1, <1>2, <1>3, InitType, NextType, PTL DEF Spec, ImplementsRpcCalls, Abstract!Spec
-----------------------------------------------------------------------------
(* The order of events.  For query q: d is what is on its way to the client,  *)
(* s what the listener has got, p the number published, g the groups of       *)
(* subscriptions and b the number of starts.                                  *)

IsEvent(m, q) == m.kind = "event" /\ m.id = q

Ordered(q, d, s, p, g, b) ==
  /\ g <= b
  /\ \A i \in DOMAIN d : IsEvent(d[i], q) => d[i].n <= p
  /\ \A i, j \in DOMAIN d : i < j /\ IsEvent(d[i], q) /\ IsEvent(d[j], q) => d[i].n < d[j].n
  /\ \A i \in DOMAIN s : s[i] <= p
  /\ \A i \in DOMAIN s, j \in DOMAIN d : IsEvent(d[j], q) => s[i] < d[j].n
  /\ \A i, j \in DOMAIN s : i < j => s[i] <= s[j] /\ (b = 1 => s[i] < s[j])

Orders == \A q \in Streams : Ordered(q, down, seen[q], published[q], groups[q], starts[q])

LEMMA OrderedAppend ==
  ASSUME NEW q \in Streams, NEW d \in Seq(Messages), NEW s \in Seq(Nat \ {0}), NEW p \in Nat,
         NEW g \in Nat, NEW b \in Nat, NEW m \in Messages, Ordered(q, d, s, p, g, b)
  PROVE  /\ ~IsEvent(m, q) => Ordered(q, Append(d, m), s, p, g, b)
         /\ m.n = p + 1 => Ordered(q, Append(d, m), s, p + 1, g, b)
<1> DEFINE e == Append(d, m)
<1>1. /\ Len(d) \in Nat /\ DOMAIN d = 1..Len(d) /\ DOMAIN e = 1..(Len(d) + 1)
      /\ \A i \in DOMAIN d : e[i] = d[i]
      /\ e[Len(d) + 1] = m
  BY DomainOfAppend
<1>2. DOMAIN s = 1..Len(s) /\ \A i \in DOMAIN s : s[i] \in Nat
  BY LenProperties
<1>3. \A i \in DOMAIN d : d[i] \in Messages
  BY <1>1, ElementOfSeq
<1>4. \A x \in Messages : x.n \in Nat
  BY DEF Messages
<1>5. \A i \in DOMAIN e : i # Len(d) + 1 => i \in DOMAIN d
  BY <1>1
<1> HIDE DEF e
<1>6. ~IsEvent(m, q) => Ordered(q, e, s, p, g, b)
  BY <1>1, <1>5 DEF Ordered
<1>7. m.n = p + 1 => Ordered(q, e, s, p + 1, g, b)
  <2> SUFFICES ASSUME m.n = p + 1 PROVE Ordered(q, e, s, p + 1, g, b)
    OBVIOUS
  <2>1. \A i \in DOMAIN e : IsEvent(e[i], q) => e[i].n <= p + 1
    BY <1>1, <1>3, <1>4, <1>5 DEF Ordered
  <2>2. \A i, j \in DOMAIN e : i < j /\ IsEvent(e[i], q) /\ IsEvent(e[j], q) => e[i].n < e[j].n
    <3> SUFFICES ASSUME NEW i \in DOMAIN e, NEW j \in DOMAIN e, i < j, IsEvent(e[i], q), IsEvent(e[j], q)
                 PROVE  e[i].n < e[j].n
      OBVIOUS
    <3>1. i \in DOMAIN d /\ e[i] = d[i]
      BY <1>1
    <3>2. CASE j \in DOMAIN d
      BY <1>1, <3>1, <3>2 DEF Ordered
    <3>3. CASE j = Len(d) + 1
      <4>1. d[i].n <= p /\ d[i].n \in Nat /\ e[j].n = p + 1
        BY <1>1, <1>3, <1>4, <3>1, <3>3 DEF Ordered
      <4> QED  BY <3>1, <4>1
    <3> QED  BY <1>5, <3>2, <3>3
  <2>3. \A i \in DOMAIN s : s[i] <= p + 1
    BY <1>2 DEF Ordered
  <2>4. \A i \in DOMAIN s, j \in DOMAIN e : IsEvent(e[j], q) => s[i] < e[j].n
    <3> SUFFICES ASSUME NEW i \in DOMAIN s, NEW j \in DOMAIN e, IsEvent(e[j], q) PROVE s[i] < e[j].n
      OBVIOUS
    <3>1. CASE j \in DOMAIN d
      BY <1>1, <3>1 DEF Ordered
    <3>2. CASE j = Len(d) + 1
      BY <1>1, <1>2, <3>2 DEF Ordered
    <3> QED  BY <1>5, <3>1, <3>2
  <2> QED  BY <2>1, <2>2, <2>3, <2>4 DEF Ordered
<1> QED  BY <1>6, <1>7 DEF e

LEMMA OrderedTail ==
  ASSUME NEW q \in Streams, NEW d \in Seq(Messages), d # <<>>, NEW s \in Seq(Nat \ {0}), NEW p \in Nat,
         NEW g \in Nat, NEW b \in Nat, Ordered(q, d, s, p, g, b)
  PROVE  Ordered(q, Tail(d), s, p, g, b)
<1> DEFINE e == Tail(d)
<1>1. /\ \A i \in DOMAIN e : i + 1 \in DOMAIN d /\ e[i] = d[i + 1]
      /\ DOMAIN e = 1..(Len(d) - 1) /\ Len(d) \in Nat
  BY DomainOfTail
<1>2. \A i, j \in DOMAIN e : i < j => i + 1 < j + 1
  BY <1>1
<1> HIDE DEF e
<1>3. Ordered(q, e, s, p, g, b)
  BY <1>1, <1>2 DEF Ordered
<1> QED  BY <1>3 DEF e

\* An event of q arrives, in as many copies as there are groups.
LEMMA OrderedArrival ==
  ASSUME NEW q \in Streams, NEW d \in Seq(Messages), d # <<>>, NEW s \in Seq(Nat \ {0}), NEW p \in Nat,
         NEW g \in Nat, NEW b \in Nat, Ordered(q, d, s, p, g, b), IsEvent(Head(d), q)
  PROVE  Ordered(q, Tail(d), s \o [k \in 1..g |-> Head(d).n], p, g, b)
<1> DEFINE e == Tail(d)
           n == Head(d).n
           copies == [k \in 1..g |-> n]
           t == s \o copies
<1>1. /\ \A i \in DOMAIN e : i + 1 \in DOMAIN d /\ e[i] = d[i + 1]
      /\ DOMAIN e = 1..(Len(d) - 1) /\ Len(d) \in Nat \ {0} /\ DOMAIN d = 1..Len(d)
      /\ Head(d) \in Messages /\ Head(d) = d[1]
  BY DomainOfTail
<1>2. n \in Nat \ {0} /\ 1 \in DOMAIN d /\ d[1].n = n
  BY <1>1 DEF Messages, IsEvent
<1>3. copies \in [1..g -> Nat \ {0}] /\ \A k \in 1..g : copies[k] = n
  BY <1>2
<1>4. Ordered(q, e, s, p, g, b)
  BY OrderedTail
<1> HIDE DEF copies, e, n
<1>5. copies \in Seq(Nat \ {0}) /\ Len(copies) = g
  <2>1. copies \in Seq(Nat \ {0})
    BY <1>3, SeqDef
  <2>2. DOMAIN copies = 1..Len(copies) /\ Len(copies) \in Nat /\ DOMAIN copies = 1..g
    BY <1>3, <2>1, LenProperties
  <2>3. ASSUME NEW a \in Nat, NEW c \in Nat, 1..a = 1..c PROVE a = c
    <3>1. (a > c => a \in 1..a /\ a \notin 1..c) /\ (c > a => c \in 1..c /\ c \notin 1..a)
      OBVIOUS
    <3> QED  BY <2>3, <3>1
  <2> QED  BY <2>1, <2>2, <2>3
<1>6. /\ t \in Seq(Nat \ {0}) /\ Len(t) = Len(s) + g /\ Len(s) \in Nat
      /\ \A i \in 1..(Len(s) + g) : t[i] = IF i <= Len(s) THEN s[i] ELSE copies[i - Len(s)]
  BY <1>5, ConcatProperties, LenProperties
<1>7. DOMAIN t = 1..(Len(s) + g) /\ DOMAIN s = 1..Len(s) /\ \A i \in DOMAIN s : s[i] \in Nat
  BY <1>6, LenProperties
<1> HIDE DEF t
<1>8. \A i \in DOMAIN t : (i \in DOMAIN s /\ t[i] = s[i]) \/ (i > Len(s) /\ t[i] = n)
  <2> SUFFICES ASSUME NEW i \in DOMAIN t
               PROVE  (i \in DOMAIN s /\ t[i] = s[i]) \/ (i > Len(s) /\ t[i] = n)
    OBVIOUS
  <2>1. CASE i <= Len(s)
    BY <1>6, <1>7, <2>1
  <2>2. CASE i > Len(s)
    <3>1. i - Len(s) \in 1..g /\ t[i] = copies[i - Len(s)]
      BY <1>6, <1>7, <2>2
    <3> QED  BY <1>3, <2>2, <3>1
  <2> QED  BY <1>6, <1>7, <2>1, <2>2
<1>9. n <= p /\ \A i \in DOMAIN s : s[i] < n
  BY <1>1, <1>2 DEF Ordered
<1>10. \A j \in DOMAIN e : IsEvent(e[j], q) => n < e[j].n
  <2> SUFFICES ASSUME NEW j \in DOMAIN e, IsEvent(e[j], q) PROVE n < e[j].n
    OBVIOUS
  <2>1. j + 1 \in DOMAIN d /\ e[j] = d[j + 1] /\ 1 < j + 1 /\ IsEvent(d[1], q)
    BY <1>1
  <2> QED  BY <1>2, <2>1 DEF Ordered
<1>11. \A i, j \in DOMAIN t : i < j => t[i] <= t[j] /\ (b = 1 => t[i] < t[j])
  <2> SUFFICES ASSUME NEW i \in DOMAIN t, NEW j \in DOMAIN t, i < j
               PROVE  t[i] <= t[j] /\ (b = 1 => t[i] < t[j])
    OBVIOUS
  <2>1. CASE i \in DOMAIN s /\ j \in DOMAIN s
    BY <1>6, <1>7, <1>8, <2>1 DEF Ordered
  <2>2. CASE i \in DOMAIN s /\ j \notin DOMAIN s
    <3>1. t[i] = s[i] /\ t[j] = n /\ s[i] < n /\ s[i] \in Nat
      BY <1>6, <1>7, <1>8, <1>9, <2>2
    <3> QED  BY <1>2, <3>1
  <2>3. CASE i \notin DOMAIN s
    <3>1. i > Len(s) /\ j > Len(s) /\ t[i] = n /\ t[j] = n
      BY <1>6, <1>7, <1>8, <2>3
    <3>2. g > 1
      BY <1>6, <1>7, <3>1
    <3>3. b # 1
      BY <3>2 DEF Ordered
    <3> QED  BY <1>2, <3>1, <3>3
  <2> QED  BY <2>1, <2>2, <2>3
<1>12. Ordered(q, e, t, p, g, b)
  BY <1>4, <1>7, <1>8, <1>9, <1>10, <1>11 DEF Ordered
<1> QED  BY <1>12 DEF e, t, copies, n

LEMMA OrderedAfterLess ==
  ASSUME NEW q \in Streams, NEW d \in Seq(Messages), NEW s \in Seq(Nat \ {0}), NEW p \in Nat,
         NEW g \in Nat, NEW b \in Nat, Ordered(q, d, s, p, g, b)
  PROVE  /\ Ordered(q, <<>>, s, p, g, b)            \* a connection is lost
         /\ Ordered(q, d, <<>>, p, g + 1, b + 1)    \* the stream starts again
         /\ Ordered(q, d, s, p, 0, b)               \* its subscriptions end
<1>1. DOMAIN <<>> = {}
  OBVIOUS
<1> QED  BY <1>1 DEF Ordered

LEMMA OrdersInit == Init => Orders
<1>1. DOMAIN <<>> = {}
  OBVIOUS
<1> QED  BY <1>1 DEF Init, Orders, Ordered

LEMMA OrdersNext == TypeOK /\ Orders /\ [Next]_vars => Orders'
<1> SUFFICES ASSUME TypeOK, Orders, [Next]_vars, NEW q \in Streams
             PROVE  Ordered(q, down, seen[q], published[q], groups[q], starts[q])'
  BY DEF Orders
<1> DEFINE Now == Ordered(q, down, seen[q], published[q], groups[q], starts[q])
           Value(d, s, p, g, b) ==
             down' = d /\ seen'[q] = s /\ published'[q] = p /\ groups'[q] = g /\ starts'[q] = b
<1>0. /\ Now /\ down \in Seq(Messages) /\ seen[q] \in Seq(Nat \ {0})
      /\ published[q] \in Nat /\ groups[q] \in Nat /\ starts[q] \in Nat
  BY DEF Orders, TypeOK
<1> USE DEF client, socket, server, history
<1>1. ASSUME UNCHANGED <<down, seen, published, groups, starts>> PROVE Now'
  BY <1>0, <1>1
<1>2. ASSUME NEW m \in Messages, ~IsEvent(m, q), down' = Append(down, m),
             UNCHANGED <<seen, groups, starts>>, published'[q] = published[q]
      PROVE  Now'
  <2>1. Ordered(q, Append(down, m), seen[q], published[q], groups[q], starts[q])
    BY <1>0, <1>2, OrderedAppend
  <2> QED  BY <1>2, <2>1
<1>3. ASSUME NEW r \in Streams, Listen(r) PROVE Now'
  <2>1. CASE r = q
    <3>1. Ordered(q, down, <<>>, published[q], groups[q] + 1, starts[q] + 1)
      BY <1>0, OrderedAfterLess
    <3>2. Value(down, <<>>, published[q], groups[q] + 1, starts[q] + 1)
      BY <1>3, <2>1 DEF Listen, ConnectToClient, TypeOK
    <3> QED  BY <3>1, <3>2
  <2>2. CASE r # q
    <3>1. Value(down, seen[q], published[q], groups[q], starts[q])
      BY <1>3, <2>2 DEF Listen, ConnectToClient, TypeOK
    <3> QED  BY <1>0, <3>1
  <2> QED  BY <2>1, <2>2
<1>4. ASSUME NEW r \in Streams, Publish(r) PROVE Now'
  <2> DEFINE m == Message("event", r, published[r] + 1)
  <2>1. m \in Messages /\ m.n = published[r] + 1 /\ (r # q => ~IsEvent(m, q))
    BY MessageTypes DEF Message, IsEvent, TypeOK
  <2>2. down' = Append(down, m) /\ UNCHANGED <<seen, groups, starts>>
    BY <1>4 DEF Publish
  <2> HIDE DEF m
  <2>3. CASE r = q
    <3>1. Ordered(q, Append(down, m), seen[q], published[q] + 1, groups[q], starts[q])
      BY <1>0, <2>1, <2>3, OrderedAppend
    <3>2. Value(Append(down, m), seen[q], published[q] + 1, groups[q], starts[q])
      BY <1>4, <2>2, <2>3 DEF Publish, TypeOK
    <3> QED  BY <3>1, <3>2
  <2>4. CASE r # q
    <3>1. published'[q] = published[q]
      BY <1>4, <2>4 DEF Publish, TypeOK
    <3> QED  BY <1>2, <2>1, <2>2, <2>4, <3>1
  <2> QED  BY <2>3, <2>4
<1>5. CASE Disconnect
  <2>1. groups'[q] \in {0, groups[q]}
    BY <1>5, CloseType DEF Disconnect, Listening
  <2>2. down' = <<>> /\ UNCHANGED <<seen, published, starts>>
    BY <1>5 DEF Disconnect
  <2>3. <<>> \in Seq(Messages)
    BY EmptySeq
  <2>4. Ordered(q, <<>>, seen[q], published[q], groups[q], starts[q])
    BY <1>0, OrderedAfterLess
  <2>5. Ordered(q, <<>>, seen[q], published[q], 0, starts[q])
    BY <1>0, <2>3, <2>4, OrderedAfterLess
  <2> QED  BY <2>1, <2>2, <2>4, <2>5
<1>6. CASE Drop
  <2>1. down' = <<>> /\ UNCHANGED <<seen, published, groups, starts>>
    BY <1>6 DEF Drop
  <2>2. Ordered(q, <<>>, seen[q], published[q], groups[q], starts[q])
    BY <1>0, OrderedAfterLess
  <2> QED  BY <2>1, <2>2
<1>7. CASE Garble
  <2>1. ~IsEvent(Message("garbled", Nobody, 0), q)
    BY DEF IsEvent, Message
  <2> QED  BY <1>2, <1>7, <2>1, MessageTypes DEF Garble
<1>8. ASSUME NEW i \in DOMAIN up, Answer(i) PROVE Now'
  <2>1. up[i] \in Requests
    BY LenProperties, ElementOfSeq DEF TypeOK
  <2>2. PICK kind \in {"result", "error"} : down' = Append(down, Message(kind, up[i].id, 0))
    BY <1>8 DEF Answer
  <2>3. /\ Message(kind, up[i].id, 0) \in Messages /\ ~IsEvent(Message(kind, up[i].id, 0), q)
        /\ UNCHANGED <<seen, published, groups, starts>>
    BY <1>8, <2>1, MessageTypes DEF Answer, Requests, IsEvent, Message
  <2> QED  BY <1>2, <2>2, <2>3
<1>9. CASE Deliver
  <2>1. down # <<>> /\ down' = Tail(down) /\ UNCHANGED <<published, starts>>
    BY <1>9 DEF Deliver, DeliverGarbled, DeliverAnswer, DeliverReply, DeliverEvent
  <2>2. Head(down) \in Messages /\ Tail(down) \in Seq(Messages)
    BY <2>1, DomainOfTail DEF TypeOK
  <2>3. /\ Ordered(q, Tail(down), seen[q], published[q], groups[q], starts[q])
        /\ Ordered(q, Tail(down), seen[q], published[q], 0, starts[q])
    <3>1. Ordered(q, Tail(down), seen[q], published[q], groups[q], starts[q])
      BY <1>0, <2>1, OrderedTail
    <3> QED  BY <1>0, <2>2, <3>1, OrderedAfterLess
  <2>4. CASE DeliverAnswer
    BY <2>1, <2>3, <2>4 DEF DeliverAnswer
  <2>5. CASE DeliverGarbled \/ DeliverReply
    <3>1. groups'[q] \in {0, groups[q]} /\ UNCHANGED seen
      BY <2>5, CloseType DEF DeliverGarbled, DeliverReply, Listening
    <3> QED  BY <2>1, <2>3, <3>1
  <2>6. CASE DeliverEvent /\ IsEvent(Head(down), q) /\ stream[q] = "on"
    <3>1. /\ seen' = [seen EXCEPT ![q] = @ \o [k \in 1..groups[q] |-> Head(down).n]]
          /\ UNCHANGED groups
      BY <2>6 DEF DeliverEvent, IsEvent
    <3>2. seen'[q] = seen[q] \o [k \in 1..groups[q] |-> Head(down).n]
      BY <3>1 DEF TypeOK
    <3>3. Ordered(q, Tail(down), seen[q] \o [k \in 1..groups[q] |-> Head(down).n], published[q], groups[q], starts[q])
      BY <1>0, <2>1, <2>6, OrderedArrival
    <3> QED  BY <2>1, <3>1, <3>2, <3>3
  <2>7. CASE DeliverEvent /\ ~(IsEvent(Head(down), q) /\ stream[q] = "on")
    <3>1. seen'[q] = seen[q] /\ UNCHANGED groups
      BY <2>2, <2>7 DEF DeliverEvent, IsEvent, TypeOK
    <3> QED  BY <2>1, <2>3, <3>1
  <2> QED  BY <1>9, <2>4, <2>5, <2>6, <2>7 DEF Deliver
<1>10. ASSUME \/ \E c \in Calls : Execute(c)
              \/ \E r \in Streams : Leave(r)
              \/ Open \/ Write \/ UNCHANGED vars
       PROVE  UNCHANGED <<down, seen, published, groups, starts>>
  BY <1>10 DEF Execute, Leave, Open, Write, vars
<1> QED  BY <1>1, <1>3, <1>4, <1>5, <1>6, <1>7, <1>8, <1>9, <1>10 DEF Next

(* Events reach the listener in the order of the chain, once each while the   *)
(* stream was started once, through lost connections and restarts.            *)
THEOREM EventsInOrder == Spec => []EventsOnceInOrder
<1>1. TypeOK /\ Orders => EventsOnceInOrder
  BY DEF Orders, Ordered, EventsOnceInOrder
<1> QED  BY <1>1, InitType, NextType, OrdersInit, OrdersNext, PTL DEF Spec
-----------------------------------------------------------------------------
(* Agreement about the subscriptions.  For query q: u are the requests under  *)
(* way, st is the state of its stream, known are the queries that the node    *)
(* knows and d is what is on its way to the client.                           *)

Of(u, q) == {i \in DOMAIN u : u[i].id = q}

Refused(d, q) == \E i \in DOMAIN d : d[i].id = q /\ d[i].kind = "error"

Agreed(q, u, st, known, d) ==
  IF Of(u, q) # {}
  THEN \A i \in Of(u, q) : (\A j \in Of(u, q) : j <= i) => (st = "on" <=> u[i].method = "subscribe")
  ELSE IF st = "on" THEN q \in known \/ Refused(d, q) ELSE q \notin known

\* Requests t join those under way; what they say of q is what st says.
LEMMA AgreedConcat ==
  ASSUME NEW q, NEW u \in Seq(Requests), NEW t \in Seq(Requests),
         NEW st, NEW known, NEW d,
         IF \E k \in DOMAIN t : t[k].id = q
         THEN \A k \in DOMAIN t : t[k].id = q => (st = "on" <=> t[k].method = "subscribe")
         ELSE Agreed(q, u, st, known, d)
  PROVE  Agreed(q, u \o t, st, known, d)
<1> DEFINE v == u \o t
<1>1. /\ v \in Seq(Requests) /\ Len(v) = Len(u) + Len(t)
      /\ \A i \in 1..(Len(u) + Len(t)) : v[i] = IF i <= Len(u) THEN u[i] ELSE t[i - Len(u)]
  BY ConcatProperties
<1>2. /\ DOMAIN u = 1..Len(u) /\ Len(u) \in Nat /\ DOMAIN t = 1..Len(t) /\ Len(t) \in Nat
      /\ DOMAIN v = 1..(Len(u) + Len(t))
  BY <1>1, LenProperties
<1> HIDE DEF v
<1>3. \A i \in DOMAIN u : i \in DOMAIN v /\ v[i] = u[i] /\ i <= Len(u)
  BY <1>1, <1>2
<1>4. \A k \in DOMAIN t : Len(u) + k \in DOMAIN v /\ v[Len(u) + k] = t[k] /\ Len(u) + k > Len(u)
  <2> SUFFICES ASSUME NEW k \in DOMAIN t
               PROVE  Len(u) + k \in DOMAIN v /\ v[Len(u) + k] = t[k] /\ Len(u) + k > Len(u)
    OBVIOUS
  <2>1. Len(u) + k \in DOMAIN v /\ Len(u) + k > Len(u) /\ (Len(u) + k) - Len(u) = k
    BY <1>2
  <2> QED  BY <1>1, <1>2, <2>1
<1>5. \A i \in DOMAIN v : i \in DOMAIN u \/ (i - Len(u) \in DOMAIN t /\ v[i] = t[i - Len(u)] /\ i > Len(u))
  BY <1>1, <1>2
<1>6. CASE \E k \in DOMAIN t : t[k].id = q
  <2> PICK k \in DOMAIN t : t[k].id = q
    BY <1>6
  <2>1. Len(u) + k \in Of(v, q) /\ Len(u) + k > Len(u)
    BY <1>4 DEF Of
  <2>2. ASSUME NEW i \in Of(v, q), \A j \in Of(v, q) : j <= i PROVE st = "on" <=> v[i].method = "subscribe"
    <3>1. Len(u) + k <= i
      BY <2>1, <2>2
    <3>2. i \in DOMAIN v /\ i \notin DOMAIN u
      BY <1>2, <2>1, <2>2, <3>1 DEF Of
    <3>3. i - Len(u) \in DOMAIN t /\ v[i] = t[i - Len(u)] /\ v[i].id = q
      BY <1>5, <2>2, <3>2 DEF Of
    <3> QED  BY <1>6, <3>3
  <2> QED  BY <2>1, <2>2 DEF Agreed, v
<1>7. CASE ~\E k \in DOMAIN t : t[k].id = q
  <2>1. Of(v, q) = Of(u, q) /\ \A i \in Of(u, q) : v[i] = u[i]
    BY <1>3, <1>5, <1>7 DEF Of
  <2> QED  BY <1>7, <2>1 DEF Agreed, v
<1> QED  BY <1>6, <1>7

\* The request at i is handled: v is u without it.
LEMMA AgreedRemoved ==
  ASSUME NEW q, NEW u \in Seq(Requests), NEW v \in Seq(Requests), NEW i \in 1..Len(u),
         Len(v) = Len(u) - 1,
         \A j \in 1..(i - 1) : v[j] = u[j],
         \A j \in i..(Len(u) - 1) : v[j] = u[j + 1],
         \A j \in 1..(i - 1) : u[j].id # u[i].id,
         NEW st, NEW known, NEW d, Agreed(q, u, st, known, d),
         NEW known2, NEW d2,
         IF u[i].id = q
         THEN (st = "on" <=> u[i].method = "subscribe")
              => (IF st = "on" THEN q \in known2 \/ Refused(d2, q) ELSE q \notin known2)
         ELSE (q \in known2 <=> q \in known) /\ (Refused(d, q) => Refused(d2, q))
  PROVE  Agreed(q, v, st, known2, d2)
<1> DEFINE Old(j) == IF j < i THEN j ELSE j + 1
           New(j) == IF j < i THEN j ELSE j - 1
<1>1. /\ DOMAIN u = 1..Len(u) /\ Len(u) \in Nat \ {0} /\ DOMAIN v = 1..(Len(u) - 1) /\ i \in Nat \ {0}
  BY LenProperties
<1>2. ASSUME NEW j \in DOMAIN v PROVE Old(j) \in DOMAIN u /\ Old(j) # i /\ u[Old(j)] = v[j]
  <2>1. CASE j < i
    BY <1>1, <2>1
  <2>2. CASE ~(j < i)
    <3>1. j \in i..(Len(u) - 1)
      BY <1>1, <2>2
    <3> QED  BY <1>1, <2>2, <3>1
  <2> QED  BY <2>1, <2>2
<1>3. ASSUME NEW j \in DOMAIN u, j # i PROVE New(j) \in DOMAIN v /\ v[New(j)] = u[j]
  <2>1. CASE j < i
    BY <1>1, <2>1
  <2>2. CASE ~(j < i)
    <3>1. j - 1 \in i..(Len(u) - 1) /\ (j - 1) + 1 = j
      BY <1>1, <1>3, <2>2
    <3> QED  BY <1>1, <2>2, <3>1
  <2> QED  BY <2>1, <2>2
<1>4. ASSUME NEW j \in DOMAIN u, j # i, NEW k \in DOMAIN v, New(j) <= k PROVE j <= Old(k)
  BY <1>1, <1>4
<1> HIDE DEF Old, New
<1>5. \A j \in Of(v, q) : Old(j) \in Of(u, q) /\ u[Old(j)] = v[j]
  BY <1>2 DEF Of
<1>6. \A j \in Of(u, q) : j # i => New(j) \in Of(v, q)
  BY <1>3 DEF Of
<1>7. \A j \in Of(u, q) : j # i => j \in DOMAIN u /\ New(j) \in DOMAIN v
  BY <1>3 DEF Of
<1>8. CASE Of(v, q) # {}
  <2> SUFFICES ASSUME NEW k \in Of(v, q), \A j \in Of(v, q) : j <= k
               PROVE  st = "on" <=> v[k].method = "subscribe"
    BY <1>8 DEF Agreed
  <2>1. k \in DOMAIN v
    BY DEF Of
  <2>2. ASSUME NEW j \in Of(u, q) PROVE j <= Old(k)
    <3>1. CASE j # i
      BY <1>4, <1>6, <1>7, <2>1, <3>1
    <3>2. CASE j = i
      <4>1. Old(k) \in DOMAIN u /\ u[Old(k)].id = u[i].id
        BY <1>5, <2>2, <3>2 DEF Of
      <4>2. ~(Old(k) \in 1..(i - 1))
        BY <4>1
      <4> QED  BY <1>1, <3>2, <4>1, <4>2
    <3> QED  BY <3>1, <3>2
  <2>3. Old(k) \in Of(u, q) /\ u[Old(k)] = v[k]
    BY <1>5
  <2> QED  BY <2>2, <2>3 DEF Agreed
<1>9. CASE Of(v, q) = {}
  <2>1. \A j \in Of(u, q) : j = i
    BY <1>6, <1>9
  <2>2. CASE u[i].id = q
    <3>1. i \in Of(u, q) /\ \A j \in Of(u, q) : j <= i
      BY <1>1, <2>1, <2>2 DEF Of
    <3> QED  BY <1>9, <2>2, <3>1 DEF Agreed
  <2>3. CASE u[i].id # q
    <3>1. Of(u, q) = {}
      BY <2>1, <2>3 DEF Of
    <3> QED  BY <1>9, <2>3, <3>1 DEF Agreed
  <2> QED  BY <2>2, <2>3
<1> QED  BY <1>8, <1>9

\* s without its element at i.
LEMMA Without ==
  ASSUME NEW s \in Seq(Requests), NEW i \in 1..Len(s), NEW r,
         r = SubSeq(s, 1, i - 1) \o SubSeq(s, i + 1, Len(s))
  PROVE  /\ r \in Seq(Requests) /\ Len(r) = Len(s) - 1
         /\ \A j \in 1..(i - 1) : r[j] = s[j]
         /\ \A j \in i..(Len(s) - 1) : r[j] = s[j + 1]
<1> DEFINE a == SubSeq(s, 1, i - 1)
           b == SubSeq(s, i + 1, Len(s))
<1>1. Len(s) \in Nat \ {0} /\ i \in Nat \ {0} /\ \A j \in 1..Len(s) : s[j] \in Requests
  BY LenProperties, ElementOfSeq
<1>2. a \in Seq(Requests) /\ Len(a) = i - 1 /\ \A j \in 1..(i - 1) : a[j] = s[j]
  <2>1. \A j \in 1..(i - 1) : s[j] \in Requests
    BY <1>1
  <2>2. 1 \in Int /\ i - 1 \in Int
    BY <1>1
  <2>3. /\ a \in Seq(Requests) /\ Len(a) = IF 1 <= i - 1 THEN (i - 1) - 1 + 1 ELSE 0
        /\ \A j \in 1..((i - 1) - 1 + 1) : a[j] = s[1 + j - 1]
    BY <2>1, <2>2, SubSeqProperties
  <2> HIDE DEF a
  <2>4. \A j \in 1..(i - 1) : j \in 1..((i - 1) - 1 + 1) /\ 1 + j - 1 = j
    BY <1>1
  <2> QED  BY <1>1, <2>3, <2>4
<1>3. b \in Seq(Requests) /\ Len(b) = Len(s) - i /\ \A j \in 1..(Len(s) - i) : b[j] = s[i + j]
  <2>1. \A j \in (i + 1)..Len(s) : s[j] \in Requests
    BY <1>1
  <2>2. i + 1 \in Int /\ Len(s) \in Int
    BY <1>1
  <2>3. /\ b \in Seq(Requests) /\ Len(b) = IF i + 1 <= Len(s) THEN Len(s) - (i + 1) + 1 ELSE 0
        /\ \A j \in 1..(Len(s) - (i + 1) + 1) : b[j] = s[(i + 1) + j - 1]
    BY <2>1, <2>2, SubSeqProperties
  <2> HIDE DEF b
  <2>4. \A j \in 1..(Len(s) - i) : j \in 1..(Len(s) - (i + 1) + 1) /\ (i + 1) + j - 1 = i + j
    BY <1>1
  <2> QED  BY <1>1, <2>3, <2>4
<1> HIDE DEF a, b
<1>4. /\ r \in Seq(Requests) /\ Len(r) = Len(s) - 1
      /\ \A j \in 1..(Len(s) - 1) : r[j] = IF j <= i - 1 THEN a[j] ELSE b[j - (i - 1)]
  <2>1. /\ r \in Seq(Requests) /\ Len(r) = Len(a) + Len(b)
        /\ \A j \in 1..(Len(a) + Len(b)) : r[j] = IF j <= Len(a) THEN a[j] ELSE b[j - Len(a)]
    BY <1>2, <1>3, ConcatProperties DEF a, b
  <2>2. Len(a) + Len(b) = Len(s) - 1 /\ Len(a) = i - 1
    BY <1>1, <1>2, <1>3
  <2> QED  BY <2>1, <2>2
<1>5. /\ \A j \in 1..(i - 1) : r[j] = s[j]
      /\ \A j \in i..(Len(s) - 1) : r[j] = s[j + 1]
  <2>1. \A j \in 1..(i - 1) : r[j] = s[j]
    <3>1. \A j \in 1..(i - 1) : j \in 1..(Len(s) - 1) /\ j <= i - 1
      BY <1>1
    <3> QED  BY <1>2, <1>4, <3>1
  <2>2. ASSUME NEW j \in i..(Len(s) - 1) PROVE r[j] = s[j + 1]
    <3>1. j - (i - 1) \in 1..(Len(s) - i) /\ i + (j - (i - 1)) = j + 1 /\ j \in 1..(Len(s) - 1) /\ ~(j <= i - 1)
      BY <1>1
    <3>2. b[j - (i - 1)] = s[j + 1]
      BY <1>3, <3>1
    <3> QED  BY <1>4, <3>1, <3>2
  <2> QED  BY <2>1, <2>2
<1> QED  BY <1>4, <1>5

\* The requests under way when the one at i of up is handled.
LEMMA UnderWayRemoved ==
  ASSUME NEW s \in Seq(Requests), NEW t \in Seq(Requests), NEW i \in 1..Len(s), NEW r \in Seq(Requests),
         Len(r) = Len(s) - 1,
         \A j \in 1..(i - 1) : r[j] = s[j],
         \A j \in i..(Len(s) - 1) : r[j] = s[j + 1]
  PROVE  /\ i \in 1..Len(s \o t) /\ Len(r \o t) = Len(s \o t) - 1
         /\ \A j \in 1..i : (s \o t)[j] = s[j]
         /\ \A j \in 1..(i - 1) : (r \o t)[j] = (s \o t)[j]
         /\ \A j \in i..(Len(s \o t) - 1) : (r \o t)[j] = (s \o t)[j + 1]
<1>1. Len(s) \in Nat \ {0} /\ Len(t) \in Nat /\ i \in Nat \ {0}
  BY LenProperties
<1>2. /\ Len(s \o t) = Len(s) + Len(t)
      /\ \A j \in 1..(Len(s) + Len(t)) : (s \o t)[j] = IF j <= Len(s) THEN s[j] ELSE t[j - Len(s)]
  BY ConcatProperties
<1>3. /\ Len(r \o t) = (Len(s) - 1) + Len(t)
      /\ \A j \in 1..((Len(s) - 1) + Len(t)) : (r \o t)[j] = IF j <= Len(s) - 1 THEN r[j] ELSE t[j - (Len(s) - 1)]
  <2>1. /\ Len(r \o t) = Len(r) + Len(t)
        /\ \A j \in 1..(Len(r) + Len(t)) : (r \o t)[j] = IF j <= Len(r) THEN r[j] ELSE t[j - Len(r)]
    BY ConcatProperties
  <2> QED  BY <2>1
<1>4. \A j \in 1..i : (s \o t)[j] = s[j]
  BY <1>1, <1>2
<1>5. \A j \in 1..(i - 1) : (r \o t)[j] = (s \o t)[j]
  <2>1. \A j \in 1..(i - 1) : /\ j \in 1..((Len(s) - 1) + Len(t)) /\ j <= Len(s) - 1
                             /\ j \in 1..(Len(s) + Len(t)) /\ j <= Len(s)
    BY <1>1
  <2> QED  BY <1>2, <1>3, <2>1
<1>6. ASSUME NEW j \in i..(Len(s \o t) - 1) PROVE (r \o t)[j] = (s \o t)[j + 1]
  <2>0. j \in 1..((Len(s) - 1) + Len(t)) /\ j + 1 \in 1..(Len(s) + Len(t))
    BY <1>1, <1>2, <1>6
  <2>1. CASE j <= Len(s) - 1
    <3>1. j \in i..(Len(s) - 1) /\ j + 1 <= Len(s)
      BY <1>1, <1>2, <1>6, <2>1
    <3> QED  BY <1>2, <1>3, <2>0, <2>1, <3>1
  <2>2. CASE ~(j <= Len(s) - 1)
    <3>1. ~(j + 1 <= Len(s)) /\ (j + 1) - Len(s) = j - (Len(s) - 1)
      BY <1>1, <2>0, <2>2
    <3> QED  BY <1>2, <1>3, <2>0, <2>2, <3>1
  <2> QED  BY <2>1, <2>2
<1>7. i \in 1..Len(s \o t) /\ Len(r \o t) = Len(s \o t) - 1
  BY <1>1, <1>2, <1>3
<1> QED  BY <1>4, <1>5, <1>6, <1>7

(* What the client and the node think of query q agrees.                      *)
On(q) == stream[q] = "on"
AgreedNow(q) == Agreed(q, UnderWay, stream[q], subs, down)

(* As long as no connection was lost; and who listens has subscriptions that  *)
(* hear of an error.                                                          *)
Agreement ==
  /\ \A q \in Streams : On(q) => groups[q] > 0
  /\ drops = 0 /\ ~closed => \A q \in Streams : AgreedNow(q)

LEMMA RefusedAppend ==
  ASSUME NEW d \in Seq(Messages), NEW m \in Messages, NEW q
  PROVE  Refused(Append(d, m), q) <=> Refused(d, q) \/ (m.id = q /\ m.kind = "error")
<1>1. /\ Len(d) \in Nat /\ DOMAIN d = 1..Len(d) /\ DOMAIN Append(d, m) = 1..(Len(d) + 1)
      /\ \A i \in DOMAIN d : Append(d, m)[i] = d[i]
      /\ Append(d, m)[Len(d) + 1] = m
  BY DomainOfAppend
<1>2. /\ Len(d) + 1 \in DOMAIN Append(d, m)
      /\ \A i \in DOMAIN Append(d, m) : i \in DOMAIN d \/ i = Len(d) + 1
      /\ \A i \in DOMAIN d : i \in DOMAIN Append(d, m)
  BY <1>1
<1> QED  BY <1>1, <1>2 DEF Refused

LEMMA RefusedTail ==
  ASSUME NEW d \in Seq(Messages), d # <<>>, NEW q, ~(Head(d).id = q /\ Head(d).kind = "error"), Refused(d, q)
  PROVE  Refused(Tail(d), q)
<1>1. /\ Head(d) = d[1] /\ Len(d) \in Nat \ {0} /\ DOMAIN d = 1..Len(d) /\ DOMAIN Tail(d) = 1..(Len(d) - 1)
      /\ \A i \in DOMAIN Tail(d) : i + 1 \in DOMAIN d /\ Tail(d)[i] = d[i + 1]
  BY DomainOfTail
<1> PICK i \in DOMAIN d : d[i].id = q /\ d[i].kind = "error"
  BY DEF Refused
<1>2. i - 1 \in DOMAIN Tail(d) /\ (i - 1) + 1 = i
  BY <1>1
<1>3. Tail(d)[i - 1] = d[i]
  BY <1>1, <1>2
<1> QED  BY <1>2, <1>3 DEF Refused

LEMMA SendingKeepsOrder ==
  ASSUME NEW s \in Seq(Requests), NEW t \in Seq(Requests), t # <<>>
  PROVE  Append(s, Head(t)) \o Tail(t) = s \o t
<1>1. Head(t) \in Requests /\ Tail(t) \in Seq(Requests) /\ t = <<Head(t)>> \o Tail(t)
  <2>1. Head(t) \in Requests /\ Tail(t) \in Seq(Requests) /\ Len(t) \in Nat \ {0} /\ Head(t) = t[1]
        /\ Len(Tail(t)) = Len(t) - 1 /\ \A i \in 1..(Len(t) - 1) : Tail(t)[i] = t[i + 1]
    BY HeadTailProperties, EmptySeq, LenProperties
  <2> DEFINE h == Head(t)
             v == Tail(t)
             w == <<h>> \o v
  <2>2. <<h>> \in Seq(Requests) /\ Len(<<h>>) = 1 /\ <<h>>[1] = h
    BY <2>1
  <2> HIDE DEF h, v
  <2>3. /\ w \in Seq(Requests) /\ Len(w) = 1 + Len(v)
        /\ \A i \in 1..(1 + Len(v)) : w[i] = IF i <= 1 THEN <<h>>[i] ELSE v[i - 1]
    BY <2>1, <2>2, ConcatProperties DEF v
  <2>4. Len(v) = Len(t) - 1 /\ h = t[1] /\ \A i \in 1..(Len(t) - 1) : v[i] = t[i + 1]
    BY <2>1 DEF h, v
  <2> HIDE DEF w
  <2>5. Len(w) = Len(t)
    BY <2>1, <2>3, <2>4
  <2>6. ASSUME NEW i \in 1..Len(t) PROVE w[i] = t[i]
    <3>1. CASE i = 1
      BY <2>1, <2>2, <2>3, <2>4, <3>1
    <3>2. CASE i # 1
      <4>1. i - 1 \in 1..(Len(t) - 1) /\ (i - 1) + 1 = i /\ i \in 1..(1 + Len(v)) /\ ~(i <= 1)
        BY <2>1, <2>4, <3>2
      <4> QED  BY <2>3, <2>4, <4>1
    <3> QED  BY <3>1, <3>2
  <2>7. w = t
    BY <2>3, <2>5, <2>6, SeqEqual
  <2> QED  BY <2>1, <2>7 DEF h, v, w
<1>2. <<Head(t)>> \in Seq(Requests) /\ Append(s, Head(t)) = s \o <<Head(t)>>
  BY <1>1, AppendIsConcat
<1>3. (s \o <<Head(t)>>) \o Tail(t) = s \o (<<Head(t)>> \o Tail(t))
  BY <1>1, <1>2, ConcatAssociative
<1> QED  BY <1>1, <1>2, <1>3

\* What Stop adds to the queue.
LEMMA StopAdds ==
  ASSUME NEW S \in SUBSET Streams, Stop(S), ~closed
  PROVE  \E t \in Seq(Requests) :
           /\ outbox' = outbox \o t
           /\ \A k \in DOMAIN t : t[k].method = "unsubscribe" /\ t[k].id \in S
           /\ \A q \in S : \E k \in DOMAIN t : t[k].id = q
<1> PICK order \in {s \in [1..Cardinality(S) -> S] : \A q \in S : \E k \in DOMAIN s : s[k] = q} :
      outbox' = outbox \o [k \in DOMAIN order |-> Request("unsubscribe", order[k])]
  BY DEF Stop
<1> DEFINE t == [k \in DOMAIN order |-> Request("unsubscribe", order[k])]
<1>1. Cardinality(S) \in Nat
  BY FS_Subset, FS_CardinalityType, NamesAssumption DEF NamesAssumption
<1>2. t \in [1..Cardinality(S) -> Requests]
  BY DEF Request, Requests
<1>3. t \in Seq(Requests)
  <2> HIDE DEF t
  <2> QED  BY <1>1, <1>2, SeqDef
<1>4. \A k \in DOMAIN t : t[k].method = "unsubscribe" /\ t[k].id \in S
  BY DEF Request
<1>5. \A q \in S : \E k \in DOMAIN t : t[k].id = q
  BY DEF Request
<1> QED  BY <1>3, <1>4, <1>5

\* One request more under way.
LEMMA AgreedRequest ==
  ASSUME TypeOK, NEW q \in Streams, NEW r \in Requests, AgreedNow(q) \/ r.id = q,
         outbox' = Append(outbox, r), UNCHANGED <<up, down, subs>>,
         IF r.id = q THEN On(q)' <=> r.method = "subscribe" ELSE On(q)' <=> On(q)
  PROVE  AgreedNow(q)'
<1> DEFINE t == <<r>>
           st == stream'[q]
<1>1. /\ t \in Seq(Requests) /\ DOMAIN t = {1} /\ t[1] = r
      /\ up \in Seq(Requests) /\ outbox \in Seq(Requests) /\ UnderWay \in Seq(Requests)
  BY ConcatProperties DEF TypeOK, UnderWay
<1>2. outbox' = outbox \o t
  BY <1>1, AppendIsConcat
<1> HIDE DEF t
<1>3. UnderWay' = UnderWay \o t
  <2>1. up \in Seq(Requests) /\ outbox \in Seq(Requests) /\ t \in Seq(Requests)
    BY <1>1
  <2>2. up \o (outbox \o t) = (up \o outbox) \o t
    BY ONLY <2>1, ConcatAssociative
  <2> QED  BY <1>2, <2>2 DEF UnderWay
<1>4. r.id # q => Agreed(q, UnderWay, st, subs, down)
  BY DEF AgreedNow, Agreed, On
<1>5. r.id = q => (st = "on" <=> r.method = "subscribe")
  BY DEF On
<1> HIDE DEF st
<1>6. Agreed(q, UnderWay \o t, st, subs, down)
  BY <1>1, <1>4, <1>5, AgreedConcat
<1> QED  BY <1>3, <1>6 DEF AgreedNow, st

\* Streams S stop, and errors about others stay on their way.
LEMMA AgreedStop ==
  ASSUME TypeOK, NEW q \in Streams, AgreedNow(q), NEW S \in SUBSET Streams, Stop(S), ~closed,
         UNCHANGED <<up, subs>>,
         IF q \in S THEN ~On(q)' ELSE On(q)' <=> On(q),
         q \notin S /\ On(q) /\ Refused(down, q) => Refused(down', q)
  PROVE  AgreedNow(q)'
<1> PICK t \in Seq(Requests) :
           /\ outbox' = outbox \o t
           /\ \A k \in DOMAIN t : t[k].method = "unsubscribe" /\ t[k].id \in S
           /\ \A r \in S : \E k \in DOMAIN t : t[k].id = r
  BY StopAdds
<1> DEFINE st == stream'[q]
<1>1. up \in Seq(Requests) /\ outbox \in Seq(Requests) /\ UnderWay \in Seq(Requests)
  BY ConcatProperties DEF TypeOK, UnderWay
<1>2. UnderWay' = UnderWay \o t
  BY <1>1, ConcatAssociative DEF UnderWay
<1>3. q \notin S => Agreed(q, UnderWay, st, subs, down')
  BY DEF AgreedNow, Agreed, On
<1>4. q \in S <=> \E k \in DOMAIN t : t[k].id = q
  OBVIOUS
<1>5. (q \in S => st # "on") /\ \A k \in DOMAIN t : t[k].method # "subscribe"
  BY DEF On
<1> HIDE DEF st
<1>6. Agreed(q, UnderWay \o t, st, subs, down')
  BY <1>1, <1>3, <1>4, <1>5, AgreedConcat
<1> QED  BY <1>2, <1>6 DEF AgreedNow, st

\* The node handles the request at i.
LEMMA AgreedAnswer ==
  ASSUME TypeOK, NEW q \in Streams, AgreedNow(q), NEW i \in DOMAIN up, Answer(i)
  PROVE  AgreedNow(q)'
<1>1. /\ up \in Seq(Requests) /\ outbox \in Seq(Requests) /\ UnderWay \in Seq(Requests)
      /\ i \in 1..Len(up) /\ up[i] \in Requests /\ down \in Seq(Messages) /\ Len(up) \in Nat
  BY ConcatProperties, LenProperties, ElementOfSeq DEF TypeOK, UnderWay
<1>2. /\ up' \in Seq(Requests) /\ Len(up') = Len(up) - 1
      /\ \A j \in 1..(i - 1) : up'[j] = up[j]
      /\ \A j \in i..(Len(up) - 1) : up'[j] = up[j + 1]
  <2>1. up' = SubSeq(up, 1, i - 1) \o SubSeq(up, i + 1, Len(up))
    BY DEF Answer
  <2> QED  BY <1>1, <2>1, Without
<1>3. /\ i \in 1..Len(UnderWay) /\ Len(UnderWay') = Len(UnderWay) - 1
      /\ \A j \in 1..i : UnderWay[j] = up[j]
      /\ \A j \in 1..(i - 1) : UnderWay'[j] = UnderWay[j]
      /\ \A j \in i..(Len(UnderWay) - 1) : UnderWay'[j] = UnderWay[j + 1]
  <2>1. outbox' = outbox
    BY DEF Answer, socket
  <2>2. /\ i \in 1..Len(up \o outbox) /\ Len(up' \o outbox) = Len(up \o outbox) - 1
        /\ \A j \in 1..i : (up \o outbox)[j] = up[j]
        /\ \A j \in 1..(i - 1) : (up' \o outbox)[j] = (up \o outbox)[j]
        /\ \A j \in i..(Len(up \o outbox) - 1) : (up' \o outbox)[j] = (up \o outbox)[j + 1]
    BY <1>1, <1>2, UnderWayRemoved
  <2> QED  BY <2>1, <2>2 DEF UnderWay
<1>4. UnderWay' \in Seq(Requests)
  BY <1>1, <1>2, ConcatProperties DEF Answer, socket, UnderWay
<1>5. UnderWay[i] = up[i] /\ \A j \in 1..(i - 1) : UnderWay[j].id # UnderWay[i].id
  <2>1. \A j \in 1..(i - 1) : up[j].id # up[i].id
    BY DEF Answer
  <2>2. i \in 1..i /\ \A j \in 1..(i - 1) : j \in 1..i
    BY <1>1
  <2> QED  BY <1>3, <2>1, <2>2
<1> PICK kind \in {"result", "error"} :
       /\ up[i].method = "subscribe" /\ up[i].id \in subs => kind = "error"
       /\ up[i].method = "unsubscribe" => (kind = "error" <=> up[i].id \notin subs)
       /\ down' = Append(down, Message(kind, up[i].id, 0))
       /\ subs' = IF kind = "error" \/ up[i].method = "call" THEN subs
                  ELSE IF up[i].method = "subscribe" THEN subs \cup {up[i].id} ELSE subs \ {up[i].id}
  BY DEF Answer
<1>6. /\ Message(kind, up[i].id, 0) \in Messages
      /\ Refused(down', q) <=> Refused(down, q) \/ (up[i].id = q /\ kind = "error")
  <2>1. up[i].id \in Calls \cup Streams
    BY <1>1 DEF Requests
  <2>2. Message(kind, up[i].id, 0) \in Messages
    BY <2>1, MessageTypes
  <2> QED  BY <1>1, <2>2, RefusedAppend DEF Message
<1>7. up[i].id = q => up[i].method \in {"subscribe", "unsubscribe"}
  BY <1>1, NamesAssumption DEF Requests, NamesAssumption
<1>8. Agreed(q, UnderWay, stream[q], subs, down) /\ stream' = stream
  BY DEF AgreedNow, Answer, client
<1>9. up[i].id # q => (q \in subs' <=> q \in subs) /\ (Refused(down, q) => Refused(down', q))
  BY <1>6
<1>10. up[i].id = q => ((stream[q] = "on" <=> up[i].method = "subscribe")
                         => (IF stream[q] = "on" THEN q \in subs' \/ Refused(down', q) ELSE q \notin subs'))
  BY <1>6, <1>7
<1>11. Agreed(q, UnderWay', stream[q], subs', down')
  <2> DEFINE u == UnderWay
             v == UnderWay'
             known2 == subs'
             d2 == down'
             st == stream[q]
  <2>1. /\ u \in Seq(Requests) /\ v \in Seq(Requests) /\ i \in 1..Len(u)
        /\ Len(v) = Len(u) - 1
        /\ \A j \in 1..(i - 1) : v[j] = u[j]
        /\ \A j \in i..(Len(u) - 1) : v[j] = u[j + 1]
        /\ \A j \in 1..(i - 1) : u[j].id # u[i].id
    BY <1>1, <1>3, <1>4, <1>5
  <2>2. Agreed(q, u, st, subs, down)
    BY <1>8
  <2>3. IF u[i].id = q
        THEN (st = "on" <=> u[i].method = "subscribe")
             => (IF st = "on" THEN q \in known2 \/ Refused(d2, q) ELSE q \notin known2)
        ELSE (q \in known2 <=> q \in subs) /\ (Refused(down, q) => Refused(d2, q))
    BY <1>5, <1>9, <1>10
  <2> HIDE DEF u, v, known2, d2, st
  <2>4. Agreed(q, v, st, known2, d2)
    BY <2>1, <2>2, <2>3, AgreedRemoved
  <2> QED  BY <2>4 DEF v, known2, d2, st
<1> QED  BY <1>8, <1>11 DEF AgreedNow

\* Nothing about q happens: an error about it stays on its way, if it matters.
LEMMA AgreedKept ==
  ASSUME NEW q \in Streams, AgreedNow(q), UnderWay' = UnderWay, UNCHANGED <<stream, subs>>,
         On(q) /\ Refused(down, q) => Refused(down', q)
  PROVE  AgreedNow(q)'
BY DEF AgreedNow, Agreed, On

\* Who listens has subscriptions that hear of an error.
LEMMA ListenersHear ==
  ASSUME TypeOK, Agreement, [Next]_vars, NEW q \in Streams, On(q)'
  PROVE  groups'[q] > 0
<1> USE DEF client, socket, server, history, On
<1>1. groups[q] \in Nat /\ (stream[q] = "on" => groups[q] > 0)
  BY DEF TypeOK, Agreement
<1>2. CASE UNCHANGED <<stream, groups>>
  BY <1>1, <1>2
<1>3. ASSUME NEW p \in Streams, Listen(p) PROVE groups'[q] > 0
  BY <1>1, <1>3 DEF Listen, ConnectToClient, TypeOK
<1>4. ASSUME NEW p \in Streams, Leave(p) PROVE groups'[q] > 0
  BY <1>1, <1>4 DEF Leave, TypeOK
<1>5. ASSUME NEW Q \in SUBSET Streams, NEW how \in {"failed", "completed"}, CloseSubscriptions(Q, how)
      PROVE  groups'[q] > 0
  BY <1>1, <1>5 DEF CloseSubscriptions
<1>6. CASE Disconnect
  BY <1>5, <1>6 DEF Disconnect, Listening
<1>7. CASE DeliverGarbled
  BY <1>5, <1>7 DEF DeliverGarbled, Listening
<1>8. CASE DeliverReply
  <2>1. (IF Head(down).kind = "error" /\ groups[Head(down).id] > 0 THEN {Head(down).id} ELSE {}) \in SUBSET Streams
    BY <1>8 DEF DeliverReply
  <2> QED  BY <1>5, <1>8, <2>1 DEF DeliverReply
<1>9. ASSUME \/ \E c \in Calls : Execute(c)
             \/ \E p \in Streams : Publish(p)
             \/ Open \/ Write \/ Drop \/ Garble
             \/ \E i \in DOMAIN up : Answer(i)
             \/ DeliverAnswer \/ DeliverEvent \/ UNCHANGED vars
      PROVE  UNCHANGED <<stream, groups>>
  BY <1>9 DEF Execute, Publish, Open, Write, Drop, Garble, Answer, DeliverAnswer, DeliverEvent, vars
<1> QED  BY <1>2, <1>3, <1>4, <1>6, <1>7, <1>8, <1>9 DEF Next, Deliver

\* The subscriptions of Q close: those of other streams are told nothing.
LEMMA AgreedClose ==
  ASSUME TypeOK, NEW q \in Streams, AgreedNow(q), NEW Q \in SUBSET Streams, NEW how \in {"failed", "completed"},
         CloseSubscriptions(Q, how), ~closed, UNCHANGED <<up, subs>>,
         q \notin Q /\ On(q) /\ Refused(down, q) => Refused(down', q)
  PROVE  AgreedNow(q)'
<1> DEFINE S == {p \in Q : stream[p] = "on"}
<1>1. S \in SUBSET Streams /\ Stop(S)
  BY DEF CloseSubscriptions
<1>2. IF q \in S THEN ~On(q)' ELSE On(q)' <=> On(q)
  BY DEF CloseSubscriptions, On
<1>3. q \notin S /\ On(q) => q \notin Q
  BY DEF On
<1> HIDE DEF S
<1> QED  BY <1>1, <1>2, <1>3, AgreedStop

LEMMA AgreementStep == TypeOK /\ Agreement /\ [Next]_vars => Agreement'
<1> SUFFICES ASSUME TypeOK, Agreement, [Next]_vars PROVE Agreement'
  OBVIOUS
<1>1. \A q \in Streams : On(q)' => groups'[q] > 0
  BY ListenersHear
<1> SUFFICES ASSUME drops' = 0, ~closed', NEW q \in Streams PROVE AgreedNow(q)'
  BY <1>1 DEF Agreement
<1> USE DEF client, socket, server, history
<1>2. drops = 0 /\ ~closed /\ ~Drop /\ ~Disconnect
  <2>1. CASE Disconnect
    BY <2>1 DEF Disconnect
  <2>2. CASE Drop
    BY <2>2 DEF Drop, TypeOK
  <2>3. ASSUME ~Disconnect, ~Drop PROVE drops' = drops /\ closed' = closed
    <3>1. CASE (\E c \in Calls : Execute(c)) \/ Open \/ Write \/ Garble \/ UNCHANGED vars
      BY <3>1 DEF Execute, Open, Write, Garble, vars
    <3>2. CASE \E p \in Streams : Listen(p) \/ Leave(p) \/ Publish(p)
      BY <3>2 DEF Listen, Leave, Publish
    <3>3. CASE (\E i \in DOMAIN up : Answer(i)) \/ Deliver
      BY <3>3 DEF Answer, Deliver, DeliverGarbled, DeliverAnswer, DeliverReply, DeliverEvent
    <3> QED  BY <2>3, <3>1, <3>2, <3>3 DEF Next
  <2> QED  BY <2>1, <2>2, <2>3
<1>3. AgreedNow(q) /\ \A p \in Streams : On(p) => groups[p] > 0
  BY <1>2 DEF Agreement
<1>4. /\ up \in Seq(Requests) /\ outbox \in Seq(Requests) /\ down \in Seq(Messages)
      /\ stream \in [Streams -> {"off", "on", "failed", "completed"}] /\ groups \in [Streams -> Nat]
  BY DEF TypeOK
<1>5. ASSUME down # <<>>, down' = Tail(down), Refused(down, q), ~(Head(down).id = q /\ Head(down).kind = "error")
      PROVE  Refused(down', q)
  BY <1>4, <1>5, RefusedTail
<1>6. CASE UNCHANGED vars \/ Open
  <2>1. UNCHANGED <<up, outbox, down, subs, stream>>
    BY <1>6 DEF Open, vars
  <2> QED  BY <1>3, <2>1, AgreedKept DEF UnderWay
<1>7. ASSUME NEW c \in Calls, Execute(c) PROVE AgreedNow(q)'
  <2>1. /\ Request("call", c) \in Requests /\ Request("call", c).id # q
        /\ outbox' = Append(outbox, Request("call", c)) /\ UNCHANGED <<up, down, subs, stream>>
    BY <1>2, <1>7, NamesAssumption DEF Execute, Request, Requests, NamesAssumption
  <2> QED  BY <1>3, <2>1, AgreedRequest DEF On
<1>8. ASSUME NEW p \in Streams, Listen(p) PROVE AgreedNow(q)'
  <2>1. /\ Request("subscribe", p) \in Requests /\ Request("subscribe", p).id = p
        /\ Request("subscribe", p).method = "subscribe"
    BY DEF Request, Requests
  <2>2. outbox' = Append(outbox, Request("subscribe", p)) /\ UNCHANGED <<up, down, subs>>
    BY <1>2, <1>8 DEF Listen
  <2>3. IF p = q THEN On(q)' ELSE On(q)' <=> On(q)
    BY <1>4, <1>8 DEF Listen, On
  <2> QED  BY <1>3, <2>1, <2>2, <2>3, AgreedRequest
<1>9. ASSUME NEW p \in Streams, Leave(p) PROVE AgreedNow(q)'
  <2>1. /\ {p} \in SUBSET Streams /\ Stop({p}) /\ UNCHANGED <<up, subs, down>>
        /\ IF q \in {p} THEN ~On(q)' ELSE On(q)' <=> On(q)
    BY <1>4, <1>9 DEF Leave, On
  <2> QED  BY <1>2, <1>3, <2>1, AgreedStop
<1>10. CASE DeliverGarbled
  <2>1. /\ Listening \in SUBSET Streams /\ CloseSubscriptions(Listening, "failed") /\ UNCHANGED <<up, subs>>
        /\ On(q) => q \in Listening
    BY <1>3, <1>10 DEF DeliverGarbled, Listening
  <2> QED  BY <1>2, <1>3, <2>1, AgreedClose
<1>11. CASE DeliverReply
  <2> DEFINE Q == IF Head(down).kind = "error" /\ groups[Head(down).id] > 0 THEN {Head(down).id} ELSE {}
  <2>1. /\ Q \in SUBSET Streams /\ CloseSubscriptions(Q, "failed") /\ UNCHANGED <<up, subs>>
        /\ down # <<>> /\ down' = Tail(down)
    BY <1>11 DEF DeliverReply
  <2>2. On(q) /\ Head(down).id = q /\ Head(down).kind = "error" => q \in Q
    BY <1>3
  <2> HIDE DEF Q
  <2>3. q \notin Q /\ On(q) /\ Refused(down, q) => Refused(down', q)
    BY <1>5, <2>1, <2>2
  <2> QED  BY <1>2, <1>3, <2>1, <2>3, AgreedClose
<1>12. CASE DeliverAnswer \/ DeliverEvent
  <2>1. UNCHANGED <<up, outbox, subs, stream>> /\ down # <<>> /\ down' = Tail(down)
    BY <1>12 DEF DeliverAnswer, DeliverEvent
  <2>2. ~(Head(down).id = q /\ Head(down).kind = "error")
    BY <1>12, NamesAssumption DEF DeliverAnswer, DeliverEvent, NamesAssumption
  <2>3. Refused(down, q) => Refused(down', q)
    BY <1>5, <2>1, <2>2
  <2> QED  BY <1>3, <2>1, <2>3, AgreedKept DEF UnderWay
<1>13. CASE Garble \/ \E p \in Streams : Publish(p)
  <2>1. /\ UNCHANGED <<up, outbox, subs, stream>>
        /\ \E m \in Messages : down' = Append(down, m)
    <3>1. CASE Garble
      BY <3>1, MessageTypes DEF Garble
    <3>2. ASSUME NEW p \in Streams, Publish(p)
          PROVE  UNCHANGED <<up, outbox, subs, stream>> /\ \E m \in Messages : down' = Append(down, m)
      BY <3>2, MessageTypes DEF Publish, TypeOK
    <3> QED  BY <1>13, <3>1, <3>2
  <2>2. Refused(down, q) => Refused(down', q)
    BY <1>4, <2>1, RefusedAppend
  <2> QED  BY <1>3, <2>1, <2>2, AgreedKept DEF UnderWay
<1>14. CASE Write
  <2>1. /\ outbox # <<>> /\ up' = Append(up, Head(outbox)) /\ outbox' = Tail(outbox)
        /\ UNCHANGED <<down, subs, stream>>
    BY <1>14 DEF Write
  <2>2. Append(up, Head(outbox)) \o Tail(outbox) = up \o outbox
    BY <1>4, <2>1, SendingKeepsOrder
  <2>3. UnderWay' = UnderWay
    BY <2>1, <2>2 DEF UnderWay
  <2> QED  BY <1>3, <2>1, <2>3, AgreedKept
<1>15. CASE \E i \in DOMAIN up : Answer(i)
  BY <1>3, <1>15, AgreedAnswer
<1> QED  BY <1>2, <1>6, <1>7, <1>8, <1>9, <1>10, <1>11, <1>12, <1>13, <1>14, <1>15 DEF Next, Deliver

LEMMA AgreementInit == Init => Agreement
<1> SUFFICES ASSUME Init, NEW q \in Streams PROVE ~On(q) /\ AgreedNow(q)
  BY DEF Agreement
<1>1. ~On(q) /\ q \notin subs
  BY DEF Init, On
<1>2. UnderWay = <<>>
  <2>1. <<>> \in Seq(Requests) /\ Len(<<>>) = 0
    BY EmptySeq
  <2>2. <<>> \o <<>> \in Seq(Requests) /\ Len(<<>> \o <<>>) = 0
    BY <2>1, ConcatProperties
  <2>3. <<>> \o <<>> = <<>>
    BY <2>2, EmptySeq
  <2> QED  BY <2>3 DEF Init, UnderWay
<1>3. Of(UnderWay, q) = {}
  BY <1>2 DEF Of
<1> QED  BY <1>1, <1>3 DEF AgreedNow, Agreed, On

LEMMA AgreementShown == Agreement => SubscriptionsAgree
<1> SUFFICES ASSUME Agreement, drops = 0, ~closed, NEW q \in Streams
             PROVE  IF About(q) # {}
                    THEN \A i \in About(q) : (\A j \in About(q) : j <= i) =>
                           (stream[q] = "on" <=> UnderWay[i].method = "subscribe")
                    ELSE IF stream[q] = "on"
                         THEN q \in subs \/ \E i \in DOMAIN down : down[i].id = q /\ down[i].kind = "error"
                         ELSE q \notin subs
  BY DEF SubscriptionsAgree
<1>1. AgreedNow(q) /\ About(q) = Of(UnderWay, q)
  BY DEF Agreement, About, Of
<1> QED  BY <1>1 DEF AgreedNow, Agreed, Refused

\* On every connection that never was lost, the client and the node agree
\* about the subscriptions once what is under way has arrived, in whatever
\* order listeners come and go and the node answers.
THEOREM NodeAgrees == Spec => []SubscriptionsAgree
<1>1. Init => TypeOK /\ Agreement
  BY InitType, AgreementInit
<1>2. TypeOK /\ Agreement /\ [Next]_vars => (TypeOK /\ Agreement)'
  BY NextType, AgreementStep
<1>3. TypeOK /\ Agreement => SubscriptionsAgree
  BY AgreementShown
<1> QED  BY <1>1, <1>2, <1>3, PTL DEF Spec
=============================================================================

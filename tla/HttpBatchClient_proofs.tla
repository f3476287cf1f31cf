----------------------- MODULE HttpBatchClient_proofs -----------------------
(* Proofs about HttpBatchClient, for every number of calls, every limit and   *)
(* both kinds of server.                                                      *)
EXTENDS HttpBatchClient, SequenceTheorems, TLAPS

\* A tick on a queue within the limit sends all of it.
LEMMA DispatchAll ==
  ASSUME NEW q \in Seq(Calls), Len(q) <= BatchSizeLimit, Dispatch(q)
  PROVE  batches' = batches \cup {q} /\ queue' = <<>>
<1>1. SubSeq(q, 1, Len(q)) = q
  BY SubSeqFull
<1>2. SubSeq(q, Len(q) + 1, Len(q)) = <<>>
  BY SubSeqEmpty, LenProperties
<1> QED  BY <1>1, <1>2 DEF Dispatch

\* What appending a call to a queue does to its elements.
LEMMA AppendCall ==
  ASSUME NEW q \in Seq(Calls), NEW c \in Calls
  PROVE  /\ Append(q, c) \in Seq(Calls) /\ Append(q, c) # <<>>
         /\ Len(Append(q, c)) = Len(q) + 1
         /\ SeqSet(Append(q, c)) = SeqSet(q) \cup {c}
         /\ NoRepeats(q) /\ c \notin SeqSet(q) => NoRepeats(Append(q, c))
<1>1. /\ Append(q, c) \in Seq(Calls) /\ Append(q, c) # <<>>
      /\ Len(Append(q, c)) = Len(q) + 1
      /\ \A i \in 1..Len(q) : Append(q, c)[i] = q[i]
      /\ Append(q, c)[Len(q) + 1] = c
  BY AppendProperties
<1>2. /\ DOMAIN q = 1..Len(q) /\ Len(q) \in Nat
      /\ DOMAIN Append(q, c) = 1..(Len(q) + 1)
  BY <1>1, LenProperties
<1>3. SeqSet(Append(q, c)) = SeqSet(q) \cup {c}
  BY <1>1, <1>2 DEF SeqSet
<1>4. NoRepeats(q) /\ c \notin SeqSet(q) => NoRepeats(Append(q, c))
  BY <1>1, <1>2 DEF SeqSet, NoRepeats
<1> QED  BY <1>1, <1>3, <1>4

\* Calls of a sequence of calls, and the empty queue.
LEMMA SeqSetCalls == \A q \in Seq(Calls) : SeqSet(q) \subseteq Calls
BY LenProperties, ElementOfSeq DEF SeqSet

LEMMA EmptyQueue == SeqSet(<<>>) = {} /\ NoRepeats(<<>>) /\ <<>> \in Seq(Calls) /\ Len(<<>>) = 0
BY EmptySeq DEF SeqSet, NoRepeats

\* A reply or an error settles calls of the batch only.
LEMMA SettlesInBatch ==
  ASSUME NEW b \in Seq(Calls), NEW reply, NEW i, NEW c, Settles(b, reply, i, c)
  PROVE  c \in SeqSet(b)
<1>1. PICK k \in 1..Len(b) : b[k] = c
  BY DEF Settles
<1> QED  BY <1>1, LenProperties DEF SeqSet
\* The element that settles a call answers that call or none.
LEMMA ElementsMatch ==
  ASSUME NEW b \in Seq(Calls), NEW reply \in Replies(b), NEW i \in DOMAIN reply,
         NEW c \in Calls, Settles(b, reply, i, c)
  PROVE  reply[i].about \in {c, Nobody}
<1>1. reply[i] \in Elements(b)
  BY DEF Replies
<1>2. reply[i].id = idOf[c]
  BY DEF Settles, Finds
<1>3. CASE reply[i].about = Nobody
  BY <1>3
<1>4. CASE \E d \in SeqSet(b) : reply[i].id = idOf[d] /\ reply[i].about = d
  <2>1. PICK d \in SeqSet(b) : reply[i].id = idOf[d] /\ reply[i].about = d
    BY <1>4
  <2>2. d \in Calls
    BY SeqSetCalls
  <2> QED  BY <1>2, <2>1, <2>2, UniqueIds
<1>5. reply[i].about = Nobody \/ \E d \in SeqSet(b) : reply[i].id = idOf[d] /\ reply[i].about = d
  <2> DEFINE Answers(kinds) ==
        UNION {[id : {idOf[d]}, about : {d}, kind : kinds] : d \in SeqSet(b)}
      MadeUp == [id : Ids \ {idOf[d] : d \in SeqSet(b)}, about : {Nobody}, kind : Kinds]
  <2>1. reply[i] \in Answers(Kinds) \/ reply[i] \in MadeUp \/ reply[i] \in Answers({"result", "error"})
    BY <1>1 DEF Elements
  <2>2. ASSUME NEW kinds, reply[i] \in Answers(kinds)
        PROVE  \E d \in SeqSet(b) : reply[i].id = idOf[d] /\ reply[i].about = d
    <3>1. PICK d \in SeqSet(b) : reply[i] \in [id : {idOf[d]}, about : {d}, kind : kinds]
      BY <2>2
    <3> QED  BY <3>1
  <2>3. reply[i] \in MadeUp => reply[i].about = Nobody
    OBVIOUS
  <2> HIDE DEF Answers, MadeUp
  <2> QED  BY <2>1, <2>2, <2>3
<1> QED  BY <1>3, <1>4, <1>5

(* What a reply or an error may do to one call: nothing, or settle it if it   *)
(* belongs to the batch and is pending, with an answer to itself or none.     *)
SettlesOnly(b) ==
  /\ outcome' \in [Calls -> {"idle", "pending", "resolved", "rejected"}]
  /\ answerOf' \in [Calls -> Calls \cup {Nobody}]
  /\ \A c \in Calls :
       \/ outcome'[c] = outcome[c] /\ answerOf'[c] = answerOf[c]
       \/ /\ c \in SeqSet(b) /\ outcome[c] = "pending"
          /\ outcome'[c] \in {"resolved", "rejected"}
          /\ answerOf'[c] \in {c, Nobody, answerOf[c]}

LEMMA ResponseSettles ==
  ASSUME TypeOK, NEW b \in batches, Response(b)
  PROVE  SettlesOnly(b)
<1> USE DEF TypeOK
<1>1. PICK reply \in Replies(b) :
        LET settled == {c \in Calls : outcome[c] = "pending"
                                        /\ \E i \in DOMAIN reply : Settles(b, reply, i, c)}
            By(c) == reply[CHOOSE i \in DOMAIN reply : Settles(b, reply, i, c)]
        IN /\ outcome' = [c \in Calls |->
                IF c \notin settled THEN outcome[c]
                ELSE IF By(c).kind = "error" THEN "rejected" ELSE "resolved"]
           /\ answerOf' = [c \in Calls |-> IF c \in settled THEN By(c).about ELSE answerOf[c]]
  BY DEF Response
<1> DEFINE settled == {c \in Calls : outcome[c] = "pending"
                                        /\ \E i \in DOMAIN reply : Settles(b, reply, i, c)}
<1> DEFINE By(c) == reply[CHOOSE i \in DOMAIN reply : Settles(b, reply, i, c)]
<1>2. \A c \in settled : By(c).about \in {c, Nobody} /\ c \in SeqSet(b)
  <2> SUFFICES ASSUME NEW c \in settled
               PROVE  By(c).about \in {c, Nobody} /\ c \in SeqSet(b)
    OBVIOUS
  <2>1. PICK i \in DOMAIN reply : Settles(b, reply, i, c)
    OBVIOUS
  <2>2. c \in SeqSet(b)
    BY <2>1, SettlesInBatch
  <2> DEFINE n == CHOOSE j \in DOMAIN reply : Settles(b, reply, j, c)
  <2>3. n \in DOMAIN reply /\ Settles(b, reply, n, c)
    BY <2>1
  <2>4. b \in Seq(Calls) /\ c \in Calls
    OBVIOUS
  <2> HIDE DEF n
  <2>5. reply[n].about \in {c, Nobody}
    BY <2>3, <2>4, ElementsMatch
  <2> QED  BY <2>2, <2>5 DEF n
<1>3. /\ \A c \in Calls : outcome'[c] = IF c \notin settled THEN outcome[c]
                          ELSE IF By(c).kind = "error" THEN "rejected" ELSE "resolved"
      /\ \A c \in Calls : answerOf'[c] = IF c \in settled THEN By(c).about ELSE answerOf[c]
      /\ \A c \in settled : outcome[c] = "pending"
  BY <1>1
<1>4. /\ outcome' \in [Calls -> {"idle", "pending", "resolved", "rejected"}]
      /\ answerOf' = [c \in Calls |-> IF c \in settled THEN By(c).about ELSE answerOf[c]]
  BY <1>1
<1> HIDE DEF settled, By
<1>5. \A c \in Calls : answerOf'[c] \in Calls \cup {Nobody}
  BY <1>2, <1>3
<1>6. answerOf' \in [Calls -> Calls \cup {Nobody}]
  BY <1>4, <1>5
<1> QED  BY <1>2, <1>3, <1>4, <1>6 DEF SettlesOnly

LEMMA HttpErrorSettles ==
  ASSUME TypeOK, NEW b \in batches, HttpError(b)
  PROVE  SettlesOnly(b)
<1>1. \A c \in Calls : (\E k \in 1..Len(b) : b[k] = c) => c \in SeqSet(b)
  BY LenProperties DEF TypeOK, SeqSet
<1> QED  BY <1>1 DEF HttpError, SettlesOnly, TypeOK
-----------------------------------------------------------------------------
(* The inductive invariant.  QueueBelowLimit is what makes a tick empty the   *)
(* queue; PlacedOnce is what keeps batches apart, so that a reply to one      *)
(* never touches the calls of another.                                        *)
IInv == TypeOK /\ QueueBelowLimit /\ PlacedOnce

Sent == UNION {SeqSet(b) : b \in batches}

LEMMA InitInv == Init => IInv
<1> SUFFICES ASSUME Init PROVE IInv
  OBVIOUS
<1>1. TypeOK
  BY EmptyQueue DEF Init, TypeOK
<1>2. QueueBelowLimit
  BY EmptyQueue, LimitAssumption DEF Init, QueueBelowLimit
<1>3. PlacedOnce
  BY EmptyQueue DEF Init, PlacedOnce
<1> QED  BY <1>1, <1>2, <1>3 DEF IInv

\* A batch of pending calls that are nowhere else may leave for the server.
LEMMA DispatchKeepsPlaces ==
  ASSUME NEW q \in Seq(Calls), q # <<>>, Len(q) <= BatchSizeLimit, NoRepeats(q),
         Dispatch(q), PlacedOnce, SeqSet(q) \cap Sent = {},
         \A c \in SeqSet(q) \cup Sent : outcome'[c] = "pending"
  PROVE  PlacedOnce'
<1>1. batches' = batches \cup {q} /\ queue' = <<>>
  BY DispatchAll
<1>2. NoRepeats(queue') /\ SeqSet(queue') = {}
  BY <1>1, EmptyQueue
<1>3. \A b \in batches' : NoRepeats(b) /\ Len(b) <= BatchSizeLimit
  BY <1>1 DEF PlacedOnce
<1>4. \A a, b \in batches' : a # b => SeqSet(a) \cap SeqSet(b) = {}
  BY <1>1 DEF PlacedOnce, Sent
<1>5. \A b \in batches' : SeqSet(b) \subseteq SeqSet(q) \cup Sent
  BY <1>1 DEF Sent
<1> QED  BY <1>2, <1>3, <1>4, <1>5 DEF PlacedOnce

LEMMA ExecuteInv ==
  ASSUME IInv, NEW c \in Calls, Execute(c)
  PROVE  IInv'
<1> DEFINE q == Append(queue, c)
<1>1. /\ queue \in Seq(Calls) /\ Len(queue) \in Nat /\ Len(queue) < BatchSizeLimit
      /\ BatchSizeLimit \in Nat
  BY LimitAssumption, LenProperties DEF IInv, TypeOK, QueueBelowLimit
<1>2. c \notin SeqSet(queue) /\ c \notin Sent
  BY DEF Execute, IInv, PlacedOnce, Sent
<1>3. /\ q \in Seq(Calls) /\ q # <<>> /\ Len(q) = Len(queue) + 1
      /\ SeqSet(q) = SeqSet(queue) \cup {c} /\ NoRepeats(q)
  BY <1>1, <1>2, AppendCall DEF IInv, PlacedOnce
<1>4. Len(q) <= BatchSizeLimit
  BY <1>1, <1>3
<1>5. /\ outcome' \in [Calls -> {"idle", "pending", "resolved", "rejected"}]
      /\ outcome'[c] = "pending"
      /\ \A d \in Calls : d # c => outcome'[d] = outcome[d]
      /\ timer' = timer /\ answerOf' = answerOf /\ faulty' = faulty
  BY DEF Execute, IInv, TypeOK
<1>6. SeqSet(queue) \subseteq Calls /\ Sent \subseteq Calls
  BY SeqSetCalls DEF IInv, TypeOK, Sent
<1>7. \A d \in SeqSet(q) \cup Sent : outcome'[d] = "pending"
  BY <1>3, <1>5, <1>6 DEF IInv, PlacedOnce, Sent
<1>8. CASE Dispatch(q)
  <2>1. batches' = batches \cup {q} /\ queue' = <<>>
    BY <1>3, <1>4, <1>8, DispatchAll
  <2>2. TypeOK'
    BY <2>1, <1>3, <1>5, EmptyQueue DEF IInv, TypeOK
  <2>3. QueueBelowLimit'
    BY <2>1, EmptyQueue, LimitAssumption DEF QueueBelowLimit
  <2>4. SeqSet(q) \cap Sent = {}
    BY <1>2, <1>3 DEF IInv, PlacedOnce, Sent
  <2>5. PlacedOnce'
    BY <1>3, <1>4, <1>7, <1>8, <2>4, DispatchKeepsPlaces DEF IInv
  <2> QED  BY <2>2, <2>3, <2>5 DEF IInv
<1>9. CASE Len(q) < BatchSizeLimit /\ queue' = q /\ batches' = batches
  <2>1. TypeOK'
    BY <1>9, <1>3, <1>5 DEF IInv, TypeOK
  <2>2. QueueBelowLimit'
    BY <1>9 DEF QueueBelowLimit
  <2>3. PlacedOnce'
    BY <1>9, <1>2, <1>3, <1>7 DEF IInv, PlacedOnce, Sent
  <2> QED  BY <2>1, <2>2, <2>3 DEF IInv
<1> QED  BY <1>8, <1>9 DEF Execute

LEMMA TickInv ==
  ASSUME IInv, Tick
  PROVE  IInv'
<1>1. /\ queue \in Seq(Calls) /\ queue # <<>> /\ Len(queue) <= BatchSizeLimit
      /\ Dispatch(queue) /\ outcome' = outcome /\ timer' = timer /\ answerOf' = answerOf /\ faulty' = faulty
  BY LimitAssumption, LenProperties DEF IInv, TypeOK, QueueBelowLimit, Tick
<1>2. batches' = batches \cup {queue} /\ queue' = <<>>
  BY <1>1, DispatchAll
<1>3. TypeOK'
  BY <1>1, <1>2, EmptyQueue DEF IInv, TypeOK
<1>4. QueueBelowLimit'
  BY <1>2, EmptyQueue, LimitAssumption DEF QueueBelowLimit
<1>5. /\ NoRepeats(queue) /\ SeqSet(queue) \cap Sent = {}
      /\ \A d \in SeqSet(queue) \cup Sent : outcome'[d] = "pending"
  BY <1>1 DEF IInv, PlacedOnce, Sent
<1>6. PlacedOnce'
  BY <1>1, <1>5, DispatchKeepsPlaces DEF IInv
<1> QED  BY <1>3, <1>4, <1>6 DEF IInv

\* A batch that comes back leaves every other place as it was.
LEMMA AnswerInv ==
  ASSUME IInv, NEW b \in batches, SettlesOnly(b),
         batches' = batches \ {b}, queue' = queue, timer' = timer, faulty' = faulty
  PROVE  IInv'
<1>1. TypeOK'
  BY DEF IInv, TypeOK, SettlesOnly
<1>2. QueueBelowLimit'
  BY DEF IInv, QueueBelowLimit
<1>3. SeqSet(queue) \subseteq Calls /\ \A a \in batches : SeqSet(a) \subseteq Calls
  BY SeqSetCalls DEF IInv, TypeOK
<1>4. \A c \in Calls : c \notin SeqSet(b) => outcome'[c] = outcome[c]
  BY DEF SettlesOnly
<1>5. \A c \in SeqSet(queue) : outcome'[c] = "pending"
  BY <1>3, <1>4 DEF IInv, PlacedOnce
<1>6. \A a \in batches' : \A c \in SeqSet(a) : outcome'[c] = "pending"
  BY <1>3, <1>4 DEF IInv, PlacedOnce
<1>7. PlacedOnce'
  BY <1>5, <1>6 DEF IInv, PlacedOnce
<1> QED  BY <1>1, <1>2, <1>7 DEF IInv

LEMMA StepInv == IInv /\ [Next]_vars => IInv'
<1> SUFFICES ASSUME IInv, [Next]_vars PROVE IInv'
  OBVIOUS
<1>1. CASE \E c \in Calls : Execute(c)
  BY <1>1, ExecuteInv
<1>2. CASE Tick
  BY <1>2, TickInv
<1>3. CASE Disconnect
  BY <1>3 DEF Disconnect, IInv, TypeOK, QueueBelowLimit, PlacedOnce
<1>4. CASE \E b \in batches : Response(b) \/ HttpError(b)
  <2>1. PICK b \in batches : Response(b) \/ HttpError(b)
    BY <1>4
  <2>2. SettlesOnly(b)
    BY <2>1, ResponseSettles, HttpErrorSettles DEF IInv
  <2>3. batches' = batches \ {b} /\ queue' = queue /\ timer' = timer /\ faulty' = faulty
    BY <2>1 DEF Response, HttpError
  <2> QED  BY <2>2, <2>3, AnswerInv
<1>5. CASE UNCHANGED vars
  BY <1>5 DEF vars, IInv, TypeOK, QueueBelowLimit, PlacedOnce
<1> QED  BY <1>1, <1>2, <1>3, <1>4, <1>5 DEF Next

LEMMA Invariance == Spec => []IInv
BY InitInv, StepInv, PTL DEF Spec

(* Every state of every behaviour is well typed.                              *)
THEOREM TypeCorrect == Spec => []TypeOK
<1>1. IInv => TypeOK
  BY DEF IInv
<1> QED  BY <1>1, Invariance, PTL

(* The queue holds less than a batch between two handlers, whatever the limit *)
(* and however often execute() and the interval interleave.                   *)
THEOREM QueueStaysBelowLimit == Spec => []QueueBelowLimit
<1>1. IInv => QueueBelowLimit
  BY DEF IInv
<1> QED  BY <1>1, Invariance, PTL

(* Every call is sent at most once and waits in one place only.               *)
THEOREM SentOnce == Spec => []PlacedOnce
<1>1. IInv => PlacedOnce
  BY DEF IInv
<1> QED  BY <1>1, Invariance, PTL
-----------------------------------------------------------------------------
(* No promise ever settles with the answer to another call, whatever an       *)
(* unreliable server puts into its replies.                                   *)
THEOREM AnswersAlwaysMatch == Spec => []AnswersMatch
<1>1. Init => AnswersMatch
  BY DEF Init, AnswersMatch
<1>2. IInv /\ AnswersMatch /\ [Next]_vars => AnswersMatch'
  <2> SUFFICES ASSUME IInv, AnswersMatch, [Next]_vars PROVE AnswersMatch'
    OBVIOUS
  <2>1. CASE \E b \in batches : Response(b) \/ HttpError(b)
    <3>1. PICK b \in batches : SettlesOnly(b)
      BY <2>1, ResponseSettles, HttpErrorSettles DEF IInv
    <3> QED  BY <3>1 DEF SettlesOnly, AnswersMatch
  <2>2. CASE answerOf' = answerOf
    BY <2>2 DEF AnswersMatch
  <2> QED  BY <2>1, <2>2 DEF Next, Execute, Tick, Disconnect, vars
<1> QED  BY <1>1, <1>2, Invariance, PTL DEF Spec

(* The batching client is a correct RPC client: each step issues one call,    *)
(* settles pending calls with their own answers, or changes nothing that the  *)
(* callers of execute() can see.                                              *)
THEOREM Refinement == Spec => ImplementsRpcCalls
<1>1. Init => Abstract!Init
  BY DEF Init, Abstract!Init
<1>2. IInv /\ AnswersMatch /\ [Next]_vars => [Abstract!Next]_(Abstract!vars)
  <2> SUFFICES ASSUME IInv, AnswersMatch, [Next]_vars
               PROVE  Abstract!Next \/ UNCHANGED Abstract!vars
    OBVIOUS
  <2>1. CASE \E c \in Calls : Execute(c)
    BY <2>1 DEF Execute, Abstract!Next, Abstract!Issue
  <2>2. CASE Tick \/ Disconnect \/ UNCHANGED vars
    BY <2>2 DEF Tick, Disconnect, vars, Abstract!vars
  <2>3. CASE \E b \in batches : Response(b) \/ HttpError(b)
    <3>1. PICK b \in batches : SettlesOnly(b)
      BY <2>3, ResponseSettles, HttpErrorSettles DEF IInv
    <3>2. Abstract!Settle
      BY <3>1 DEF SettlesOnly, AnswersMatch, Abstract!Settle, Abstract!Settled
    <3> QED  BY <3>2 DEF Abstract!Next
  <2> QED  BY <2>1, <2>2, <2>3 DEF Next
<1> QED  BY <1>1, <1>2, Invariance, AnswersAlwaysMatch, PTL DEF Spec, ImplementsRpcCalls, Abstract!Spec
-----------------------------------------------------------------------------
\* In a batch without repeats, find() returns the call that carries the id.
LEMMA FindsItself ==
  ASSUME NEW b \in Seq(Calls), NoRepeats(b), NEW c \in SeqSet(b)
  PROVE  \E k \in 1..Len(b) : b[k] = c /\ Finds(b, idOf[c], k)
<1>1. DOMAIN b = 1..Len(b) /\ Len(b) \in Nat /\ \A j \in 1..Len(b) : b[j] \in Calls
  BY LenProperties, ElementOfSeq
<1>2. PICK k \in 1..Len(b) : b[k] = c
  BY <1>1 DEF SeqSet
<1>3. \A j \in 1..(k - 1) : idOf[b[j]] # idOf[c]
  <2> SUFFICES ASSUME NEW j \in 1..(k - 1), idOf[b[j]] = idOf[c] PROVE FALSE
    OBVIOUS
  <2>1. j \in 1..Len(b) /\ j # k
    BY <1>1
  <2>2. b[j] = b[k]
    BY <2>1, <1>1, <1>2, UniqueIds
  <2> QED  BY <2>1, <2>2, <1>1 DEF NoRepeats
<1> QED  BY <1>2, <1>3 DEF Finds

\* The reply of a server that answers everything settles the whole batch.
LEMMA HonestReplySettles ==
  ASSUME IInv, ~faulty, NEW b \in batches, NEW reply \in Replies(b), NEW c \in SeqSet(b)
  PROVE  \E i \in DOMAIN reply : Settles(b, reply, i, c)
<1>1. b \in Seq(Calls) /\ NoRepeats(b) /\ c \in Calls
  BY SeqSetCalls DEF IInv, TypeOK, PlacedOnce
<1>2. reply \in [1..Len(b) -> Elements(b)] /\ DOMAIN reply = 1..Len(b) /\ Len(b) \in Nat
  BY <1>1, LenProperties DEF Replies
<1>3. PICK i \in 1..Len(b) : \A j \in 1..Len(b) : reply[j].about = c <=> j = i
  BY DEF Replies
<1>4. \A j \in 1..Len(b) : \E d \in SeqSet(b) :
        reply[j].id = idOf[d] /\ reply[j].about = d /\ reply[j].kind # "garbled"
  <2> SUFFICES ASSUME NEW j \in 1..Len(b)
               PROVE  \E d \in SeqSet(b) : reply[j].id = idOf[d] /\ reply[j].about = d
                                            /\ reply[j].kind # "garbled"
    OBVIOUS
  <2>1. reply[j] \in Elements(b)
    BY <1>2
  <2>2. reply[j] \in UNION {[id : {idOf[d]}, about : {d}, kind : {"result", "error"}] : d \in SeqSet(b)}
    BY <2>1 DEF Elements
  <2>3. PICK d \in SeqSet(b) : reply[j] \in [id : {idOf[d]}, about : {d}, kind : {"result", "error"}]
    BY <2>2
  <2> QED  BY <2>3
<1>5. PICK k \in 1..Len(b) : b[k] = c /\ Finds(b, idOf[c], k)
  BY <1>1, FindsItself
<1>6. reply[i].id = idOf[c]
  BY <1>3, <1>4
<1>7. \A m \in 1..Len(b) : Reached(b, reply, m)
  BY <1>2, <1>4 DEF Reached
<1>8. ASSUME NEW j \in 1..(i - 1), NEW l \in 1..Len(b), b[l] = c, Finds(b, reply[j].id, l)
      PROVE  FALSE
  <2>1. j \in 1..Len(b) /\ j # i
    BY <1>2
  <2>2. PICK d \in SeqSet(b) : reply[j].id = idOf[d] /\ reply[j].about = d
    BY <1>4, <2>1
  <2>3. idOf[c] = idOf[d] /\ d \in Calls
    BY <1>1, <1>8, <2>2, SeqSetCalls DEF Finds
  <2>4. reply[j].about = c
    BY <1>1, <2>2, <2>3, UniqueIds
  <2> QED  BY <1>3, <2>1, <2>4
<1>9. Settles(b, reply, i, c)
  BY <1>2, <1>5, <1>6, <1>7, <1>8 DEF Settles
<1> QED  BY <1>2, <1>9

LEMMA HonestAnswerSettles ==
  ASSUME IInv, ~faulty, NEW b \in batches, Response(b) \/ HttpError(b), NEW c \in SeqSet(b)
  PROVE  outcome'[c] # "pending"
<1>1. b \in Seq(Calls) /\ NoRepeats(b) /\ c \in Calls /\ outcome[c] = "pending"
  BY SeqSetCalls DEF IInv, TypeOK, PlacedOnce
<1>2. CASE Response(b)
  <2>1. PICK reply \in Replies(b) :
          \A d \in Calls : outcome[d] = "pending" /\ (\E i \in DOMAIN reply : Settles(b, reply, i, d))
            => outcome'[d] \in {"resolved", "rejected"}
    BY <1>2 DEF Response
  <2>2. \E i \in DOMAIN reply : Settles(b, reply, i, c)
    BY HonestReplySettles
  <2> QED  BY <1>1, <2>1, <2>2
<1>3. CASE HttpError(b)
  <2>1. \E k \in 1..Len(b) : b[k] = c /\ Finds(b, idOf[c], k)
    BY <1>1, FindsItself
  <2> QED  BY <1>1, <1>3, <2>1 DEF HttpError
<1> QED  BY <1>2, <1>3

(* With a server that answers every element, no promise is left behind.       *)
THEOREM NothingStranded == Spec => []NoneStranded
<1>1. Init => NoneStranded
  BY DEF Init, NoneStranded
<1>2. IInv /\ NoneStranded /\ [Next]_vars => NoneStranded'
  <2>0. [Next]_vars => faulty' = faulty
    BY DEF Next, Execute, Tick, Disconnect, Response, HttpError, vars
  <2> SUFFICES ASSUME IInv, NoneStranded, [Next]_vars, ~faulty,
                      NEW c \in Calls, outcome'[c] = "pending"
               PROVE  c \in SeqSet(queue') \cup UNION {SeqSet(b) : b \in batches'}
    BY <2>0 DEF NoneStranded
  <2>1. ASSUME NEW d \in Calls, Execute(d)
        PROVE  c \in SeqSet(queue') \cup UNION {SeqSet(b) : b \in batches'}
    <3> DEFINE q == Append(queue, d)
    <3>1. /\ q \in Seq(Calls) /\ Len(q) = Len(queue) + 1 /\ SeqSet(q) = SeqSet(queue) \cup {d}
      BY AppendCall DEF IInv, TypeOK
    <3>2. Len(q) <= BatchSizeLimit
      BY <3>1, LimitAssumption, LenProperties DEF IInv, TypeOK, QueueBelowLimit
    <3>3. c \in SeqSet(q) \cup UNION {SeqSet(b) : b \in batches}
      BY <2>1, <3>1 DEF NoneStranded, Execute, IInv, TypeOK
    <3>4. CASE Dispatch(q)
      <4>1. batches' = batches \cup {q}
        BY <3>1, <3>2, <3>4, DispatchAll
      <4> QED  BY <3>3, <4>1
    <3>5. CASE queue' = q /\ batches' = batches
      BY <3>3, <3>5
    <3> QED  BY <2>1, <3>4, <3>5 DEF Execute
  <2>2. CASE Tick
    <3>1. /\ queue \in Seq(Calls) /\ Len(queue) <= BatchSizeLimit
          /\ Dispatch(queue) /\ outcome' = outcome
      BY <2>2, LimitAssumption, LenProperties DEF IInv, TypeOK, QueueBelowLimit, Tick
    <3>2. batches' = batches \cup {queue}
      BY <3>1, DispatchAll
    <3> QED  BY <3>1, <3>2 DEF NoneStranded
  <2>3. ASSUME NEW b \in batches, Response(b) \/ HttpError(b)
        PROVE  c \in SeqSet(queue') \cup UNION {SeqSet(a) : a \in batches'}
    <3>1. SettlesOnly(b) /\ queue' = queue /\ batches' = batches \ {b}
      BY <2>3, ResponseSettles, HttpErrorSettles DEF IInv, Response, HttpError
    <3>2. c \notin SeqSet(b)
      BY <2>3, HonestAnswerSettles
    <3>3. outcome[c] = "pending"
      BY <3>1 DEF SettlesOnly
    <3> QED  BY <3>1, <3>2, <3>3 DEF NoneStranded
  <2>4. CASE Disconnect \/ UNCHANGED vars
    BY <2>4 DEF Disconnect, vars, NoneStranded
  <2> QED  BY <2>1, <2>2, <2>3, <2>4 DEF Next
<1> QED  BY <1>1, <1>2, Invariance, PTL DEF Spec
=============================================================================

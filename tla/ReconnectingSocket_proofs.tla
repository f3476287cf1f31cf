---------------------- MODULE ReconnectingSocket_proofs ----------------------
(* Proofs about ReconnectingSocket, for any number of requests, faults,       *)
(* sockets and calls of disconnect().                                         *)
EXTENDS ReconnectingSocket, SequenceTheorems, TLAPS

Wrappers == WrapperType(Requests)
-----------------------------------------------------------------------------
(* Wrappers: which calls and events leave the outstanding sends alone.        *)

\* w with new values that are not about outstanding sends.
Alike(w, x) == x \in Wrappers /\ x.writes = w.writes

LEMMA WrapperSteps ==
  ASSUME NEW w \in Wrappers
  PROVE  /\ Alike(w, WrapperConnect(w)) /\ Alike(w, OnOpen(w)) /\ Alike(w, OnError(w))
         /\ Alike(w, OnClose(w)) /\ Alike(w, OnTimeout(w)) /\ Alike(w, WrapperDisconnect(w))
         /\ \A n \in ReadyState : Alike(w, [w EXCEPT !.native = n])
<1> USE DEF Alike, Wrappers, WrapperType, ReadyState
<1>1. Alike(w, WrapperConnect(w)) /\ Alike(w, OnOpen(w))
  BY DEF WrapperConnect, OnOpen
<1>2. Alike(w, OnError(w)) /\ Alike(w, OnClose(w)) /\ Alike(w, OnTimeout(w))
  BY DEF OnError, OnClose, OnTimeout
<1>3. Alike(w, WrapperDisconnect(w)) /\ \A n \in ReadyState : Alike(w, [w EXCEPT !.native = n])
  BY DEF WrapperDisconnect
<1> QED  BY <1>1, <1>2, <1>3

LEMMA NewWrapperType ==
  /\ NewWrapper \in Wrappers /\ NewWrapper.writes = <<>>
  /\ WrapperConnect(NewWrapper) \in Wrappers /\ WrapperConnect(NewWrapper).writes = <<>>
<1>1. <<>> \in Seq(Requests)
  BY EmptySeq
<1> QED  BY <1>1 DEF NewWrapper, WrapperConnect, Wrappers, WrapperType, ReadyState

LEMMA Sends ==
  ASSUME NEW w \in Wrappers, NEW r \in Requests
  PROVE  /\ WrapperSend(w, r) \in Wrappers /\ WrapperSend(w, r).writes = Append(w.writes, r)
         /\ w.writes # <<>> => SendCallback(w) \in Wrappers /\ SendCallback(w).writes = Tail(w.writes)
<1>1. w.writes \in Seq(Requests)
  BY DEF Wrappers, WrapperType
<1>2. Append(w.writes, r) \in Seq(Requests)
  BY <1>1, AppendProperties
<1>3. w.writes # <<>> => Tail(w.writes) \in Seq(Requests)
  BY <1>1, HeadTailProperties
<1> QED  BY <1>2, <1>3 DEF WrapperSend, SendCallback, Wrappers, WrapperType
-----------------------------------------------------------------------------
(* Sequences without repetition.                                              *)

LEMMA AppendOnce ==
  ASSUME NEW S, NEW s \in Seq(S), NEW r \in S
  PROVE  /\ Append(s, r) \in Seq(S) /\ SeqSet(Append(s, r)) = SeqSet(s) \cup {r}
         /\ NoRepeats(s) /\ r \notin SeqSet(s) => NoRepeats(Append(s, r))
<1>1. /\ Append(s, r) \in Seq(S) /\ Len(Append(s, r)) = Len(s) + 1
      /\ \A i \in 1..Len(s) : Append(s, r)[i] = s[i]
      /\ Append(s, r)[Len(s) + 1] = r
  BY AppendProperties
<1>2. /\ DOMAIN s = 1..Len(s) /\ Len(s) \in Nat
      /\ DOMAIN Append(s, r) = 1..(Len(s) + 1)
  BY <1>1, LenProperties
<1>3. SeqSet(Append(s, r)) = SeqSet(s) \cup {r}
  BY <1>1, <1>2 DEF SeqSet
<1> QED  BY <1>1, <1>2, <1>3 DEF SeqSet, NoRepeats

LEMMA TailOnce ==
  ASSUME NEW S, NEW s \in Seq(S), s # <<>>
  PROVE  /\ Tail(s) \in Seq(S) /\ Head(s) \in S /\ Head(s) \in SeqSet(s)
         /\ SeqSet(s) = SeqSet(Tail(s)) \cup {Head(s)}
         /\ NoRepeats(s) => NoRepeats(Tail(s)) /\ Head(s) \notin SeqSet(Tail(s))
<1>1. /\ Tail(s) \in Seq(S) /\ Len(Tail(s)) = Len(s) - 1 /\ Head(s) \in S /\ Head(s) = s[1]
      /\ \A i \in 1..Len(Tail(s)) : Tail(s)[i] = s[i + 1]
  BY HeadTailProperties
<1>2. /\ DOMAIN s = 1..Len(s) /\ Len(s) \in Nat \ {0}
      /\ DOMAIN Tail(s) = 1..(Len(s) - 1)
  BY <1>1, LenProperties, EmptySeq
<1>3. SeqSet(s) \subseteq SeqSet(Tail(s)) \cup {Head(s)}
  <2> SUFFICES ASSUME NEW i \in 1..Len(s), i # 1 PROVE s[i] \in SeqSet(Tail(s))
    BY <1>1, <1>2 DEF SeqSet
  <2>1. i - 1 \in 1..(Len(s) - 1) /\ (i - 1) + 1 = i
    BY <1>2
  <2>2. Tail(s)[i - 1] = s[i]
    BY <1>1, <1>2, <2>1
  <2> QED  BY <1>2, <2>1, <2>2 DEF SeqSet
<1>4. \A i \in DOMAIN Tail(s) : i + 1 \in DOMAIN s /\ i + 1 # 1 /\ Tail(s)[i] = s[i + 1]
  BY <1>1, <1>2
<1>5. SeqSet(Tail(s)) \cup {Head(s)} \subseteq SeqSet(s) /\ 1 \in DOMAIN s
  BY <1>1, <1>2, <1>4 DEF SeqSet
<1>6. ASSUME NoRepeats(s), NEW i \in DOMAIN Tail(s), NEW j \in DOMAIN Tail(s), Tail(s)[i] = Tail(s)[j]
      PROVE  i = j
  <2>1. i + 1 = j + 1
    BY <1>4, <1>6 DEF NoRepeats
  <2> QED  BY <1>2, <2>1
<1>7. NoRepeats(s) => Head(s) \notin SeqSet(Tail(s))
  BY <1>1, <1>4, <1>5 DEF NoRepeats, SeqSet
<1> QED  BY <1>1, <1>3, <1>5, <1>6, <1>7 DEF NoRepeats, SeqSet

LEMMA ConsOnce ==
  ASSUME NEW S, NEW s \in Seq(S), NEW r \in S
  PROVE  /\ <<r>> \o s \in Seq(S) /\ SeqSet(<<r>> \o s) = SeqSet(s) \cup {r}
         /\ NoRepeats(s) /\ r \notin SeqSet(s) => NoRepeats(<<r>> \o s)
<1> DEFINE t == <<r>> \o s
<1>1. <<r>> \in Seq(S) /\ Len(<<r>>) = 1 /\ <<r>>[1] = r
  OBVIOUS
<1>2. /\ t \in Seq(S) /\ Len(t) = 1 + Len(s) /\ Len(s) \in Nat
      /\ \A i \in 1..(1 + Len(s)) : t[i] = IF i <= 1 THEN <<r>>[i] ELSE s[i - 1]
  BY <1>1, ConcatProperties, LenProperties
<1>3. /\ DOMAIN s = 1..Len(s) /\ DOMAIN t = 1..(Len(s) + 1)
  BY <1>2, LenProperties
<1>4. t[1] = r /\ 1 \in DOMAIN t
  BY <1>1, <1>2, <1>3
<1>5. \A i \in DOMAIN t : i # 1 => i - 1 \in DOMAIN s /\ t[i] = s[i - 1]
  BY <1>2, <1>3
<1>6. \A i \in DOMAIN s : i + 1 \in DOMAIN t /\ t[i + 1] = s[i]
  BY <1>2, <1>3
<1> HIDE DEF t
<1>7. SeqSet(t) = SeqSet(s) \cup {r}
  BY <1>4, <1>5, <1>6 DEF SeqSet
<1>8. ASSUME NoRepeats(s), r \notin SeqSet(s), NEW i \in DOMAIN t, NEW j \in DOMAIN t, t[i] = t[j]
      PROVE  i = j
  <2>1. CASE i = 1 \/ j = 1
    BY <1>4, <1>5, <1>8, <2>1 DEF SeqSet
  <2>2. CASE i # 1 /\ j # 1
    <3>1. i - 1 = j - 1
      BY <1>5, <1>8, <2>2 DEF NoRepeats
    <3> QED  BY <1>2, <1>3, <3>1
  <2> QED  BY <2>1, <2>2
<1>9. NoRepeats(s) /\ r \notin SeqSet(s) => NoRepeats(t)
  BY <1>8 DEF NoRepeats
<1> QED  BY <1>2, <1>7, <1>9 DEF t
-----------------------------------------------------------------------------
(* The places of a request: the queue q, an outstanding send of one of the    *)
(* sockets ss, or the sequence w of those written.                            *)

Sent(ss, k) == SeqSet(ss[k].writes)

(* Each of the requests 1..n is in exactly one place, once: the pointwise     *)
(* form of RequestsConserved, for any values of its variables.                *)
Conserved(ss, q, w, n) ==
  /\ NoRepeats(q) /\ NoRepeats(w) /\ \A k \in 1..Len(ss) : NoRepeats(ss[k].writes)
  /\ \A j, k \in 1..Len(ss) : \A r \in Requests : r \in Sent(ss, j) /\ r \in Sent(ss, k) => j = k
  /\ \A r \in Requests :
       /\ r \in SeqSet(q) => r \notin SeqSet(w)
       /\ \A k \in 1..Len(ss) : r \in Sent(ss, k) => r \notin SeqSet(q) /\ r \notin SeqSet(w)
       /\ r \in 1..n <=> (r \in SeqSet(q) \/ r \in SeqSet(w) \/ \E k \in 1..Len(ss) : r \in Sent(ss, k))

Typed(ss, q, w, n) ==
  /\ ss \in Seq(Wrappers) /\ ss # <<>>
  /\ q \in Seq(Requests) /\ w \in Seq(Requests) /\ n \in 0..MaxRequests

Good(ss, q, w, n) == Typed(ss, q, w, n) /\ Conserved(ss, q, w, n)

LEMMA Places ==
  ASSUME NEW ss, NEW q, NEW w, NEW n, Typed(ss, q, w, n)
  PROVE  /\ SeqSet(q) \subseteq Requests /\ SeqSet(w) \subseteq Requests
         /\ Len(ss) \in Nat \ {0} /\ Len(ss) \in 1..Len(ss)
         /\ \A k \in 1..Len(ss) :
              ss[k] \in Wrappers /\ ss[k].writes \in Seq(Requests) /\ Sent(ss, k) \subseteq Requests
<1>1. /\ DOMAIN q = 1..Len(q) /\ q \in [1..Len(q) -> Requests]
      /\ DOMAIN w = 1..Len(w) /\ w \in [1..Len(w) -> Requests]
  BY LenProperties DEF Typed
<1>2. Len(ss) \in Nat \ {0} /\ Len(ss) \in 1..Len(ss)
  BY EmptySeq DEF Typed
<1>3. ASSUME NEW k \in 1..Len(ss)
      PROVE  ss[k] \in Wrappers /\ ss[k].writes \in Seq(Requests) /\ Sent(ss, k) \subseteq Requests
  <2>1. ss[k] \in Wrappers
    BY ElementOfSeq DEF Typed
  <2>2. ss[k].writes \in Seq(Requests)
    BY <2>1 DEF Wrappers, WrapperType
  <2>3. DOMAIN ss[k].writes = 1..Len(ss[k].writes) /\ ss[k].writes \in [1..Len(ss[k].writes) -> Requests]
    BY <2>2, LenProperties
  <2> QED  BY <2>1, <2>2, <2>3 DEF Sent, SeqSet
<1> QED  BY <1>1, <1>2, <1>3 DEF SeqSet

\* A socket changes, and its outstanding sends do not.
LEMMA Quiet ==
  ASSUME NEW ss, NEW q, NEW w, NEW n, Good(ss, q, w, n),
         NEW k \in 1..Len(ss), NEW x, Alike(ss[k], x)
  PROVE  /\ Good([ss EXCEPT ![k] = x], q, w, n)
         /\ Len([ss EXCEPT ![k] = x]) = Len(ss)
         /\ [ss EXCEPT ![k] = x][k] = x
<1> DEFINE t == [ss EXCEPT ![k] = x]
<1>1. /\ t \in Seq(Wrappers) /\ Len(t) = Len(ss)
      /\ \A j \in 1..Len(ss) : t[j] = IF j = k THEN x ELSE ss[j]
  BY ExceptSeq DEF Good, Typed, Alike
<1>2. t # <<>>
  BY <1>1, EmptySeq, Places DEF Good
<1> HIDE DEF t
<1>3. \A j \in 1..Len(ss) : t[j].writes = ss[j].writes
  BY <1>1 DEF Alike
<1>4. Conserved(t, q, w, n)
  BY <1>1, <1>3 DEF Good, Conserved, Sent
<1> QED  BY <1>1, <1>2, <1>4 DEF Good, Typed, t

\* A new socket.
LEMMA AddSocket ==
  ASSUME NEW ss, NEW q, NEW w, NEW n, Good(ss, q, w, n),
         NEW x \in Wrappers, x.writes = <<>>
  PROVE  Good(Append(ss, x), q, w, n)
<1> DEFINE t == Append(ss, x)
<1>1. /\ t \in Seq(Wrappers) /\ Len(t) = Len(ss) + 1 /\ t[Len(ss) + 1] = x
      /\ \A j \in 1..Len(ss) : t[j] = ss[j]
  BY AppendProperties DEF Good, Typed
<1>2. t # <<>> /\ Len(ss) \in Nat
  BY <1>1, EmptySeq, Places DEF Good
<1> HIDE DEF t
<1>3. Sent(t, Len(ss) + 1) = {} /\ NoRepeats(t[Len(ss) + 1].writes)
  BY <1>1 DEF Sent, SeqSet, NoRepeats
<1>4. \A j \in 1..Len(t) : j # Len(ss) + 1 => j \in 1..Len(ss) /\ Sent(t, j) = Sent(ss, j) /\ t[j] = ss[j]
  BY <1>1, <1>2 DEF Sent
<1>5. \A j \in 1..Len(ss) : j \in 1..Len(t) /\ Sent(t, j) = Sent(ss, j)
  BY <1>1, <1>2 DEF Sent
<1>6. Conserved(t, q, w, n)
  BY <1>3, <1>4, <1>5 DEF Good, Conserved
<1> QED  BY <1>1, <1>2, <1>6 DEF Good, Typed, t

\* The head of the queue is sent on socket k.
LEMMA SendHead ==
  ASSUME NEW ss, NEW q, NEW w, NEW n, Good(ss, q, w, n), q # <<>>, NEW k \in 1..Len(ss)
  PROVE  Good([ss EXCEPT ![k] = WrapperSend(@, Head(q))], Tail(q), w, n)
<1> DEFINE x == WrapperSend(ss[k], Head(q))
           t == [ss EXCEPT ![k] = x]
<1>0. Typed(ss, q, w, n) /\ ss[k] \in Wrappers /\ ss[k].writes \in Seq(Requests)
  BY Places DEF Good
<1>1. /\ Tail(q) \in Seq(Requests) /\ Head(q) \in Requests /\ Head(q) \in SeqSet(q)
      /\ SeqSet(q) = SeqSet(Tail(q)) \cup {Head(q)}
      /\ NoRepeats(q) => NoRepeats(Tail(q)) /\ Head(q) \notin SeqSet(Tail(q))
  BY <1>0, TailOnce DEF Typed
<1>2. x \in Wrappers /\ x.writes = Append(ss[k].writes, Head(q))
  BY <1>0, <1>1, Sends
<1> HIDE DEF x
<1>3. /\ SeqSet(x.writes) = Sent(ss, k) \cup {Head(q)}
      /\ NoRepeats(ss[k].writes) /\ Head(q) \notin Sent(ss, k) => NoRepeats(x.writes)
  BY <1>0, <1>1, <1>2, AppendOnce DEF Sent
<1>4. /\ t \in Seq(Wrappers) /\ Len(t) = Len(ss)
      /\ \A j \in 1..Len(ss) : t[j] = IF j = k THEN x ELSE ss[j]
  BY <1>0, <1>2, ExceptSeq DEF Typed
<1>5. t # <<>>
  BY <1>0, <1>4, EmptySeq, Places
<1> HIDE DEF t
<1>6. Sent(t, k) = Sent(ss, k) \cup {Head(q)} /\ \A j \in 1..Len(ss) : j # k => Sent(t, j) = Sent(ss, j)
  BY <1>3, <1>4 DEF Sent
<1>7. Conserved(t, Tail(q), w, n)
  BY <1>1, <1>3, <1>4, <1>6 DEF Good, Conserved
<1> QED  BY <1>0, <1>1, <1>4, <1>5, <1>7 DEF Good, Typed, t, x

\* The oldest outstanding send of socket k is over: its request is written.
LEMMA SendEndsWritten ==
  ASSUME NEW ss, NEW q, NEW w, NEW n, Good(ss, q, w, n), NEW k \in 1..Len(ss), ss[k].writes # <<>>
  PROVE  /\ Good([ss EXCEPT ![k] = SendCallback(@)], q, Append(w, Head(ss[k].writes)), n)
         /\ Head(ss[k].writes) \in Sent(ss, k)
         /\ SeqSet(Append(w, Head(ss[k].writes))) = SeqSet(w) \cup {Head(ss[k].writes)}
<1> DEFINE x == SendCallback(ss[k])
           r == Head(ss[k].writes)
           t == [ss EXCEPT ![k] = x]
<1>0. Typed(ss, q, w, n) /\ ss[k] \in Wrappers /\ ss[k].writes \in Seq(Requests)
  BY Places DEF Good
<1>1. /\ r \in Requests /\ r \in Sent(ss, k) /\ Sent(ss, k) = SeqSet(Tail(ss[k].writes)) \cup {r}
      /\ NoRepeats(ss[k].writes) => NoRepeats(Tail(ss[k].writes)) /\ r \notin SeqSet(Tail(ss[k].writes))
  BY <1>0, TailOnce DEF Sent
<1>2. x \in Wrappers /\ x.writes = Tail(ss[k].writes)
  BY <1>0, <1>1, Sends
<1>3. /\ Append(w, r) \in Seq(Requests) /\ SeqSet(Append(w, r)) = SeqSet(w) \cup {r}
      /\ NoRepeats(w) /\ r \notin SeqSet(w) => NoRepeats(Append(w, r))
  BY <1>0, <1>1, AppendOnce DEF Typed
<1> HIDE DEF x, r
<1>4. /\ t \in Seq(Wrappers) /\ Len(t) = Len(ss)
      /\ \A j \in 1..Len(ss) : t[j] = IF j = k THEN x ELSE ss[j]
  BY <1>0, <1>2, ExceptSeq DEF Typed
<1>5. t # <<>>
  BY <1>0, <1>4, EmptySeq, Places
<1> HIDE DEF t
<1>6. /\ Sent(ss, k) = Sent(t, k) \cup {r}
      /\ \A j \in 1..Len(ss) : j # k => Sent(t, j) = Sent(ss, j)
      /\ NoRepeats(ss[k].writes) => NoRepeats(t[k].writes) /\ r \notin Sent(t, k)
  BY <1>1, <1>2, <1>4 DEF Sent
<1>7. Conserved(t, q, Append(w, r), n)
  BY <1>1, <1>3, <1>4, <1>6 DEF Good, Conserved
<1> QED  BY <1>0, <1>1, <1>3, <1>4, <1>5, <1>7 DEF Good, Typed, t, x, r

\* It failed: the request goes back to the front of the queue.
LEMMA SendEndsQueued ==
  ASSUME NEW ss, NEW q, NEW w, NEW n, Good(ss, q, w, n), NEW k \in 1..Len(ss), ss[k].writes # <<>>
  PROVE  /\ Good([ss EXCEPT ![k] = SendCallback(@)], <<Head(ss[k].writes)>> \o q, w, n)
         /\ Head(ss[k].writes) \in Requests
<1> DEFINE x == SendCallback(ss[k])
           r == Head(ss[k].writes)
           t == [ss EXCEPT ![k] = x]
<1>0. Typed(ss, q, w, n) /\ ss[k] \in Wrappers /\ ss[k].writes \in Seq(Requests)
  BY Places DEF Good
<1>1. /\ r \in Requests /\ r \in Sent(ss, k) /\ Sent(ss, k) = SeqSet(Tail(ss[k].writes)) \cup {r}
      /\ NoRepeats(ss[k].writes) => NoRepeats(Tail(ss[k].writes)) /\ r \notin SeqSet(Tail(ss[k].writes))
  BY <1>0, TailOnce DEF Sent
<1>2. x \in Wrappers /\ x.writes = Tail(ss[k].writes)
  BY <1>0, <1>1, Sends
<1>3. /\ <<r>> \o q \in Seq(Requests) /\ SeqSet(<<r>> \o q) = SeqSet(q) \cup {r}
      /\ NoRepeats(q) /\ r \notin SeqSet(q) => NoRepeats(<<r>> \o q)
  BY <1>0, <1>1, ConsOnce DEF Typed
<1> HIDE DEF x, r
<1>4. /\ t \in Seq(Wrappers) /\ Len(t) = Len(ss)
      /\ \A j \in 1..Len(ss) : t[j] = IF j = k THEN x ELSE ss[j]
  BY <1>0, <1>2, ExceptSeq DEF Typed
<1>5. t # <<>>
  BY <1>0, <1>4, EmptySeq, Places
<1> HIDE DEF t
<1>6. /\ Sent(ss, k) = Sent(t, k) \cup {r}
      /\ \A j \in 1..Len(ss) : j # k => Sent(t, j) = Sent(ss, j)
      /\ NoRepeats(ss[k].writes) => NoRepeats(t[k].writes) /\ r \notin Sent(t, k)
  BY <1>1, <1>2, <1>4 DEF Sent
<1>7. Conserved(t, <<r>> \o q, w, n)
  BY <1>1, <1>3, <1>4, <1>6 DEF Good, Conserved
<1> QED  BY <1>0, <1>1, <1>3, <1>4, <1>5, <1>7 DEF Good, Typed, t, x, r

\* queueRequest takes one more request.
LEMMA TakeRequest ==
  ASSUME NEW ss, NEW q, NEW w, NEW n, Good(ss, q, w, n), n < MaxRequests
  PROVE  Good(ss, Append(q, n + 1), w, n + 1)
<1> USE BoundsAssumption DEF BoundsAssumption
<1>0. Typed(ss, q, w, n) /\ n \in Nat /\ n + 1 \in Requests /\ n + 1 \in 0..MaxRequests
  BY DEF Good, Typed, Requests
<1>1. /\ Append(q, n + 1) \in Seq(Requests) /\ SeqSet(Append(q, n + 1)) = SeqSet(q) \cup {n + 1}
      /\ NoRepeats(q) /\ n + 1 \notin SeqSet(q) => NoRepeats(Append(q, n + 1))
  BY <1>0, AppendOnce DEF Typed
<1>2. \A r \in Requests : r \in 1..(n + 1) <=> (r \in 1..n \/ r = n + 1)
  BY <1>0 DEF Requests
<1>3. n + 1 \notin 1..n
  BY <1>0
<1>4. Conserved(ss, Append(q, n + 1), w, n + 1)
  BY <1>0, <1>1, <1>2, <1>3 DEF Good, Conserved
<1> QED  BY <1>0, <1>1, <1>4 DEF Good, Typed
-----------------------------------------------------------------------------
(* Steps.  The invariant is the conservation of requests with the types.      *)

Flags ==
  /\ connectionStatus \in Status /\ isProcessingQueue \in BOOLEAN
  /\ unconnected \in BOOLEAN /\ disconnected \in BOOLEAN
  /\ timeoutIndex \in Nat /\ reconnectTimer \in BOOLEAN
  /\ retried \subseteq Requests
  /\ faults \in 0..MaxFaults /\ disconnects \in 0..MaxDisconnects
  /\ cleanlyClosed \in BOOLEAN /\ crashed \in BOOLEAN
  /\ DisconnectedHasTimer

AllConserved == Good(sockets, queue, written, accepted)

IInv == Flags /\ AllConserved

(* What a step does to the requests as a whole: nothing, one more is taken,   *)
(* or one that was not written is written.                                    *)
Moves ==
  \/ UNCHANGED <<accepted, written>>
  \/ accepted < MaxRequests /\ accepted' = accepted + 1 /\ UNCHANGED written
  \/ /\ UNCHANGED accepted
     /\ \E r \in InFlight : SeqSet(written') = SeqSet(written) \cup {r}

LEMMA InvariantParts ==
  ASSUME IInv
  PROVE  /\ TypeOK /\ sockets \in Seq(Wrappers)
         /\ socket \in Nat \ {0} /\ socket \in 1..socket /\ socket = Len(sockets)
         /\ \A k \in 1..socket : sockets[k] \in Wrappers /\ SeqSet(sockets[k].writes) \subseteq Requests
         /\ SeqSet(queue) \subseteq Requests /\ SeqSet(written) \subseteq Requests
<1>1. Typed(sockets, queue, written, accepted)
  BY DEF IInv, AllConserved, Good
<1>2. TypeOK
  BY <1>1 DEF IInv, Flags, TypeOK, Typed, Wrappers
<1> QED  BY <1>1, <1>2, Places DEF socket, Typed, Sent

\* processQueue, from the head of its loop to the next await.
LEMMA QueueLoopKeeps ==
  ASSUME NEW ss, NEW q, NEW w, NEW n, Good(ss, q, w, n), NEW busy \in BOOLEAN,
         retried \subseteq Requests, QueueLoop(ss, q, busy)
  PROVE  Good(sockets', queue', w, n) /\ isProcessingQueue' \in BOOLEAN /\ retried' \subseteq Requests
<1>1. Len(ss) \in 1..Len(ss) /\ Typed(ss, q, w, n)
  BY Places DEF Good
<1>2. q # <<>> => Head(q) \in Requests
  BY <1>1, TailOnce DEF Typed
<1>3. CASE q # <<>> /\ CanSend(ss[Len(ss)])
  <2>1. sockets' = [ss EXCEPT ![Len(ss)] = WrapperSend(@, Head(q))] /\ queue' = Tail(q)
    BY <1>3 DEF QueueLoop
  <2>2. Good(sockets', queue', w, n)
    BY <1>1, <1>3, <2>1, SendHead
  <2> QED  BY <1>3, <2>2 DEF QueueLoop
<1>4. CASE ~(q # <<>> /\ CanSend(ss[Len(ss)]))
  BY <1>2, <1>4 DEF QueueLoop
<1> QED  BY <1>3, <1>4

LEMMA ProcessQueueKeeps ==
  ASSUME NEW ss, NEW q, NEW w, NEW n, Good(ss, q, w, n), NEW status,
         isProcessingQueue \in BOOLEAN, retried \subseteq Requests, ProcessQueue(ss, q, status)
  PROVE  Good(sockets', queue', w, n) /\ isProcessingQueue' \in BOOLEAN /\ retried' \subseteq Requests
<1>1. CASE isProcessingQueue \/ status # "Connected"
  BY <1>1 DEF ProcessQueue
<1>2. CASE ~(isProcessingQueue \/ status # "Connected")
  BY <1>2, QueueLoopKeeps DEF ProcessQueue
<1> QED  BY <1>1, <1>2

\* A step that replaces one socket by one with the same outstanding sends.
LEMMA QuietStep ==
  ASSUME IInv, NEW k \in 1..socket, NEW x, Alike(sockets[k], x),
         sockets' = [sockets EXCEPT ![k] = x], UNCHANGED <<queue, written, accepted>>
  PROVE  AllConserved'
BY Quiet DEF IInv, AllConserved, socket

LEMMA InitInv == Init => IInv
<1> SUFFICES ASSUME Init PROVE IInv
  OBVIOUS
<1>1. /\ <<NewWrapper>> \in Seq(Wrappers) /\ Len(<<NewWrapper>>) = 1
      /\ <<NewWrapper>>[1] = NewWrapper /\ <<NewWrapper>> # <<>>
  BY NewWrapperType
<1>2. /\ <<>> \in Seq(Requests) /\ SeqSet(<<>>) = {} /\ NoRepeats(<<>>)
      /\ Sent(<<NewWrapper>>, 1) = {} /\ NoRepeats(<<NewWrapper>>[1].writes)
  BY <1>1, NewWrapperType, EmptySeq DEF SeqSet, NoRepeats, Sent
<1>3. Conserved(<<NewWrapper>>, <<>>, <<>>, 0)
  BY <1>1, <1>2 DEF Conserved
<1>4. AllConserved
  BY <1>1, <1>2, <1>3, BoundsAssumption DEF Init, AllConserved, Good, Typed, BoundsAssumption
<1>5. faults \in 0..MaxFaults /\ disconnects \in 0..MaxDisconnects /\ timeoutIndex \in Nat
  BY BoundsAssumption DEF Init, BoundsAssumption
<1>6. Flags
  BY <1>5 DEF Init, Flags, Status, DisconnectedHasTimer
<1> QED  BY <1>4, <1>6 DEF IInv

LEMMA NextInv == IInv /\ [Next]_vars => IInv' /\ Moves
<1> SUFFICES ASSUME IInv, [Next]_vars PROVE IInv' /\ Moves
  OBVIOUS
<1>0. /\ Flags /\ AllConserved /\ socket \in 1..socket /\ socket = Len(sockets)
      /\ \A k \in 1..socket : sockets[k] \in Wrappers
  BY InvariantParts DEF IInv
<1> USE BoundsAssumption, FlagsAssumption
    DEF BoundsAssumption, FlagsAssumption, queueVars, reconnectVars, userVars, networkVars
<1>1. CASE Connect
  <2>1. AllConserved'
    BY <1>0, <1>1, WrapperSteps, QuietStep DEF Connect
  <2>2. Flags' /\ Moves
    BY <1>0, <1>1 DEF Connect, UpdateConnecting, Flags, Status, DisconnectedHasTimer, Moves
  <2> QED  BY <2>1, <2>2 DEF IInv
<1>2. CASE Disconnect
  <2>1. CASE sockets[socket].held
    <3>1. AllConserved'
      BY <1>0, <1>2, <2>1, WrapperSteps, QuietStep DEF Disconnect
    <3>2. Flags' /\ Moves
      BY <1>0, <1>2, <2>1 DEF Disconnect, UpdateDisconnected, Flags, Status, DisconnectedHasTimer, Moves
    <3> QED  BY <3>1, <3>2 DEF IInv
  <2>2. CASE ~sockets[socket].held
    <3>1. AllConserved'
      BY <1>0, <1>2, <2>2 DEF Disconnect, AllConserved
    <3>2. Flags' /\ Moves
      BY <1>0, <1>2, <2>2 DEF Disconnect, UpdateDisconnected, Flags, Status, DisconnectedHasTimer, Moves
    <3> QED  BY <3>1, <3>2 DEF IInv
  <2> QED  BY <2>1, <2>2
<1>3. CASE QueueRequest
  <2>1. Good(sockets, Append(queue, accepted + 1), written, accepted + 1)
    BY <1>0, <1>3, TakeRequest DEF QueueRequest, AllConserved
  <2>2. /\ Good(sockets', queue', written, accepted + 1)
        /\ isProcessingQueue' \in BOOLEAN /\ retried' \subseteq Requests
    BY <1>0, <1>3, <2>1, ProcessQueueKeeps DEF QueueRequest, Flags
  <2>3. AllConserved' /\ Moves
    BY <1>3, <2>2 DEF QueueRequest, AllConserved, Moves
  <2>4. Flags'
    BY <1>0, <1>3, <2>2 DEF QueueRequest, Flags, DisconnectedHasTimer
  <2> QED  BY <2>3, <2>4 DEF IInv
<1>4. CASE Reconnect
  <2>1. AllConserved'
    BY <1>0, <1>4, AddSocket, NewWrapperType DEF Reconnect, AllConserved
  <2>2. Flags' /\ Moves
    BY <1>0, <1>4 DEF Reconnect, Flags, Status, DisconnectedHasTimer, Moves
  <2> QED  BY <2>1, <2>2 DEF IInv
<1>5. ASSUME NEW k \in 1..socket, SendSucceeds(k) PROVE IInv' /\ Moves
  <2>1. /\ Good([sockets EXCEPT ![k] = SendCallback(@)], queue, written', accepted)
        /\ Head(sockets[k].writes) \in SeqSet(sockets[k].writes)
        /\ SeqSet(written') = SeqSet(written) \cup {Head(sockets[k].writes)}
    <3>1. sockets[k].writes # <<>> /\ written' = Append(written, Head(sockets[k].writes))
      BY <1>5 DEF SendSucceeds
    <3>2. Good(sockets, queue, written, accepted) /\ k \in 1..Len(sockets)
      BY <1>0 DEF AllConserved
    <3>3. /\ Good([sockets EXCEPT ![k] = SendCallback(@)], queue, Append(written, Head(sockets[k].writes)), accepted)
          /\ Head(sockets[k].writes) \in Sent(sockets, k)
          /\ SeqSet(Append(written, Head(sockets[k].writes))) = SeqSet(written) \cup {Head(sockets[k].writes)}
      BY <3>1, <3>2, SendEndsWritten
    <3> QED  BY <3>1, <3>3 DEF Sent
  <2>2. /\ Good(sockets', queue', written', accepted)
        /\ isProcessingQueue' \in BOOLEAN /\ retried' \subseteq Requests
    BY <1>0, <1>5, <2>1, QueueLoopKeeps DEF SendSucceeds, Flags
  <2>3. AllConserved' /\ Moves
    BY <1>5, <2>1, <2>2 DEF SendSucceeds, AllConserved, Moves, InFlight
  <2>4. Flags'
    BY <1>0, <1>5, <2>2 DEF SendSucceeds, Flags, DisconnectedHasTimer
  <2> QED  BY <2>3, <2>4 DEF IInv
<1>6. ASSUME NEW k \in 1..socket, SendFails(k) PROVE IInv' /\ Moves
  <2>1. Good(sockets', queue', written, accepted) /\ Head(sockets[k].writes) \in Requests
    BY <1>0, <1>6, SendEndsQueued DEF SendFails, AllConserved
  <2>2. AllConserved' /\ Moves
    BY <1>6, <2>1 DEF SendFails, AllConserved, Moves
  <2>3. Flags'
    BY <1>0, <1>6, <2>1 DEF SendFails, Flags, DisconnectedHasTimer
  <2> QED  BY <2>2, <2>3 DEF IInv
<1>7. ASSUME NEW k \in 1..socket, Open(k) PROVE IInv' /\ Moves
  <2> DEFINE opened == [sockets EXCEPT ![k] = OnOpen(@)]
  <2>1. Good(opened, queue, written, accepted)
    BY <1>0, WrapperSteps, Quiet DEF AllConserved
  <2>2. CASE sockets[k].wired
    <3>1. /\ Good(sockets', queue', written, accepted)
          /\ isProcessingQueue' \in BOOLEAN /\ retried' \subseteq Requests
      BY <1>0, <1>7, <2>1, <2>2, ProcessQueueKeeps DEF Open, Flags
    <3>2. AllConserved' /\ Moves
      BY <1>7, <3>1 DEF Open, AllConserved, Moves
    <3>3. Flags'
      BY <1>0, <1>7, <2>2, <3>1 DEF Open, UpdateConnected, Flags, Status, DisconnectedHasTimer
    <3> QED  BY <3>2, <3>3 DEF IInv
  <2>3. CASE ~sockets[k].wired
    <3>1. AllConserved' /\ Moves
      BY <1>7, <2>1, <2>3 DEF Open, AllConserved, Moves
    <3>2. Flags'
      BY <1>0, <1>7, <2>3 DEF Open, Flags, DisconnectedHasTimer
    <3> QED  BY <3>1, <3>2 DEF IInv
  <2> QED  BY <2>2, <2>3
<1>8. ASSUME NEW k \in 1..socket, Error(k) PROVE IInv' /\ Moves
  <2>1. AllConserved'
    BY <1>0, <1>8, WrapperSteps, QuietStep DEF Error
  <2>2. UpdateDisconnected(1) \/ UNCHANGED reconnectVars
    BY <1>8 DEF Error, StreamEnds
  <2>3. Flags' /\ Moves
    <3>1. CASE UpdateDisconnected(1)
      BY <1>0, <1>8, <3>1 DEF Error, UpdateDisconnected, Flags, Status, DisconnectedHasTimer, Moves
    <3>2. CASE UNCHANGED reconnectVars
      BY <1>0, <1>8, <3>2 DEF Error, Flags, DisconnectedHasTimer, Moves
    <3> QED  BY <2>2, <3>1, <3>2
  <2> QED  BY <2>1, <2>3 DEF IInv
<1>9. ASSUME NEW k \in 1..socket, Drop(k) PROVE IInv' /\ Moves
  <2>1. AllConserved'
    BY <1>0, <1>9, WrapperSteps, QuietStep DEF Drop, ReadyState
  <2>2. Flags' /\ Moves
    BY <1>0, <1>9 DEF Drop, Flags, DisconnectedHasTimer, Moves
  <2> QED  BY <2>1, <2>2 DEF IInv
<1>10. ASSUME NEW k \in 1..socket, ServerCloses(k) PROVE IInv' /\ Moves
  <2>1. AllConserved'
    BY <1>0, <1>10, WrapperSteps, QuietStep DEF ServerCloses, ReadyState
  <2>2. Flags' /\ Moves
    BY <1>0, <1>10 DEF ServerCloses, Flags, DisconnectedHasTimer, Moves
  <2> QED  BY <2>1, <2>2 DEF IInv
<1>11. ASSUME NEW k \in 1..socket, Close(k) PROVE IInv' /\ Moves
  <2>1. AllConserved'
    BY <1>0, <1>11, WrapperSteps, QuietStep DEF Close
  <2>2. UpdateDisconnected(1) \/ UNCHANGED reconnectVars
    BY <1>11 DEF Close, StreamEnds
  <2>3. Flags' /\ Moves
    <3>1. CASE UpdateDisconnected(1)
      BY <1>0, <1>11, <3>1 DEF Close, UpdateDisconnected, Flags, Status, DisconnectedHasTimer, Moves
    <3>2. CASE UNCHANGED reconnectVars
      BY <1>0, <1>11, <3>2 DEF Close, Flags, DisconnectedHasTimer, Moves
    <3> QED  BY <2>2, <3>1, <3>2
  <2> QED  BY <2>1, <2>3 DEF IInv
<1>12. ASSUME NEW k \in 1..socket, TimesOut(k) PROVE IInv' /\ Moves
  <2>1. AllConserved'
    BY <1>0, <1>12, WrapperSteps, QuietStep DEF TimesOut
  <2>2. /\ UpdateDisconnected(1) /\ faults < MaxFaults /\ faults' = faults + 1
        /\ UNCHANGED <<queueVars, userVars, written, cleanlyClosed>>
    BY <1>12 DEF TimesOut
  <2>3. CASE UNCHANGED crashed
    BY <1>0, <2>1, <2>2, <2>3
       DEF UpdateDisconnected, IInv, Flags, Status, DisconnectedHasTimer, Moves
  <2>4. CASE crashed' = TRUE
    BY <1>0, <2>1, <2>2, <2>4
       DEF UpdateDisconnected, IInv, Flags, Status, DisconnectedHasTimer, Moves
  <2> QED  BY <1>12, <2>3, <2>4 DEF TimesOut
<1>13. CASE UNCHANGED vars
  BY <1>0, <1>13 DEF vars, IInv, Flags, AllConserved, DisconnectedHasTimer, Moves
<1> QED
  BY <1>1, <1>2, <1>3, <1>4, <1>5, <1>6, <1>7, <1>8, <1>9, <1>10, <1>11, <1>12, <1>13
     DEF Next, User, Network, Runtime

LEMMA Invariance == Spec => []IInv
<1> QED  BY InitInv, NextInv, PTL DEF Spec

(* Type correctness of the socket stack.                                      *)
THEOREM TypeCorrect == Spec => []TypeOK
<1>1. IInv => TypeOK
  BY InvariantParts
<1> QED  BY <1>1, Invariance, PTL

(* No request is lost or duplicated between queueRequest and the native       *)
(* sockets, whatever fails, reconnects or overlaps.                           *)
THEOREM NoRequestLost == Spec => []RequestsConserved
<1>1. IInv => RequestsConserved
  <2> SUFFICES ASSUME IInv PROVE RequestsConserved
    OBVIOUS
  <2>1. /\ Conserved(sockets, queue, written, accepted) /\ 1..accepted \subseteq Requests
        /\ socket = Len(sockets)
        /\ \A k \in 1..socket : SeqSet(sockets[k].writes) \subseteq Requests
        /\ SeqSet(queue) \subseteq Requests /\ SeqSet(written) \subseteq Requests
    BY InvariantParts, BoundsAssumption
       DEF IInv, AllConserved, Good, Typed, Requests, BoundsAssumption
  <2>2. /\ NoRepeats(queue) /\ NoRepeats(written) /\ \A k \in 1..socket : NoRepeats(sockets[k].writes)
        /\ \A j, k \in 1..socket :
             j # k => SeqSet(sockets[j].writes) \cap SeqSet(sockets[k].writes) = {}
    BY <2>1 DEF Conserved, Sent
  <2>3. \A r : r \in InFlight <=> \E k \in 1..socket : r \in SeqSet(sockets[k].writes)
    BY DEF InFlight
  <2>4. /\ SeqSet(queue) \cap InFlight = {} /\ SeqSet(queue) \cap SeqSet(written) = {}
        /\ InFlight \cap SeqSet(written) = {}
        /\ SeqSet(queue) \cup InFlight \cup SeqSet(written) = 1..accepted
    BY <2>1, <2>3 DEF Conserved, Sent
  <2> QED  BY <2>2, <2>4 DEF RequestsConserved
<1> QED  BY <1>1, Invariance, PTL

(* A disconnected socket always has a reconnect scheduled.                    *)
THEOREM ReconnectIsScheduled == Spec => []DisconnectedHasTimer
<1>1. IInv => DisconnectedHasTimer
  BY DEF IInv, Flags
<1> QED  BY <1>1, Invariance, PTL

(* The socket stack implements Outbox: it takes requests in order, hands each *)
(* over at most once and forgets none that waits.                             *)
THEOREM Refinement == Spec => ImplementsOutbox
<1> DEFINE waiting == SeqSet(queue) \cup InFlight
<1>1. RequestsConserved => waiting = (1..accepted) \ SeqSet(written)
  BY DEF RequestsConserved
<1>2. Init => Abstract!Init
  <2> SUFFICES ASSUME Init PROVE Abstract!Init
    OBVIOUS
  <2>1. SeqSet(<<>>) = {} /\ socket = 1 /\ sockets[1].writes = <<>>
    BY DEF SeqSet, Init, socket, NewWrapper
  <2> QED  BY <2>1 DEF Init, Abstract!Init, InFlight
<1>3. IInv /\ RequestsConserved /\ RequestsConserved' /\ [Next]_vars => [Abstract!Next]_(Abstract!vars)
  <2> SUFFICES ASSUME IInv, RequestsConserved, RequestsConserved', [Next]_vars
               PROVE  [Abstract!Next]_(Abstract!vars)
    OBVIOUS
  <2>0. Moves /\ accepted \in Nat /\ accepted' \in Nat /\ accepted' <= MaxRequests
    BY NextInv, BoundsAssumption DEF IInv, AllConserved, Good, Typed, BoundsAssumption
  <2>1. /\ waiting = (1..accepted) \ SeqSet(written) /\ SeqSet(written) \subseteq 1..accepted
        /\ waiting' = (1..accepted') \ SeqSet(written') /\ SeqSet(written') \subseteq 1..accepted'
        /\ InFlight \subseteq waiting
    BY <1>1 DEF RequestsConserved
  <2>2. waiting \subseteq 1..MaxRequests
    BY <2>0, <2>1, BoundsAssumption DEF BoundsAssumption, IInv, AllConserved, Good, Typed
  <2> HIDE DEF waiting
  <2>3. CASE UNCHANGED <<accepted, written>>
    <3>1. UNCHANGED <<waiting, SeqSet(written)>>
      BY <2>1, <2>3
    <3> QED  BY <3>1 DEF Abstract!vars, waiting
  <2>4. CASE accepted' = accepted + 1 /\ UNCHANGED written
    <3>1. accepted + 1 \in 1..MaxRequests /\ waiting \cup SeqSet(written) = 1..((accepted + 1) - 1)
      BY <2>0, <2>1, <2>4
    <3>2. waiting' = waiting \cup {accepted + 1} /\ SeqSet(written') = SeqSet(written)
      BY <2>0, <2>1, <2>4
    <3>3. Abstract!Accept(accepted + 1)
      BY <3>1, <3>2 DEF Abstract!Accept, waiting
    <3> QED  BY <3>1, <3>3 DEF Abstract!Next
  <2>5. CASE UNCHANGED accepted /\ \E r \in InFlight : SeqSet(written') = SeqSet(written) \cup {r}
    <3> PICK r \in InFlight : SeqSet(written') = SeqSet(written) \cup {r}
      BY <2>5
    <3>1. waiting' = waiting \ {r} /\ r \in waiting /\ r \in 1..MaxRequests
      BY <2>1, <2>2, <2>5
    <3>2. Abstract!HandOver(r)
      BY <3>1 DEF Abstract!HandOver, waiting
    <3> QED  BY <3>1, <3>2 DEF Abstract!Next
  <2> QED  BY <2>0, <2>3, <2>4, <2>5 DEF Moves
<1> QED  BY <1>2, <1>3, Invariance, NoRequestLost, PTL DEF Spec, ImplementsOutbox, Abstract!Spec
-----------------------------------------------------------------------------
(* Until disconnect() is called, the status tells the truth about the last    *)
(* socket, the sockets before it are over, and requests stay in line.         *)

\* The socket is lost, and its owner will hear no more of it.
Over(w) == w.native \in {"destroyed", "closed"} /\ ~w.timer /\ ~ReportsError(w)

\* What a status says about the last socket.
Suits(w, status, clean) ==
  /\ status = "Unconnected" => w.native = "none" /\ ~w.timer /\ w.listening
  /\ status = "Connecting" => w.native = "connecting" /\ w.timer /\ w.wired /\ w.listening
  /\ status = "Connected" =>
       /\ w.connected = "resolved" /\ ~w.timer /\ w.wired
       /\ w.native \in {"open", "closing", "destroyed", "closed"}
       /\ w.listening \/ clean
       /\ w.native = "open" => w.listening
       /\ w.native = "closing" => clean
  /\ status = "Disconnected" => Over(w)

Truthful ==
  /\ \A k \in 1..(socket - 1) : Over(sockets[k])
  /\ Suits(sockets[socket], connectionStatus, cleanlyClosed)
  /\ unconnected <=> connectionStatus = "Unconnected"
  /\ reconnectTimer => connectionStatus = "Disconnected"

\* w and x differ in their outstanding sends only.
SameShape(w, x) ==
  /\ x.native = w.native /\ x.timer = w.timer /\ x.wired = w.wired
  /\ x.listening = w.listening /\ x.connected = w.connected

\* A step that sends, or ends a send, and changes no status.
LEMMA TruthfulKept ==
  ASSUME Truthful, Len(sockets') = Len(sockets), Len(sockets) \in Nat \ {0},
         \A k \in 1..Len(sockets) : SameShape(sockets[k], sockets'[k]),
         UNCHANGED <<connectionStatus, cleanlyClosed, unconnected, reconnectTimer>>
  PROVE  Truthful'
BY DEF Truthful, SameShape, Suits, Over, ReportsError, socket

LEMMA Replaced ==
  ASSUME IInv, NEW k \in 1..socket, NEW x \in Wrappers, sockets' = [sockets EXCEPT ![k] = x]
  PROVE  socket' = socket /\ \A j \in 1..socket : sockets'[j] = IF j = k THEN x ELSE sockets[j]
BY InvariantParts, ExceptSeq DEF socket

\* The loop of processQueue sends one request on the last socket, or none.
LEMMA LoopChanges ==
  ASSUME NEW ss \in Seq(Wrappers), ss # <<>>, NEW q \in Seq(Requests), NEW busy,
         QueueLoop(ss, q, busy) \/ (sockets' = ss /\ queue' = q /\ retried' = retried)
  PROVE  /\ Len(sockets') = Len(ss) /\ \A k \in 1..(Len(ss) - 1) : sockets'[k] = ss[k]
         /\ SameShape(ss[Len(ss)], sockets'[Len(ss)])
         /\ \/ sockets'[Len(ss)] = ss[Len(ss)] /\ queue' = q /\ retried \subseteq retried'
            \/ /\ q # <<>> /\ ss[Len(ss)].native = "open"
               /\ sockets'[Len(ss)].writes = Append(ss[Len(ss)].writes, Head(q))
               /\ queue' = Tail(q) /\ retried' = retried
<1>1. Len(ss) \in Nat \ {0} /\ Len(ss) \in 1..Len(ss) /\ ss[Len(ss)] \in Wrappers
  BY EmptySeq, ElementOfSeq
<1>2. CASE sockets' = ss /\ queue' = q /\ retried \subseteq retried'
  BY <1>2 DEF SameShape
<1>3. CASE q # <<>> /\ CanSend(ss[Len(ss)]) /\ QueueLoop(ss, q, busy)
  <2> DEFINE x == WrapperSend(ss[Len(ss)], Head(q))
  <2>1. Head(q) \in Requests
    BY <1>3, HeadTailProperties
  <2>2. x \in Wrappers /\ x.writes = Append(ss[Len(ss)].writes, Head(q))
    BY <1>1, <2>1, Sends
  <2>3. SameShape(ss[Len(ss)], x)
    BY <1>1 DEF SameShape, WrapperSend, Wrappers, WrapperType
  <2>4. sockets' = [ss EXCEPT ![Len(ss)] = x] /\ queue' = Tail(q) /\ retried' = retried
    BY <1>3 DEF QueueLoop
  <2> HIDE DEF x
  <2>5. Len(sockets') = Len(ss) /\ \A k \in 1..Len(ss) : sockets'[k] = IF k = Len(ss) THEN x ELSE ss[k]
    BY <1>1, <2>2, <2>4, ExceptSeq
  <2>6. ss[Len(ss)].native = "open"
    BY <1>3 DEF CanSend
  <2>7. sockets'[Len(ss)] = x /\ \A k \in 1..(Len(ss) - 1) : sockets'[k] = ss[k]
    BY <1>1, <2>5
  <2> QED  BY <1>3, <2>2, <2>3, <2>4, <2>5, <2>6, <2>7
<1> QED  BY <1>2, <1>3 DEF QueueLoop

\* An event of the last socket, and the status that it leaves.
LEMMA TruthfulEvent ==
  ASSUME IInv, Truthful, NEW x \in Wrappers, sockets' = [sockets EXCEPT ![socket] = x],
         Suits(x, connectionStatus', cleanlyClosed'),
         unconnected' <=> connectionStatus' = "Unconnected",
         reconnectTimer' => connectionStatus' = "Disconnected"
  PROVE  Truthful'
<1>1. socket \in Nat \ {0} /\ socket \in 1..socket
  BY InvariantParts
<1>2. socket' = socket /\ \A k \in 1..socket : sockets'[k] = IF k = socket THEN x ELSE sockets[k]
  BY <1>1, Replaced
<1>3. sockets'[socket] = x /\ \A k \in 1..(socket - 1) : sockets'[k] = sockets[k]
  BY <1>1, <1>2
<1> QED  BY <1>2, <1>3 DEF Truthful

\* An event of a socket that was given up.
LEMMA TruthfulLate ==
  ASSUME IInv, Truthful, NEW k \in 1..(socket - 1), NEW x \in Wrappers, Over(x),
         sockets' = [sockets EXCEPT ![k] = x],
         UNCHANGED <<connectionStatus, cleanlyClosed, unconnected, reconnectTimer>>
  PROVE  Truthful'
<1>1. socket \in Nat \ {0}
  BY InvariantParts
<1>2. k \in 1..socket
  BY <1>1
<1>3. socket' = socket /\ \A j \in 1..socket : sockets'[j] = IF j = k THEN x ELSE sockets[j]
  BY <1>2, Replaced
<1>4. /\ sockets'[socket] = sockets[socket]
      /\ \A j \in 1..(socket - 1) : sockets'[j] = IF j = k THEN x ELSE sockets[j]
  BY <1>1, <1>3
<1> QED  BY <1>3, <1>4 DEF Truthful

\* A step of processQueue from sockets ss that look like the present ones.
LEMMA TruthfulSend ==
  ASSUME IInv, Truthful, NEW ss \in Seq(Wrappers), Len(ss) = socket, NEW q \in Seq(Requests), NEW busy,
         \A j \in 1..socket : SameShape(sockets[j], ss[j]),
         QueueLoop(ss, q, busy) \/ (sockets' = ss /\ queue' = q /\ retried' = retried),
         UNCHANGED <<connectionStatus, cleanlyClosed, unconnected, reconnectTimer>>
  PROVE  Truthful'
<1>1. socket \in Nat \ {0} /\ socket = Len(sockets) /\ ss # <<>>
  BY InvariantParts, EmptySeq
<1>2. /\ Len(sockets') = socket /\ SameShape(ss[socket], sockets'[socket])
      /\ \A k \in 1..(socket - 1) : sockets'[k] = ss[k]
  BY <1>1, LoopChanges
<1>3. ASSUME NEW k \in 1..socket PROVE SameShape(sockets[k], sockets'[k])
  <2>1. CASE k = socket
    BY <1>2, <2>1 DEF SameShape
  <2>2. CASE k # socket
    <3>1. k \in 1..(socket - 1)
      BY <1>1, <2>2
    <3> QED  BY <1>2, <3>1
  <2> QED  BY <2>1, <2>2
<1> QED  BY <1>1, <1>2, <1>3, TruthfulKept

\* Which events leave a socket over.
LEMMA EndOfSocket ==
  ASSUME NEW w \in Wrappers
  PROVE  /\ w.wired => Over(OnError(w)) /\ (~w.timer => Over(OnClose(w)))
         /\ Over(OnTimeout(w))
         /\ Over(w) => Over(OnClose(w))
BY DEF OnError, OnClose, OnTimeout, Over, ReportsError, Wrappers, WrapperType

LEMMA SendsBack ==
  ASSUME NEW w \in Wrappers, w.writes # <<>>
  PROVE  SendCallback(w) \in Wrappers
<1>1. w.writes \in Seq(Requests)
  BY DEF Wrappers, WrapperType
<1>2. Tail(w.writes) \in Seq(Requests)
  BY <1>1, HeadTailProperties
<1> QED  BY <1>2 DEF SendCallback, Wrappers, WrapperType

LEMMA TruthfulStep ==
  ASSUME IInv, Truthful, [Next]_vars, disconnects' = disconnects
  PROVE  Truthful'
<1> DEFINE w == sockets[socket]
<1>0. /\ socket \in Nat \ {0} /\ socket \in 1..socket /\ socket = Len(sockets)
      /\ \A k \in 1..socket : sockets[k] \in Wrappers
      /\ sockets \in Seq(Wrappers) /\ w \in Wrappers
      /\ queue \in Seq(Requests) /\ connectionStatus \in Status /\ accepted \in 0..MaxRequests
      /\ \A k \in 1..socket : k = socket \/ k \in 1..(socket - 1)
      /\ \A k \in 1..(socket - 1) : Over(sockets[k]) /\ k \in 1..socket
      /\ Suits(w, connectionStatus, cleanlyClosed)
      /\ unconnected <=> connectionStatus = "Unconnected"
      /\ reconnectTimer => connectionStatus = "Disconnected"
  <2>1. socket \in Nat \ {0} /\ socket \in 1..socket
    BY InvariantParts
  <2>2. \A k \in 1..socket : k = socket \/ k \in 1..(socket - 1)
    BY <2>1
  <2>3. \A k \in 1..(socket - 1) : k \in 1..socket
    BY <2>1
  <2> QED  BY <2>1, <2>2, <2>3, InvariantParts DEF TypeOK, Truthful
<1> USE DEF queueVars, reconnectVars, userVars, networkVars
<1>1. CASE Connect
  <2>1. /\ sockets' = [sockets EXCEPT ![socket] = WrapperConnect(w)] /\ WrapperConnect(w) \in Wrappers
        /\ connectionStatus' = "Connecting" /\ ~unconnected' /\ unconnected
        /\ UNCHANGED <<cleanlyClosed, reconnectTimer>>
    BY <1>0, <1>1, WrapperSteps DEF Connect, UpdateConnecting, Alike
  <2>2. connectionStatus = "Unconnected" /\ ~reconnectTimer'
    BY <2>1 DEF Truthful
  <2>3. Suits(WrapperConnect(w), "Connecting", cleanlyClosed)
    BY <1>0, <2>2 DEF Suits, WrapperConnect, Wrappers, WrapperType
  <2> QED  BY <2>1, <2>2, <2>3, TruthfulEvent
<1>2. CASE Disconnect
  BY <1>2, InvariantParts, BoundsAssumption DEF Disconnect, TypeOK, BoundsAssumption
<1>3. CASE QueueRequest
  <2> DEFINE q == Append(queue, accepted + 1)
  <2>1. q \in Seq(Requests)
    BY <1>0, <1>3, BoundsAssumption, AppendProperties DEF QueueRequest, Requests, BoundsAssumption
  <2>2. QueueLoop(sockets, q, TRUE) \/ (sockets' = sockets /\ queue' = q /\ retried' = retried)
    BY <1>3 DEF QueueRequest, ProcessQueue
  <2>3. UNCHANGED <<connectionStatus, cleanlyClosed, unconnected, reconnectTimer>>
    BY <1>3 DEF QueueRequest
  <2>4. \A j \in 1..socket : SameShape(sockets[j], sockets[j])
    BY DEF SameShape
  <2> HIDE DEF q
  <2> QED  BY <1>0, <2>1, <2>2, <2>3, <2>4, TruthfulSend
<1>4. CASE Reconnect
  <2> DEFINE x == WrapperConnect(NewWrapper)
  <2>1. /\ sockets' = Append(sockets, x) /\ connectionStatus' = "Connecting" /\ ~reconnectTimer'
        /\ reconnectTimer /\ UNCHANGED <<cleanlyClosed, unconnected>>
    BY <1>4 DEF Reconnect
  <2>2. /\ socket' = socket + 1 /\ sockets'[socket + 1] = x
        /\ \A k \in 1..socket : sockets'[k] = sockets[k]
    BY <1>0, <2>1, NewWrapperType, AppendProperties DEF socket
  <2>3. Suits(x, "Connecting", cleanlyClosed')
    BY DEF Suits, WrapperConnect, NewWrapper
  <2>4. connectionStatus = "Disconnected" /\ Over(w) /\ ~unconnected'
    BY <1>0, <2>1 DEF Truthful, Suits
  <2>5. \A k \in 1..(socket' - 1) : Over(sockets'[k])
    BY <1>0, <2>2, <2>4
  <2> QED  BY <2>1, <2>2, <2>3, <2>4, <2>5 DEF Truthful
<1>5. ASSUME NEW k \in 1..socket, SendSucceeds(k) PROVE Truthful'
  <2> DEFINE x == SendCallback(sockets[k])
             ss == [sockets EXCEPT ![k] = x]
  <2>1. x \in Wrappers /\ SameShape(sockets[k], x)
    <3>1. x \in Wrappers
      BY <1>0, <1>5, SendsBack DEF SendSucceeds
    <3> QED  BY <1>0, <3>1 DEF SendCallback, SameShape, Wrappers, WrapperType
  <2> HIDE DEF x
  <2>2. /\ ss \in Seq(Wrappers) /\ Len(ss) = socket
        /\ \A j \in 1..socket : ss[j] = IF j = k THEN x ELSE sockets[j]
    BY <1>0, <2>1, ExceptSeq
  <2>3. QueueLoop(ss, queue, FALSE) /\ UNCHANGED <<connectionStatus, cleanlyClosed, unconnected, reconnectTimer>>
    BY <1>5 DEF SendSucceeds, x
  <2>4. \A j \in 1..socket : SameShape(sockets[j], ss[j])
    BY <2>1, <2>2 DEF SameShape
  <2> HIDE DEF ss
  <2> QED  BY <1>0, <2>2, <2>3, <2>4, TruthfulSend
<1>6. ASSUME NEW k \in 1..socket, SendFails(k) PROVE Truthful'
  <2> DEFINE x == SendCallback(sockets[k])
  <2>1. x \in Wrappers /\ SameShape(sockets[k], x)
    <3>1. x \in Wrappers
      BY <1>0, <1>6, SendsBack DEF SendFails
    <3> QED  BY <1>0, <3>1 DEF SendCallback, SameShape, Wrappers, WrapperType
  <2>2. /\ sockets' = [sockets EXCEPT ![k] = x]
        /\ UNCHANGED <<connectionStatus, cleanlyClosed, unconnected, reconnectTimer>>
    BY <1>6 DEF SendFails
  <2> HIDE DEF x
  <2>3. /\ Len(sockets') = Len(sockets)
        /\ \A j \in 1..socket : sockets'[j] = IF j = k THEN x ELSE sockets[j]
    BY <1>0, <2>1, <2>2, Replaced DEF socket
  <2>4. \A j \in 1..Len(sockets) : SameShape(sockets[j], sockets'[j])
    BY <1>0, <2>1, <2>3 DEF SameShape
  <2> QED  BY <1>0, <2>2, <2>3, <2>4, TruthfulKept
<1>7. ASSUME NEW k \in 1..socket, Open(k) PROVE Truthful'
  <2> DEFINE x == OnOpen(w)
             ss == [sockets EXCEPT ![socket] = x]
  <2>1. k = socket /\ connectionStatus = "Connecting" /\ w.wired
    BY <1>0, <1>7 DEF Open, Over, Suits, Status
  <2>2. /\ connectionStatus' = "Connected" /\ UNCHANGED <<cleanlyClosed, unconnected, reconnectTimer>>
        /\ QueueLoop(ss, queue, TRUE) \/ (sockets' = ss /\ queue' = queue /\ retried' = retried)
    BY <1>7, <2>1 DEF Open, UpdateConnected, ProcessQueue
  <2>3. x \in Wrappers /\ Suits(x, "Connected", cleanlyClosed)
    BY <1>0, <2>1 DEF OnOpen, Suits, Wrappers, WrapperType, ReadyState
  <2> HIDE DEF x
  <2>4. /\ ss \in Seq(Wrappers) /\ Len(ss) = socket /\ ss # <<>> /\ ss[socket] = x
        /\ \A j \in 1..socket : ss[j] = IF j = socket THEN x ELSE sockets[j]
    BY <1>0, <2>3, ExceptSeq, EmptySeq
  <2> HIDE DEF ss
  <2>5. /\ Len(sockets') = socket /\ SameShape(x, sockets'[socket])
        /\ \A j \in 1..(socket - 1) : sockets'[j] = ss[j]
    BY <1>0, <2>2, <2>4, LoopChanges
  <2>6. Suits(sockets'[socket], "Connected", cleanlyClosed)
    BY <2>3, <2>5 DEF Suits, SameShape
  <2>7. ASSUME NEW j \in 1..(socket - 1) PROVE sockets'[j] = sockets[j]
    <3>1. j \in 1..socket /\ j # socket
      BY <1>0
    <3> QED  BY <2>4, <2>5, <3>1
  <2>8. ~unconnected /\ ~reconnectTimer
    BY <2>1 DEF Truthful
  <2>9. socket' = socket
    BY <2>5 DEF socket
  <2> QED  BY <1>0, <2>2, <2>6, <2>7, <2>8, <2>9 DEF Truthful
<1>8. ASSUME NEW k \in 1..socket, Error(k) PROVE Truthful'
  <2>1. k = socket /\ connectionStatus \in {"Connecting", "Connected"} /\ w.wired /\ w.listening
    BY <1>0, <1>8 DEF Error, Over, Suits, Status
  <2>2. /\ sockets' = [sockets EXCEPT ![socket] = OnError(w)] /\ OnError(w) \in Wrappers
        /\ connectionStatus' = "Disconnected" /\ UNCHANGED <<unconnected, cleanlyClosed>>
    BY <1>0, <1>8, <2>1, WrapperSteps DEF Error, StreamEnds, ReportsError, UpdateDisconnected, Alike
  <2>3. Suits(OnError(w), "Disconnected", cleanlyClosed)
    BY <1>0, <2>1, EndOfSocket DEF Suits
  <2>4. ~unconnected'
    BY <2>1, <2>2 DEF Truthful
  <2> QED  BY <2>2, <2>3, <2>4, TruthfulEvent
<1>9. ASSUME NEW k \in 1..socket, Drop(k) PROVE Truthful'
  <2> DEFINE x == [w EXCEPT !.native = "destroyed"]
  <2>1. k = socket /\ connectionStatus = "Connected"
    BY <1>0, <1>9 DEF Drop, Over, Suits, Status
  <2>2. /\ sockets' = [sockets EXCEPT ![socket] = x] /\ x \in Wrappers
        /\ UNCHANGED <<connectionStatus, unconnected, cleanlyClosed, reconnectTimer>>
    BY <1>0, <1>9, <2>1 DEF Drop, Wrappers, WrapperType, ReadyState
  <2>3. Suits(x, "Connected", cleanlyClosed)
    BY <1>0, <2>1 DEF Suits, Wrappers, WrapperType
  <2> QED  BY <2>1, <2>2, <2>3, <1>0, TruthfulEvent
<1>10. ASSUME NEW k \in 1..socket, ServerCloses(k) PROVE Truthful'
  <2> DEFINE x == [w EXCEPT !.native = "closing"]
  <2>1. k = socket /\ connectionStatus = "Connected"
    BY <1>0, <1>10 DEF ServerCloses, Over, Suits, Status
  <2>2. /\ sockets' = [sockets EXCEPT ![socket] = x] /\ x \in Wrappers /\ cleanlyClosed' = TRUE
        /\ UNCHANGED <<connectionStatus, unconnected, reconnectTimer>>
    BY <1>0, <1>10, <2>1 DEF ServerCloses, Wrappers, WrapperType, ReadyState
  <2>3. Suits(x, "Connected", TRUE)
    BY <1>0, <2>1 DEF Suits, Wrappers, WrapperType
  <2> QED  BY <2>1, <2>2, <2>3, <1>0, TruthfulEvent
<1>11. ASSUME NEW k \in 1..socket, Close(k) PROVE Truthful'
  <2> DEFINE x == OnClose(sockets[k])
  <2>0. sockets' = [sockets EXCEPT ![k] = x] /\ x \in Wrappers /\ UNCHANGED <<unconnected, cleanlyClosed>>
    BY <1>0, <1>11, WrapperSteps DEF Close, Alike
  <2>1. CASE Over(sockets[k])
    <3>1. Over(x) /\ UNCHANGED <<connectionStatus, cleanlyClosed, unconnected, reconnectTimer>>
      BY <1>0, <1>11, <2>1, EndOfSocket DEF Close, StreamEnds, Over
    <3>2. CASE k = socket
      <4>1. Suits(x, connectionStatus', cleanlyClosed')
        BY <1>0, <1>11, <2>1, <3>1, <3>2
           DEF Close, Suits, Over, ReportsError, OnClose, Wrappers, WrapperType
      <4>2. sockets' = [sockets EXCEPT ![socket] = x]
        BY <2>0, <3>2
      <4>3. (unconnected' <=> connectionStatus' = "Unconnected") /\ (reconnectTimer' => connectionStatus' = "Disconnected")
        BY <1>0, <2>0, <3>1
      <4> HIDE DEF x
      <4> QED  BY <2>0, <4>1, <4>2, <4>3, TruthfulEvent
    <3>3. CASE k # socket
      BY <1>0, <2>0, <3>1, <3>3, TruthfulLate
    <3> QED  BY <3>2, <3>3
  <2>2. CASE ~Over(sockets[k])
    <3>1. k = socket /\ connectionStatus = "Connected"
      BY <1>0, <1>11, <2>2 DEF Close, Suits, Status
    <3>2. CASE ReportsError(w) /\ w.native # "closing"
      <4>1. connectionStatus' = "Disconnected"
        BY <1>11, <3>1, <3>2 DEF Close, StreamEnds, UpdateDisconnected
      <4>2. Suits(x, "Disconnected", cleanlyClosed')
        BY <1>0, <3>1, EndOfSocket DEF Suits
      <4> QED  BY <2>0, <3>1, <4>1, <4>2, <1>0, TruthfulEvent
    <3>3. CASE ~(ReportsError(w) /\ w.native # "closing")
      <4>1. UNCHANGED <<connectionStatus, reconnectTimer>>
        BY <1>11, <3>1, <3>3 DEF Close, StreamEnds
      <4>2. cleanlyClosed
        BY <1>0, <1>11, <3>1, <3>3 DEF Close, Suits, ReportsError
      <4>3. Suits(x, "Connected", cleanlyClosed')
        BY <1>0, <2>0, <3>1, <4>2 DEF Suits, OnClose, Wrappers, WrapperType
      <4> QED  BY <2>0, <3>1, <4>1, <4>3, <1>0, TruthfulEvent
    <3> QED  BY <3>2, <3>3
  <2> QED  BY <2>1, <2>2
<1>12. ASSUME NEW k \in 1..socket, TimesOut(k) PROVE Truthful'
  <2>1. k = socket /\ connectionStatus = "Connecting"
    BY <1>0, <1>12 DEF TimesOut, Over, Suits, Status
  <2>2. /\ sockets' = [sockets EXCEPT ![socket] = OnTimeout(w)] /\ OnTimeout(w) \in Wrappers
        /\ connectionStatus' = "Disconnected" /\ UNCHANGED <<unconnected, cleanlyClosed>>
    BY <1>0, <1>12, <2>1, WrapperSteps DEF TimesOut, UpdateDisconnected, Alike
  <2>3. Suits(OnTimeout(w), "Disconnected", cleanlyClosed)
    BY <1>0, EndOfSocket DEF Suits
  <2>4. ~unconnected'
    BY <2>1, <2>2 DEF Truthful
  <2> QED  BY <2>2, <2>3, <2>4, TruthfulEvent
<1>13. CASE UNCHANGED vars
  BY <1>13 DEF vars, Truthful, socket
<1> QED
  BY <1>1, <1>2, <1>3, <1>4, <1>5, <1>6, <1>7, <1>8, <1>9, <1>10, <1>11, <1>12, <1>13
     DEF Next, User, Network, Runtime
-----------------------------------------------------------------------------
(* Requests in line.  Those of R may be anywhere.                             *)

Before(x, y, R) == {x, y} \cap R = {} => x < y

Increasing(s, R) == \A i, j \in DOMAIN s : i < j => Before(s[i], s[j], R)

Precedes(s, t, R) == \A x \in SeqSet(s), y \in SeqSet(t) : Before(x, y, R)

\* Written, outstanding and queued requests, one after the other.
InLine(s, t, u, R) ==
  /\ Increasing(s, R) /\ Increasing(t, R) /\ Increasing(u, R)
  /\ Precedes(s, t, R) /\ Precedes(t, u, R) /\ Precedes(s, u, R)

LEMMA AppendInLine ==
  ASSUME NEW S, NEW s \in Seq(S), NEW r \in S, NEW R, Increasing(s, R),
         \A x \in SeqSet(s) : Before(x, r, R)
  PROVE  Increasing(Append(s, r), R)
<1> DEFINE t == Append(s, r)
<1>1. /\ Len(s) \in Nat /\ DOMAIN s = 1..Len(s) /\ DOMAIN t = 1..(Len(s) + 1)
      /\ \A i \in 1..Len(s) : t[i] = s[i]
      /\ t[Len(s) + 1] = r
  BY AppendProperties, LenProperties
<1> HIDE DEF t
<1>2. ASSUME NEW i \in DOMAIN t, NEW j \in DOMAIN t, i < j PROVE Before(t[i], t[j], R)
  <2>1. i \in DOMAIN s /\ t[i] = s[i] /\ s[i] \in SeqSet(s)
    BY <1>1, <1>2 DEF SeqSet
  <2>2. CASE j = Len(s) + 1
    BY <1>1, <2>1, <2>2
  <2>3. CASE j # Len(s) + 1
    <3>1. j \in DOMAIN s /\ t[j] = s[j]
      BY <1>1, <2>3
    <3> QED  BY <1>2, <2>1, <3>1 DEF Increasing
  <2> QED  BY <2>2, <2>3
<1> QED  BY <1>2 DEF Increasing, t

LEMMA TailInLine ==
  ASSUME NEW S, NEW s \in Seq(S), s # <<>>, NEW R, Increasing(s, R)
  PROVE  Increasing(Tail(s), R) /\ \A y \in SeqSet(Tail(s)) : Before(Head(s), y, R)
<1>1. /\ Len(s) \in Nat \ {0} /\ DOMAIN s = 1..Len(s) /\ DOMAIN Tail(s) = 1..(Len(s) - 1)
      /\ Head(s) = s[1] /\ \A i \in 1..(Len(s) - 1) : Tail(s)[i] = s[i + 1]
  BY HeadTailProperties, LenProperties, EmptySeq
<1>2. 1 \in DOMAIN s /\ \A i \in DOMAIN Tail(s) : i + 1 \in DOMAIN s /\ 1 < i + 1 /\ Tail(s)[i] = s[i + 1]
  BY <1>1
<1>3. \A i, j \in DOMAIN Tail(s) : i < j => i + 1 < j + 1
  BY <1>1
<1> QED  BY <1>1, <1>2, <1>3 DEF Increasing, SeqSet

LEMMA ConsInLine ==
  ASSUME NEW S, NEW s \in Seq(S), NEW r \in S, NEW R, Increasing(s, R), r \in R
  PROVE  Increasing(<<r>> \o s, R)
<1> DEFINE t == <<r>> \o s
<1>1. <<r>> \in Seq(S) /\ Len(<<r>>) = 1 /\ <<r>>[1] = r
  OBVIOUS
<1>2. /\ t \in Seq(S) /\ Len(t) = 1 + Len(s) /\ Len(s) \in Nat
      /\ \A i \in 1..(1 + Len(s)) : t[i] = IF i <= 1 THEN <<r>>[i] ELSE s[i - 1]
  BY <1>1, ConcatProperties, LenProperties
<1>3. DOMAIN s = 1..Len(s) /\ DOMAIN t = 1..(Len(s) + 1)
  BY <1>2, LenProperties
<1>4. t[1] = r
  BY <1>1, <1>2
<1>5. \A i \in DOMAIN t : i # 1 => i - 1 \in DOMAIN s /\ t[i] = s[i - 1]
  BY <1>2, <1>3
<1> HIDE DEF t
<1>6. ASSUME NEW i \in DOMAIN t, NEW j \in DOMAIN t, i < j PROVE Before(t[i], t[j], R)
  <2>1. CASE i = 1
    BY <1>4, <2>1 DEF Before
  <2>2. CASE i # 1
    <3>1. j # 1 /\ i - 1 < j - 1
      BY <1>2, <1>3, <1>6, <2>2
    <3> QED  BY <1>5, <2>2, <3>1 DEF Increasing
  <2> QED  BY <2>1, <2>2
<1> QED  BY <1>6 DEF Increasing, t

\* More requests that may be anywhere.
LEMMA LooserInLine ==
  ASSUME NEW s, NEW t, NEW u, NEW R, NEW Q, R \subseteq Q, InLine(s, t, u, R)
  PROVE  InLine(s, t, u, Q)
<1>1. \A x, y : Before(x, y, R) => Before(x, y, Q)
  BY DEF Before
<1> QED  BY <1>1 DEF InLine, Increasing, Precedes

\* The head of the queue goes to the end of the outstanding sends.
LEMMA SendInLine ==
  ASSUME NEW s \in Seq(Requests), NEW t \in Seq(Requests), NEW u \in Seq(Requests), u # <<>>,
         NEW R, InLine(s, t, u, R)
  PROVE  InLine(s, Append(t, Head(u)), Tail(u), R)
<1>1. /\ Head(u) \in Requests /\ Head(u) \in SeqSet(u) /\ SeqSet(Tail(u)) \subseteq SeqSet(u)
      /\ SeqSet(Append(t, Head(u))) = SeqSet(t) \cup {Head(u)}
  BY TailOnce, AppendOnce
<1>2. Increasing(Tail(u), R) /\ \A y \in SeqSet(Tail(u)) : Before(Head(u), y, R)
  BY TailInLine DEF InLine
<1>3. Increasing(Append(t, Head(u)), R)
  <2>1. \A x \in SeqSet(t) : Before(x, Head(u), R)
    BY <1>1 DEF InLine, Precedes
  <2> QED  BY <1>1, <2>1, AppendInLine DEF InLine
<1> QED  BY <1>1, <1>2, <1>3 DEF InLine, Precedes

\* The oldest outstanding send is written.
LEMMA WriteInLine ==
  ASSUME NEW s \in Seq(Requests), NEW t \in Seq(Requests), NEW u \in Seq(Requests), t # <<>>,
         NEW R, InLine(s, t, u, R)
  PROVE  InLine(Append(s, Head(t)), Tail(t), u, R)
<1>1. /\ Head(t) \in Requests /\ Head(t) \in SeqSet(t) /\ SeqSet(Tail(t)) \subseteq SeqSet(t)
      /\ SeqSet(Append(s, Head(t))) = SeqSet(s) \cup {Head(t)}
  BY TailOnce, AppendOnce
<1>2. Increasing(Tail(t), R) /\ \A y \in SeqSet(Tail(t)) : Before(Head(t), y, R)
  BY TailInLine DEF InLine
<1>3. Increasing(Append(s, Head(t)), R)
  <2>1. \A x \in SeqSet(s) : Before(x, Head(t), R)
    BY <1>1 DEF InLine, Precedes
  <2> QED  BY <1>1, <2>1, AppendInLine DEF InLine
<1> QED  BY <1>1, <1>2, <1>3 DEF InLine, Precedes

\* It failed: its request goes to the front of the queue, and may be anywhere.
LEMMA RetryInLine ==
  ASSUME NEW s \in Seq(Requests), NEW t \in Seq(Requests), NEW u \in Seq(Requests), t # <<>>,
         NEW R, InLine(s, t, u, R)
  PROVE  InLine(s, Tail(t), <<Head(t)>> \o u, R \cup {Head(t)})
<1> DEFINE r == Head(t)
           Q == R \cup {r}
<1>1. /\ r \in Requests /\ r \in SeqSet(t) /\ SeqSet(Tail(t)) \subseteq SeqSet(t)
      /\ SeqSet(<<r>> \o u) = SeqSet(u) \cup {r}
  BY TailOnce, ConsOnce
<1> HIDE DEF r
<1>2. InLine(s, t, u, Q) /\ r \in Q
  BY LooserInLine
<1>3. Increasing(Tail(t), Q) /\ Increasing(<<r>> \o u, Q)
  BY <1>1, <1>2, TailInLine, ConsInLine DEF InLine
<1>4. \A x : Before(x, r, Q)
  BY <1>2 DEF Before
<1>5. /\ Precedes(s, Tail(t), Q) /\ Precedes(Tail(t), <<r>> \o u, Q)
      /\ Precedes(s, <<r>> \o u, Q)
  BY <1>1, <1>2, <1>4 DEF InLine, Precedes
<1> QED  BY <1>2, <1>3, <1>5 DEF InLine, r

\* A request younger than all others joins the queue.
LEMMA TakeInLine ==
  ASSUME NEW s \in Seq(Requests), NEW t \in Seq(Requests), NEW u \in Seq(Requests), NEW n \in Requests,
         \A x \in SeqSet(s) \cup SeqSet(t) \cup SeqSet(u) : x < n,
         NEW R, InLine(s, t, u, R)
  PROVE  InLine(s, t, Append(u, n), R)
<1>1. \A x \in SeqSet(s) \cup SeqSet(t) \cup SeqSet(u) : Before(x, n, R)
  BY DEF Before
<1>2. SeqSet(Append(u, n)) = SeqSet(u) \cup {n} /\ Increasing(Append(u, n), R)
  BY <1>1, AppendOnce, AppendInLine DEF InLine
<1> QED  BY <1>1, <1>2 DEF InLine, Precedes
-----------------------------------------------------------------------------
(* Only the last socket has outstanding sends, and they are in line.          *)

\* A socket that is not open yet, or closed, has no outstanding sends.
Idle(w) == w.native \in {"none", "connecting", "closed"} => w.writes = <<>>

Ordered ==
  /\ \A k \in 1..(socket - 1) : sockets[k].writes = <<>>
  /\ Idle(sockets[socket])
  /\ InLine(written, sockets[socket].writes, queue, retried)

\* An event that leaves the outstanding sends alone.
LEMMA OrderedEvent ==
  ASSUME IInv, Ordered, NEW k \in 1..socket, NEW x \in Wrappers, x.writes = sockets[k].writes,
         k = socket => Idle(x), sockets' = [sockets EXCEPT ![k] = x],
         UNCHANGED <<queue, written, retried>>
  PROVE  Ordered'
<1>1. socket \in Nat \ {0} /\ socket \in 1..socket
  BY InvariantParts
<1>2. socket' = socket /\ \A j \in 1..socket : sockets'[j] = IF j = k THEN x ELSE sockets[j]
  BY Replaced
<1>3. \A j \in 1..socket : sockets'[j].writes = sockets[j].writes
  BY <1>2
<1>4. \A j \in 1..(socket - 1) : j \in 1..socket
  BY <1>1
<1>5. Idle(sockets'[socket])
  BY <1>1, <1>2 DEF Ordered
<1> QED  BY <1>1, <1>2, <1>3, <1>4, <1>5 DEF Ordered

\* A step of processQueue from sockets ss, queue q and written requests v.
LEMMA OrderedSend ==
  ASSUME NEW ss \in Seq(Wrappers), ss # <<>>, NEW q \in Seq(Requests), NEW v \in Seq(Requests), NEW busy,
         \A k \in 1..(Len(ss) - 1) : ss[k].writes = <<>>,
         Idle(ss[Len(ss)]), InLine(v, ss[Len(ss)].writes, q, retried),
         QueueLoop(ss, q, busy) \/ (sockets' = ss /\ queue' = q /\ retried' = retried),
         written' = v
  PROVE  Ordered'
<1> DEFINE n == Len(ss)
<1>1. n \in Nat \ {0} /\ ss[n] \in Wrappers
  BY EmptySeq, ElementOfSeq
<1>2. ss[n].writes \in Seq(Requests)
  BY <1>1 DEF Wrappers, WrapperType
<1>3. /\ Len(sockets') = n /\ \A k \in 1..(n - 1) : sockets'[k] = ss[k]
      /\ sockets'[n].native = ss[n].native
      /\ \/ sockets'[n] = ss[n] /\ queue' = q /\ retried \subseteq retried'
         \/ /\ q # <<>> /\ ss[n].native = "open"
            /\ sockets'[n].writes = Append(ss[n].writes, Head(q))
            /\ queue' = Tail(q) /\ retried' = retried
  BY LoopChanges DEF SameShape
<1>4. Idle(sockets'[n]) /\ InLine(v, sockets'[n].writes, queue', retried')
  <2>1. CASE sockets'[n] = ss[n] /\ queue' = q /\ retried \subseteq retried'
    BY <2>1, LooserInLine
  <2>2. CASE /\ q # <<>> /\ ss[n].native = "open"
             /\ sockets'[n].writes = Append(ss[n].writes, Head(q))
             /\ queue' = Tail(q) /\ retried' = retried
    <3>1. InLine(v, Append(ss[n].writes, Head(q)), Tail(q), retried)
      BY <1>2, <2>2, SendInLine
    <3> QED  BY <1>3, <2>2, <3>1 DEF Idle
  <2> QED  BY <1>3, <2>1, <2>2
<1> QED  BY <1>1, <1>3, <1>4 DEF Ordered, socket

LEMMA OrderedStep ==
  ASSUME IInv, Truthful, Ordered, [Next]_vars, disconnects' = disconnects
  PROVE  Ordered'
<1> DEFINE w == sockets[socket]
<1>0. /\ socket \in Nat \ {0} /\ socket \in 1..socket /\ socket = Len(sockets)
      /\ \A k \in 1..socket : sockets[k] \in Wrappers
      /\ sockets \in Seq(Wrappers) /\ sockets # <<>> /\ w \in Wrappers /\ w.writes \in Seq(Requests)
      /\ queue \in Seq(Requests) /\ written \in Seq(Requests)
      /\ connectionStatus \in Status /\ accepted \in 0..MaxRequests
      /\ \A k \in 1..socket : k = socket \/ k \in 1..(socket - 1)
      /\ \A k \in 1..(socket - 1) : Over(sockets[k]) /\ k \in 1..socket /\ sockets[k].writes = <<>>
      /\ Suits(w, connectionStatus, cleanlyClosed)
      /\ Idle(w) /\ InLine(written, w.writes, queue, retried)
  <2>1. socket \in Nat \ {0} /\ socket \in 1..socket
    BY InvariantParts
  <2>2. \A k \in 1..socket : k = socket \/ k \in 1..(socket - 1)
    BY <2>1
  <2>3. \A k \in 1..(socket - 1) : k \in 1..socket
    BY <2>1
  <2>4. w \in Wrappers /\ w.writes \in Seq(Requests)
    BY <2>1, InvariantParts DEF Wrappers, WrapperType
  <2> QED  BY <2>1, <2>2, <2>3, <2>4, InvariantParts DEF TypeOK, Truthful, Ordered
<1>a. \A k \in 1..socket : sockets[k].writes # <<>> => k = socket
  BY <1>0
<1> USE DEF queueVars, reconnectVars, userVars, networkVars
<1>1. CASE Connect
  <2>1. /\ sockets' = [sockets EXCEPT ![socket] = WrapperConnect(w)] /\ Alike(w, WrapperConnect(w))
        /\ UNCHANGED <<queue, written, retried>>
    BY <1>0, <1>1, WrapperSteps DEF Connect
  <2>2. w.native = "none"
    BY <1>0, <1>1 DEF Connect, Truthful, Suits
  <2>3. Idle(WrapperConnect(w))
    BY <1>0, <2>1, <2>2 DEF Idle, Alike
  <2> QED  BY <1>0, <2>1, <2>3, OrderedEvent DEF Alike
<1>2. CASE Disconnect
  BY <1>2, InvariantParts, BoundsAssumption DEF Disconnect, TypeOK, BoundsAssumption
<1>3. CASE QueueRequest
  <2> DEFINE n == accepted + 1
             q == Append(queue, n)
  <2>1. n \in Requests /\ q \in Seq(Requests)
    <3>1. n \in Requests
      BY <1>0, <1>3, BoundsAssumption DEF QueueRequest, Requests, BoundsAssumption
    <3> QED  BY <1>0, <3>1, AppendProperties
  <2>2. \A x \in SeqSet(written) \cup SeqSet(w.writes) \cup SeqSet(queue) : x < n
    <3>1. ASSUME NEW x \in SeqSet(written) \cup SeqSet(w.writes) \cup SeqSet(queue) PROVE x < n
      <4>1. x \in Requests
        BY <1>0, InvariantParts
      <4>2. x \in 1..accepted
        BY <1>0, <3>1, <4>1 DEF IInv, AllConserved, Good, Conserved, Sent
      <4> QED  BY <1>0, <4>2
    <3> QED  BY <3>1
  <2> HIDE DEF n
  <2>3. InLine(written, w.writes, q, retried)
    BY <1>0, <2>1, <2>2, TakeInLine
  <2>4. /\ QueueLoop(sockets, q, TRUE) \/ (sockets' = sockets /\ queue' = q /\ retried' = retried)
        /\ written' = written
    BY <1>3 DEF QueueRequest, ProcessQueue, n
  <2> HIDE DEF q
  <2> QED  BY <1>0, <2>1, <2>3, <2>4, OrderedSend
<1>4. CASE Reconnect
  <2> DEFINE x == WrapperConnect(NewWrapper)
  <2>1. /\ sockets' = Append(sockets, x) /\ UNCHANGED <<queue, written, retried>>
        /\ reconnectTimer /\ (w.native = "destroyed" => w.writes = <<>>)
    BY <1>0, <1>4 DEF Reconnect
  <2>2. w.writes = <<>>
    <3>1. Over(w)
      BY <1>0, <2>1 DEF Truthful, Suits
    <3> QED  BY <1>0, <2>1, <3>1 DEF Over, Idle
  <2>3. /\ socket' = socket + 1 /\ sockets'[socket + 1] = x /\ x.writes = <<>>
        /\ \A k \in 1..socket : sockets'[k] = sockets[k]
    BY <1>0, <2>1, NewWrapperType, AppendProperties DEF socket
  <2> HIDE DEF x
  <2>4. \A k \in 1..(socket' - 1) : sockets'[k].writes = <<>>
    BY <1>0, <2>2, <2>3
  <2>5. Idle(x) /\ InLine(written, x.writes, queue, retried)
    BY <1>0, <2>2, <2>3 DEF Idle
  <2> QED  BY <2>1, <2>3, <2>4, <2>5 DEF Ordered
<1>5. ASSUME NEW k \in 1..socket, SendSucceeds(k) PROVE Ordered'
  <2> DEFINE x == SendCallback(w)
             ss == [sockets EXCEPT ![socket] = x]
             v == Append(written, Head(w.writes))
  <2>1. /\ k = socket /\ w.writes # <<>> /\ w.native \in {"open", "closing"}
        /\ written' = v /\ QueueLoop(ss, queue, FALSE)
    BY <1>5, <1>a DEF SendSucceeds
  <2>2. Head(w.writes) \in Requests
    BY <1>0, <2>1, HeadTailProperties
  <2>3. /\ x \in Wrappers /\ x.writes = Tail(w.writes) /\ x.native = w.native
        /\ v \in Seq(Requests)
    <3>1. x \in Wrappers /\ x.writes = Tail(w.writes)
      BY <1>0, <2>1, <2>2, Sends
    <3>2. x.native = w.native
      BY <1>0 DEF SendCallback, Wrappers, WrapperType
    <3>3. v \in Seq(Requests)
      BY <1>0, <2>2, AppendProperties
    <3> QED  BY <3>1, <3>2, <3>3
  <2>4. InLine(v, x.writes, queue, retried) /\ Idle(x)
    BY <1>0, <2>1, <2>3, WriteInLine DEF Idle
  <2> HIDE DEF x, v
  <2>5. /\ ss \in Seq(Wrappers) /\ Len(ss) = socket
        /\ \A j \in 1..socket : ss[j] = IF j = socket THEN x ELSE sockets[j]
    BY <1>0, <2>3, ExceptSeq
  <2>6. ss # <<>> /\ ss[Len(ss)] = x /\ \A j \in 1..(Len(ss) - 1) : ss[j].writes = <<>>
    BY <1>0, <2>5, EmptySeq
  <2> HIDE DEF ss
  <2> QED  BY <1>0, <2>1, <2>3, <2>4, <2>5, <2>6, OrderedSend
<1>6. ASSUME NEW k \in 1..socket, SendFails(k) PROVE Ordered'
  <2> DEFINE x == SendCallback(w)
             r == Head(w.writes)
  <2>1. /\ k = socket /\ w.writes # <<>> /\ w.native = "destroyed"
        /\ sockets' = [sockets EXCEPT ![socket] = x]
        /\ queue' = <<r>> \o queue /\ retried' = retried \cup {r} /\ written' = written
    BY <1>6, <1>a DEF SendFails
  <2>2. r \in Requests
    BY <1>0, <2>1, HeadTailProperties
  <2>3. x \in Wrappers /\ x.writes = Tail(w.writes)
    BY <1>0, <2>1, <2>2, Sends
  <2>4. x.native = w.native
    BY <1>0 DEF SendCallback, Wrappers, WrapperType
  <2>5. InLine(written, Tail(w.writes), <<r>> \o queue, retried \cup {r})
    BY <1>0, <2>1, RetryInLine
  <2>6. Idle(x)
    BY <2>1, <2>4 DEF Idle
  <2> HIDE DEF x, r, w
  <2>7. InLine(written', x.writes, queue', retried')
    BY <2>1, <2>3, <2>5
  <2>8. socket' = socket /\ \A j \in 1..socket : sockets'[j] = IF j = socket THEN x ELSE sockets[j]
    <3>1. socket \in 1..socket /\ sockets' = [sockets EXCEPT ![socket] = x]
      BY <1>0, <2>1
    <3> QED  BY <2>3, <3>1, Replaced
  <2>9. ASSUME NEW j \in 1..(socket - 1) PROVE sockets'[j].writes = <<>>
    <3>1. j \in 1..socket /\ j # socket /\ sockets[j].writes = <<>>
      BY <1>0
    <3> QED  BY <2>8, <3>1
  <2>10. sockets'[socket] = x
    BY <1>0, <2>8
  <2> QED  BY <2>6, <2>7, <2>8, <2>9, <2>10 DEF Ordered
<1>7. ASSUME NEW k \in 1..socket, Open(k) PROVE Ordered'
  <2> DEFINE x == OnOpen(w)
             ss == [sockets EXCEPT ![socket] = x]
  <2>1. k = socket /\ w.native = "connecting" /\ w.wired
    BY <1>0, <1>7 DEF Open, Over, Suits, Status
  <2>2. /\ QueueLoop(ss, queue, TRUE) \/ (sockets' = ss /\ queue' = queue /\ retried' = retried)
        /\ written' = written
    BY <1>7, <2>1 DEF Open, ProcessQueue
  <2>3. x \in Wrappers /\ x.writes = w.writes /\ Idle(x)
    BY <1>0, <2>1, WrapperSteps DEF Alike, Idle
  <2> HIDE DEF x
  <2>4. /\ ss \in Seq(Wrappers) /\ Len(ss) = socket
        /\ \A j \in 1..socket : ss[j] = IF j = socket THEN x ELSE sockets[j]
    BY <1>0, <2>3, ExceptSeq
  <2>5. ss # <<>> /\ ss[Len(ss)] = x /\ \A j \in 1..(Len(ss) - 1) : ss[j].writes = <<>>
    BY <1>0, <2>4, EmptySeq
  <2> HIDE DEF ss
  <2> QED  BY <1>0, <2>2, <2>3, <2>4, <2>5, OrderedSend
<1>8. ASSUME NEW k \in 1..socket, Error(k) PROVE Ordered'
  <2>1. /\ sockets' = [sockets EXCEPT ![k] = OnError(sockets[k])]
        /\ Alike(sockets[k], OnError(sockets[k])) /\ UNCHANGED <<queue, written, retried>>
    BY <1>0, <1>8, WrapperSteps DEF Error
  <2>2. Idle(OnError(sockets[k]))
    BY <1>0 DEF Idle, OnError, Wrappers, WrapperType
  <2> QED  BY <2>1, <2>2, OrderedEvent DEF Alike
<1>9. ASSUME NEW k \in 1..socket, Drop(k) PROVE Ordered'
  <2>1. /\ sockets' = [sockets EXCEPT ![k] = [sockets[k] EXCEPT !.native = "destroyed"]]
        /\ Alike(sockets[k], [sockets[k] EXCEPT !.native = "destroyed"])
        /\ UNCHANGED <<queue, written, retried>>
    BY <1>0, <1>9, WrapperSteps DEF Drop, ReadyState
  <2>2. Idle([sockets[k] EXCEPT !.native = "destroyed"])
    BY <1>0 DEF Idle, Wrappers, WrapperType
  <2> QED  BY <2>1, <2>2, OrderedEvent DEF Alike
<1>10. ASSUME NEW k \in 1..socket, ServerCloses(k) PROVE Ordered'
  <2>1. /\ sockets' = [sockets EXCEPT ![k] = [sockets[k] EXCEPT !.native = "closing"]]
        /\ Alike(sockets[k], [sockets[k] EXCEPT !.native = "closing"])
        /\ UNCHANGED <<queue, written, retried>>
    BY <1>0, <1>10, WrapperSteps DEF ServerCloses, ReadyState
  <2>2. Idle([sockets[k] EXCEPT !.native = "closing"])
    BY <1>0 DEF Idle, Wrappers, WrapperType
  <2> QED  BY <2>1, <2>2, OrderedEvent DEF Alike
<1>11. ASSUME NEW k \in 1..socket, Close(k) PROVE Ordered'
  <2>1. /\ sockets' = [sockets EXCEPT ![k] = OnClose(sockets[k])] /\ sockets[k].writes = <<>>
        /\ Alike(sockets[k], OnClose(sockets[k])) /\ UNCHANGED <<queue, written, retried>>
    BY <1>0, <1>11, WrapperSteps DEF Close
  <2> QED  BY <2>1, OrderedEvent DEF Alike, Idle
<1>12. ASSUME NEW k \in 1..socket, TimesOut(k) PROVE Ordered'
  <2>1. k = socket /\ w.native = "connecting"
    BY <1>0, <1>12 DEF TimesOut, Over, Suits, Status
  <2>2. /\ sockets' = [sockets EXCEPT ![k] = OnTimeout(w)]
        /\ Alike(w, OnTimeout(w)) /\ UNCHANGED <<queue, written, retried>>
    BY <1>0, <1>12, <2>1, WrapperSteps DEF TimesOut
  <2>3. Idle(OnTimeout(w))
    BY <1>0, <2>1, <2>2 DEF Idle, Alike
  <2> QED  BY <2>1, <2>2, <2>3, OrderedEvent DEF Alike
<1>13. CASE UNCHANGED vars
  BY <1>13 DEF vars, Ordered, socket
<1> QED
  BY <1>1, <1>2, <1>3, <1>4, <1>5, <1>6, <1>7, <1>8, <1>9, <1>10, <1>11, <1>12, <1>13
     DEF Next, User, Network, Runtime

(* Before the first disconnect() the status is true and the requests in line. *)
Undisturbed == disconnects = 0 => Truthful /\ Ordered

LEMMA UndisturbedInit == Init => Undisturbed
<1> SUFFICES ASSUME Init PROVE Truthful /\ Ordered
  BY DEF Undisturbed
<1>1. socket = 1 /\ sockets[1] = NewWrapper /\ queue = <<>> /\ written = <<>>
  BY DEF Init, socket
<1>2. InLine(<<>>, <<>>, <<>>, retried)
  BY DEF InLine, Increasing, Precedes, SeqSet
<1>3. Ordered
  BY <1>1, <1>2, NewWrapperType DEF Ordered, Idle
<1>4. Truthful
  BY <1>1 DEF Init, Truthful, Suits, NewWrapper
<1> QED  BY <1>3, <1>4

LEMMA UndisturbedNext == IInv /\ Undisturbed /\ [Next]_vars => Undisturbed'
<1> SUFFICES ASSUME IInv, Undisturbed, [Next]_vars, disconnects' = 0
             PROVE  Truthful' /\ Ordered'
  BY DEF Undisturbed
<1>1. disconnects' = disconnects \/ disconnects' = disconnects + 1
  BY DEF Next, User, Network, Runtime, vars, userVars, Connect, Disconnect, QueueRequest, Reconnect,
         SendSucceeds, SendFails, Open, Error, Drop, ServerCloses, Close, TimesOut
<1>2. disconnects' = disconnects
  BY <1>1, BoundsAssumption DEF IInv, Flags, BoundsAssumption
<1> QED  BY <1>2, TruthfulStep, OrderedStep DEF Undisturbed

LEMMA StaysUndisturbed == Spec => []Undisturbed
<1> QED  BY UndisturbedInit, UndisturbedNext, Invariance, PTL DEF Spec

(* The status tells the truth about this.socket until the application         *)
(* disconnects.                                                               *)
THEOREM StatusIsTrue == Spec => []StatusMatchesSocket
<1>1. Undisturbed => StatusMatchesSocket
  BY DEF Undisturbed, Truthful, Suits, Over, StatusMatchesSocket
<1> QED  BY <1>1, StaysUndisturbed, PTL

(* Until the application disconnects there is one live connection at most.    *)
THEOREM OneConnection == Spec => []OneLiveConnection
<1>1. IInv /\ Undisturbed => OneLiveConnection
  <2> SUFFICES ASSUME IInv, Truthful, NEW s \in 1..socket, NEW t \in 1..socket,
                      {sockets[s].native, sockets[t].native} \subseteq {"connecting", "open"}
               PROVE  s = t
    BY DEF Undisturbed, OneLiveConnection
  <2>1. s \notin 1..(socket - 1) /\ t \notin 1..(socket - 1)
    BY DEF Truthful, Over
  <2> QED  BY <2>1, InvariantParts
<1> QED  BY <1>1, Invariance, StaysUndisturbed, PTL

(* Requests that no failed send put back are written in the order in which    *)
(* they were queued, until the application disconnects.                       *)
THEOREM FreshInOrder == Spec => []FreshRequestsInOrder
<1>1. Undisturbed => FreshRequestsInOrder
  BY DEF Undisturbed, Ordered, InLine, Increasing, Before, FreshRequestsInOrder
<1> QED  BY <1>1, StaysUndisturbed, PTL
=============================================================================

------------------------- MODULE ReconnectingSocket -------------------------
(* ReconnectingSocket on top of QueueingStreamingSocket (packages/socket).   *)
(*                                                                           *)
(* The application calls connect, disconnect and queueRequest; the network   *)
(* opens, drops and closes native sockets; timers start reconnects.  One     *)
(* action is one turn of the JavaScript event loop: a handler with every     *)
(* promise reaction that runs before the next event.  processQueue is split  *)
(* where it awaits the callback of a native send.                            *)
EXTENDS SocketWrapper

CONSTANTS
  MaxRequests,      \* bound: requests the application queues
  MaxFaults,        \* bound: network faults and closes by the server
  MaxDisconnects,   \* bound: calls of disconnect()
  CleanCloses       \* may the server close a connection with a closing handshake?

ASSUME BoundsAssumption ==
  MaxRequests \in Nat /\ MaxFaults \in Nat /\ MaxDisconnects \in Nat
ASSUME FlagsAssumption == CleanCloses \in BOOLEAN

VARIABLES
  \* QueueingStreamingSocket
  sockets,            \* every StreamingSocket created; the last one is this.socket
  connectionStatus,
  queue,
  isProcessingQueue,
  \* ReconnectingSocket
  unconnected, disconnected, timeoutIndex,
  reconnectTimer,     \* reconnectTimeout is armed
  \* history and environment
  accepted,           \* number of requests queueRequest has taken; they are 1..accepted
  written,            \* requests handed to a native socket, in the order of the callbacks
  retried,            \* requests that went back to the queue after a failed send
  faults, disconnects,
  cleanlyClosed,      \* the server has closed a connection with a closing handshake
  crashed             \* the process has ended

queueVars     == <<queue, isProcessingQueue, retried>>
reconnectVars == <<connectionStatus, timeoutIndex, reconnectTimer>>
userVars      == <<unconnected, disconnected, accepted, disconnects>>
networkVars   == <<faults, cleanlyClosed, crashed>>
vars == <<sockets, queueVars, reconnectVars, userVars, written, networkVars>>

Status   == {"Unconnected", "Connecting", "Connected", "Disconnected"}
Requests == 1..MaxRequests
socket   == Len(sockets)       \* index of this.socket

Init ==
  /\ sockets = <<NewWrapper>>
  /\ connectionStatus = "Unconnected"
  /\ queue = <<>> /\ isProcessingQueue = FALSE
  /\ unconnected = TRUE /\ disconnected = FALSE
  /\ timeoutIndex = 0 /\ reconnectTimer = FALSE
  /\ accepted = 0 /\ written = <<>> /\ retried = {}
  /\ faults = 0 /\ disconnects = 0 /\ cleanlyClosed = FALSE /\ crashed = FALSE
-----------------------------------------------------------------------------
(* The status listener of ReconnectingSocket runs inside update().           *)

UpdateConnecting ==
  connectionStatus' = "Connecting" /\ UNCHANGED <<timeoutIndex, reconnectTimer>>

UpdateConnected ==
  connectionStatus' = "Connected" /\ timeoutIndex' = 0 /\ UNCHANGED reconnectTimer

\* Faulty: no reconnect is scheduled.
UpdateDisconnectedNoTimer(times) ==
  /\ connectionStatus' = "Disconnected"
  /\ timeoutIndex' = timeoutIndex + times
  /\ UNCHANGED reconnectTimer

\* Faulty: the back-off counts down.
UpdateDisconnectedCountDown(times) ==
  /\ connectionStatus' = "Disconnected"
  /\ reconnectTimer' = TRUE
  /\ timeoutIndex' = timeoutIndex - times

\* times consecutive updates to Disconnected; each one re-arms the single timer
UpdateDisconnected(times) ==
  /\ connectionStatus' = "Disconnected"
  /\ reconnectTimer' = TRUE
  /\ timeoutIndex' = timeoutIndex + times

\* Faulty: takes the youngest request.
QueueLoopPop(ss, q, busy) ==
  /\ isProcessingQueue' = (busy /\ (q = <<>> \/ CanSend(ss[Len(ss)])))
  /\ IF q # <<>> /\ CanSend(ss[Len(ss)])
     THEN /\ sockets' = [ss EXCEPT ![Len(ss)] = WrapperSend(@, q[Len(q)])]
          /\ queue' = SubSeq(q, 1, Len(q) - 1)
          /\ UNCHANGED retried
     ELSE /\ sockets' = ss /\ queue' = q
          /\ retried' = IF q = <<>> THEN retried ELSE retried \cup {q[Len(q)]}

(* processQueue, from the head of its loop to the next await.  ss: the       *)
(* sockets when it runs, q: the queue, busy: isProcessingQueue.              *)
QueueLoop(ss, q, busy) ==
  \/ /\ q = <<>>
     /\ sockets' = ss /\ queue' = q
     /\ isProcessingQueue' = busy
     /\ UNCHANGED retried
  \/ /\ q # <<>> /\ CanSend(ss[Len(ss)])
     /\ sockets' = [ss EXCEPT ![Len(ss)] = WrapperSend(@, Head(q))]
     /\ queue' = Tail(q)
     /\ isProcessingQueue' = busy
     /\ UNCHANGED retried
  \/ /\ q # <<>> /\ ~CanSend(ss[Len(ss)])     \* send() rejects at once
     /\ sockets' = ss /\ queue' = q
     /\ isProcessingQueue' = FALSE
     /\ retried' = retried \cup {Head(q)}

ProcessQueue(ss, q, status) ==
  IF isProcessingQueue \/ status # "Connected"
  THEN sockets' = ss /\ queue' = q /\ UNCHANGED <<isProcessingQueue, retried>>
  ELSE QueueLoop(ss, q, TRUE)
-----------------------------------------------------------------------------
(* Calls of the application.                                                 *)

Connect ==
  /\ unconnected
  /\ unconnected' = FALSE
  /\ UpdateConnecting
  /\ sockets' = [sockets EXCEPT ![socket] = WrapperConnect(@)]
  /\ UNCHANGED <<queueVars, disconnected, accepted, disconnects, written, networkVars>>

(* The status is updated first.  Without a native socket (its connection     *)
(* attempt timed out) the call throws after that update and before           *)
(* disconnected is set.                                                      *)
Disconnect ==
  LET w == sockets[socket] IN
  /\ ~unconnected /\ disconnects < MaxDisconnects
  /\ disconnects' = disconnects + 1
  /\ IF w.held
     THEN /\ UpdateDisconnected(IF w.native = "connecting" /\ w.listening THEN 2 ELSE 1)
          /\ sockets' = [sockets EXCEPT ![socket] = WrapperDisconnect(@)]
          /\ disconnected' = TRUE
     ELSE /\ UpdateDisconnected(1)
          /\ UNCHANGED <<sockets, disconnected>>
  /\ UNCHANGED <<queueVars, unconnected, accepted, written, networkVars>>

QueueRequest ==
  /\ ~disconnected /\ accepted < MaxRequests
  /\ accepted' = accepted + 1
  /\ ProcessQueue(sockets, Append(queue, accepted + 1), connectionStatus)
  /\ UNCHANGED <<reconnectVars, unconnected, disconnected, disconnects, written, networkVars>>
-----------------------------------------------------------------------------
(* The reconnect timer, 100 ms or more after it was armed: the callbacks of  *)
(* a destroyed socket's writes have run by then.                             *)
Reconnect ==
  /\ reconnectTimer
  /\ \A s \in 1..socket : sockets[s].native = "destroyed" => sockets[s].writes = <<>>
  /\ reconnectTimer' = FALSE
  /\ connectionStatus' = "Connecting"
  /\ sockets' = Append(sockets, WrapperConnect(NewWrapper))
  /\ UNCHANGED <<queueVars, timeoutIndex, userVars, written, networkVars>>

(* The callback of the oldest outstanding send of socket s, and processQueue *)
(* up to its next await.                                                     *)
SendSucceeds(s) ==
  /\ sockets[s].writes # <<>> /\ sockets[s].native \in {"open", "closing"}
  /\ written' = Append(written, Head(sockets[s].writes))
  /\ QueueLoop([sockets EXCEPT ![s] = SendCallback(@)], queue, FALSE)
  /\ UNCHANGED <<reconnectVars, userVars, networkVars>>

\* Faulty: the request of a failed send is dropped.
SendFailsLost(s) ==
  /\ sockets[s].writes # <<>> /\ sockets[s].native = "destroyed"
  /\ sockets' = [sockets EXCEPT ![s] = SendCallback(@)]
  /\ isProcessingQueue' = FALSE
  /\ UNCHANGED <<queue, retried, reconnectVars, userVars, written, networkVars>>

\* Faulty: isProcessingQueue is not reset.
SendFailsBusy(s) ==
  LET r == Head(sockets[s].writes) IN
  /\ sockets[s].writes # <<>> /\ sockets[s].native = "destroyed"
  /\ sockets' = [sockets EXCEPT ![s] = SendCallback(@)]
  /\ queue' = <<r>> \o queue
  /\ retried' = retried \cup {r}
  /\ UNCHANGED <<isProcessingQueue, reconnectVars, userVars, written, networkVars>>

SendFails(s) ==
  LET r == Head(sockets[s].writes) IN
  /\ sockets[s].writes # <<>> /\ sockets[s].native = "destroyed"
  /\ sockets' = [sockets EXCEPT ![s] = SendCallback(@)]
  /\ queue' = <<r>> \o queue
  /\ isProcessingQueue' = FALSE
  /\ retried' = retried \cup {r}
  /\ UNCHANGED <<reconnectVars, userVars, written, networkVars>>
-----------------------------------------------------------------------------
(* The network and the server.                                               *)

Open(s) ==
  LET opened == [sockets EXCEPT ![s] = OnOpen(@)] IN
  /\ sockets[s].native = "connecting"
  /\ IF sockets[s].wired
     THEN UpdateConnected /\ ProcessQueue(opened, queue, "Connected")
     ELSE sockets' = opened /\ UNCHANGED <<queueVars, reconnectVars>>
  /\ UNCHANGED <<userVars, written, networkVars>>

\* What the owner does with the end of the event stream of w: errors only.
StreamEnds(w, clean) ==
  IF ReportsError(w) /\ ~clean THEN UpdateDisconnected(1) ELSE UNCHANGED reconnectVars

\* Connection refused, or a protocol error on an open connection.
Error(s) ==
  /\ sockets[s].native \in {"connecting", "open"} /\ faults < MaxFaults
  /\ faults' = faults + 1
  /\ sockets' = [sockets EXCEPT ![s] = OnError(@)]
  /\ StreamEnds(sockets[s], FALSE)
  /\ UNCHANGED <<queueVars, userVars, written, cleanlyClosed, crashed>>

\* The TCP connection breaks; data in the kernel's buffers is lost.
Drop(s) ==
  /\ sockets[s].native \in {"open", "closing"} /\ faults < MaxFaults
  /\ faults' = faults + 1
  /\ sockets' = [sockets EXCEPT ![s].native = "destroyed"]
  /\ UNCHANGED <<queueVars, reconnectVars, userVars, written, cleanlyClosed, crashed>>

\* The server starts the closing handshake.
ServerCloses(s) ==
  /\ CleanCloses /\ sockets[s].native = "open" /\ faults < MaxFaults
  /\ faults' = faults + 1
  /\ cleanlyClosed' = TRUE
  /\ sockets' = [sockets EXCEPT ![s].native = "closing"]
  /\ UNCHANGED <<queueVars, reconnectVars, userVars, written, crashed>>

\* The close event comes when the callbacks of all writes have run.
Close(s) ==
  /\ sockets[s].native \in {"closing", "destroyed"} /\ sockets[s].writes = <<>>
  /\ sockets' = [sockets EXCEPT ![s] = OnClose(@)]
  /\ StreamEnds(sockets[s], sockets[s].native = "closing")
  /\ UNCHANGED <<queueVars, userVars, written, networkVars>>

(* The connection attempt times out.  connect() handles the rejection of the *)
(* connected promise; the reaction that reconnect() adds has no handler, and *)
(* an unhandled rejection ends the process under Node.js >= 15.              *)
TimesOut(s) ==
  /\ sockets[s].timer /\ faults < MaxFaults
  /\ faults' = faults + 1
  /\ sockets' = [sockets EXCEPT ![s] = OnTimeout(@)]
  /\ UpdateDisconnected(1)
  /\ UNCHANGED crashed \/ (s > 1 /\ crashed' = TRUE)
  /\ UNCHANGED <<queueVars, userVars, written, cleanlyClosed>>
-----------------------------------------------------------------------------
User == Connect \/ Disconnect \/ QueueRequest

Network ==
  \E s \in 1..socket :
    Open(s) \/ Error(s) \/ Drop(s) \/ ServerCloses(s) \/ Close(s) \/ TimesOut(s)

Runtime == Reconnect \/ \E s \in 1..socket : SendSucceeds(s) \/ SendFails(s)

Next == ~crashed /\ (User \/ Network \/ Runtime)

Spec == Init /\ [][Next]_vars

(* Fairness: the application connects, timers fire, callbacks and close      *)
(* events arrive, and a connection attempt that meets no fault succeeds.     *)
(* Faults themselves, disconnect() and queueRequest() are never forced.      *)
Progress ==
  \E s \in 1..socket : SendSucceeds(s) \/ SendFails(s)

Fairness ==
  /\ WF_vars(~crashed /\ Connect)
  /\ WF_vars(~crashed /\ Reconnect)
  /\ WF_vars(~crashed /\ Progress)
  /\ WF_vars(~crashed /\ \E s \in 1..socket : Close(s))
  /\ WF_vars(~crashed /\ \E s \in 1..socket : Open(s))

FairSpec == Spec /\ Fairness
-----------------------------------------------------------------------------
(* Type invariant of the socket stack.                                       *)
TypeOK ==
  /\ sockets \in Seq(WrapperType(Requests)) /\ sockets # <<>>
  /\ connectionStatus \in Status
  /\ queue \in Seq(Requests)
  /\ isProcessingQueue \in BOOLEAN
  /\ unconnected \in BOOLEAN /\ disconnected \in BOOLEAN
  /\ timeoutIndex \in Nat /\ reconnectTimer \in BOOLEAN
  /\ accepted \in 0..MaxRequests /\ written \in Seq(Requests)
  /\ retried \subseteq Requests
  /\ faults \in 0..MaxFaults /\ disconnects \in 0..MaxDisconnects
  /\ cleanlyClosed \in BOOLEAN /\ crashed \in BOOLEAN

SeqSet(s) == {s[i] : i \in DOMAIN s}
InFlight == UNION {SeqSet(sockets[s].writes) : s \in 1..socket}
NoRepeats(s) == \A i, j \in DOMAIN s : s[i] = s[j] => i = j
-----------------------------------------------------------------------------
(* No request is lost or duplicated between queueRequest and the native      *)
(* sockets: it is in the queue, in one outstanding send, or written, in one  *)
(* place only, however shift, unshift and the overlapping runs of            *)
(* processQueue interleave with failures and reconnects.                     *)
RequestsConserved ==
  /\ NoRepeats(queue) /\ NoRepeats(written)
  /\ \A s \in 1..socket : NoRepeats(sockets[s].writes)
  /\ \A s, t \in 1..socket :
       s # t => SeqSet(sockets[s].writes) \cap SeqSet(sockets[t].writes) = {}
  /\ SeqSet(queue) \cap InFlight = {}
  /\ SeqSet(queue) \cap SeqSet(written) = {}
  /\ InFlight \cap SeqSet(written) = {}
  /\ SeqSet(queue) \cup InFlight \cup SeqSet(written) = 1..accepted

(* Until disconnect() is called, requests that no failed send put back are   *)
(* written in the order in which they were queued, across reconnects and     *)
(* overlapping runs of processQueue.  (Those put back may change places.)    *)
FreshRequestsInOrder ==
  disconnects = 0 =>
    \A i, j \in DOMAIN written :
      i < j /\ {written[i], written[j]} \cap retried = {} => written[i] < written[j]

(* The stack implements Outbox: behind all its sockets, timers and retries   *)
(* it is a queue that hands over every request at most once and forgets none.*)
Abstract == INSTANCE Outbox WITH
  Capacity <- MaxRequests,
  waiting <- SeqSet(queue) \cup InFlight,
  handedOver <- SeqSet(written)
ImplementsOutbox == Abstract!Spec

(* As long as the application does not disconnect, the socket never holds    *)
(* two live connections: each reconnect follows the loss of the one before.  *)
OneLiveConnection ==
  disconnects = 0 =>
    \A s, t \in 1..socket :
      {sockets[s].native, sockets[t].native} \subseteq {"connecting", "open"} => s = t

(* Status Disconnected is never a dead end: a reconnect attempt is always    *)
(* scheduled, whatever failed and however often the timer was re-armed.      *)
DisconnectedHasTimer == connectionStatus = "Disconnected" => reconnectTimer

(* The status tells the truth about this.socket until the application        *)
(* disconnects: no timer runs over a connecting or connected socket, and     *)
(* Connected means that the socket opened and no loss was reported since.    *)
StatusMatchesSocket ==
  disconnects = 0 =>
    LET w == sockets[socket] IN
    /\ connectionStatus = "Connecting" => w.native = "connecting" /\ w.timer
    /\ connectionStatus = "Connected" =>
         w.connected = "resolved" /\ (w.listening \/ cleanlyClosed)
    /\ connectionStatus = "Disconnected" => w.native \in {"destroyed", "closed"}
    /\ reconnectTimer => connectionStatus = "Disconnected"

(* Told to connect, the socket is connected again and again as long as       *)
(* faults end, whatever failed before: refused and timed out attempts,       *)
(* broken connections.  Not after disconnect(), not after the server closed  *)
(* a connection cleanly, which ReconnectingSocket takes for an end, and not  *)
(* where a reconnect attempt that timed out has ended the process.           *)
EventuallyConnected ==
  (~unconnected) ~>
    \/ connectionStatus = "Connected" /\ sockets[socket].native = "open"
    \/ disconnects > 0 \/ cleanlyClosed \/ crashed

(* A request queued before connect() is written in the end, through failed   *)
(* sends, connection timeouts and reconnects.                                *)
PrequeuedIsWritten ==
  (unconnected /\ 1 \in SeqSet(queue)) ~>
    (1 \in SeqSet(written) \/ disconnects > 0 \/ cleanlyClosed \/ crashed)

(* Every queued request is sent: "execute() queues requests automatically"   *)
(* (websocketclient.ts:199), before and after the connection is up.          *)
QueuedIsWritten == \A r \in Requests : (r \in SeqSet(queue)) ~> (r \in SeqSet(written))

(* A disconnected socket never connects again, as the test "cannot connect   *)
(* after being disconnected" has it (reconnectingsocket.spec.ts:69).         *)
NoConnectAfterDisconnect == [][disconnected => socket' = socket]_vars
=============================================================================

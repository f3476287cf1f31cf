--------------------------- MODULE SocketWrapper ---------------------------
(* One StreamingSocket with the SocketWrapper and the native WebSocket it    *)
(* owns (packages/socket/src/socketwrapper.ts, streamingsocket.ts), as a     *)
(* record and the operators that the calls and events of the code apply to   *)
(* it.  JavaScript runs each handler to completion, so an operator is one    *)
(* handler; ReconnectingSocket decides when a handler runs.                  *)
EXTENDS Naturals, Sequences

(* readyState of the native WebSocket.  "none": connect() has not created it *)
(* yet.  CLOSING is split in two: in "closing" a closing handshake runs and  *)
(* buffered data still goes out, in "destroyed" the TCP connection is gone   *)
(* and only the close event is left to come.                                 *)
ReadyState == {"none", "connecting", "open", "closing", "destroyed", "closed"}

WrapperType(Request) ==
  [ native    : ReadyState,
    held      : BOOLEAN,      \* this.socket is not undefined
    wired     : BOOLEAN,      \* the four handlers have not been replaced by no-ops
    timer     : BOOLEAN,      \* the connection timeout is armed
    closed    : BOOLEAN,      \* this.closed
    connected : {"pending", "resolved", "rejected"},   \* the connected promise
    listening : BOOLEAN,      \* eventProducerListener: the stream has not ended
    writes    : Seq(Request) ]   \* send() calls whose callback is outstanding

\* new StreamingSocket(url, timeout), subscribed to by its owner at once
NewWrapper ==
  [ native |-> "none", held |-> FALSE, wired |-> FALSE, timer |-> FALSE,
    closed |-> FALSE, connected |-> "pending", listening |-> TRUE,
    writes |-> <<>> ]

WrapperConnect(w) ==
  [w EXCEPT !.native = "connecting", !.held = TRUE, !.wired = TRUE, !.timer = TRUE]

OnOpen(w) ==
  IF w.wired THEN [w EXCEPT !.native = "open", !.timer = FALSE, !.connected = "resolved"]
             ELSE [w EXCEPT !.native = "open"]

(* An error event, always followed by the close event.  The event stream     *)
(* ends with it: xstream stops the producer before it tells the listeners.   *)
OnError(w) ==
  IF w.wired THEN [w EXCEPT !.native = "destroyed", !.timer = FALSE, !.listening = FALSE]
             ELSE [w EXCEPT !.native = "destroyed"]

\* The close event, clean or not, ends the event stream if it has not ended.
OnClose(w) ==
  IF w.wired THEN [w EXCEPT !.native = "closed", !.closed = TRUE, !.listening = FALSE]
             ELSE [w EXCEPT !.native = "closed"]

OnTimeout(w) ==
  [w EXCEPT !.native = "closed", !.wired = FALSE, !.timer = FALSE, !.held = FALSE,
            !.connected = IF @ = "pending" THEN "rejected" ELSE @]

(* disconnect() on a wrapper that holds a socket: an open one starts the     *)
(* closing handshake, a connecting one is abandoned (its native socket goes  *)
(* on connecting) after an imitated unclean close event.                     *)
WrapperDisconnect(w) ==
  LET idle == [w EXCEPT !.timer = FALSE] IN
  IF w.native = "open" THEN [idle EXCEPT !.native = "closing"]
  ELSE IF w.native = "connecting" THEN [idle EXCEPT !.wired = FALSE, !.held = FALSE, !.listening = FALSE]
  ELSE idle

\* Faulty: an event stream that has ended still reports errors.
ReportsErrorAfterEnd(w) == w.wired

\* Does an error or unclean close of w reach the owner as an error of its stream?
ReportsError(w) == w.wired /\ w.listening

\* send() hands the data to the native socket; otherwise it rejects at once.
CanSend(w) == w.held /\ ~w.closed /\ w.native = "open"

WrapperSend(w, r) == [w EXCEPT !.writes = Append(@, r)]

\* The callback of the oldest outstanding native send has run.
SendCallback(w) == [w EXCEPT !.writes = Tail(@)]
=============================================================================

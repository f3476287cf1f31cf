------------------------- MODULE MCWebsocketClient -------------------------
(* Small instances of WebsocketClient.                                       *)
EXTENDS WebsocketClient

Limit(c, s, e, f) == [calls |-> c, starts |-> s, events |-> e, faults |-> f]

\* Two calls at once; a call beside a stream that is restarted; two faults.
MCLimits == {Limit(2, 0, 0, 2), Limit(2, 1, 1, 1), Limit(1, 1, 2, 1), Limit(0, 2, 2, 1), Limit(1, 2, 1, 0)}
=============================================================================

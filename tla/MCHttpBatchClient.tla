-------------------------- MODULE MCHttpBatchClient --------------------------
(* Small instances of HttpBatchClient.                                       *)
EXTENDS HttpBatchClient, TLC

CONSTANTS c1, c2, c3, c4

\* Every call has an id of its own; one more id belongs to no call.
MCIdOf == [c \in Calls |-> CASE c = c1 -> 1 [] c = c2 -> 2 [] c = c3 -> 3 [] OTHER -> 4]
MCIds == {MCIdOf[c] : c \in Calls} \cup {0}
=============================================================================

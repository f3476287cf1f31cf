------------------------------- MODULE Outbox -------------------------------
(* What a request queue promises: it takes requests in order 1, 2, ... and   *)
(* hands each of them over at most once; a request is never forgotten while  *)
(* it waits and never comes back once it is handed over.                     *)
EXTENDS Naturals

CONSTANT Capacity   \* bound: how many requests the queue may take in all

VARIABLES waiting, handedOver   \* sets of requests
vars == <<waiting, handedOver>>

Init == waiting = {} /\ handedOver = {}

\* Take the request that follows all earlier ones.
Accept(r) ==
  /\ r \in 1..Capacity
  /\ waiting \cup handedOver = 1..(r - 1)
  /\ waiting' = waiting \cup {r}
  /\ UNCHANGED handedOver

HandOver(r) ==
  /\ r \in waiting
  /\ waiting' = waiting \ {r}
  /\ handedOver' = handedOver \cup {r}

Next == \E r \in 1..Capacity : Accept(r) \/ HandOver(r)

Spec == Init /\ [][Next]_vars
=============================================================================

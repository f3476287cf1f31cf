---------------------------- MODULE StreamConcat ----------------------------
(* concat() of packages/stream/src/concat.ts: one stream out of several, the *)
(* events of later sources buffered until the earlier ones have completed.   *)
(* A source may emit, complete or fail while start() subscribes to it, the   *)
(* others once all are subscribed.  Its events are numbered as it emits them *)
(* (none is undefined, which would end emitAllQueuesEvents early).  xstream  *)
(* calls start() for the first listener with the stream itself, so that what *)
(* handlers of an earlier start() pass on reaches whoever listens now; after *)
(* an error it stops the producer and drops its listeners, then tells them.  *)
EXTENDS Naturals, Sequences

CONSTANTS
  Length,     \* number of sources
  MaxEvents   \* bound: events of one source

Sources == 1..Length

VARIABLES
  phase,       \* of the producer: idle, on, done, failed or cut
  subscribed,  \* how far the last start() has come
  subscriptions,     \* how many live handlers each source has
  queues, completedStreams, activeStreamIndex,
  flushing,    \* complete handlers of the source that has completed, still to run
  crashed,     \* a handler threw, which nothing catches: the program ends
  leftOver,    \* history: a source failed in start(), before the last was subscribed
  count,       \* events that each source has emitted to this listener
  ended,       \* sources that completed
  out          \* what the listener got: pairs of source and number

internal == <<subscribed, subscriptions, queues, completedStreams, activeStreamIndex, flushing, crashed, leftOver>>
vars == <<phase, internal, count, ended, out>>

Nothing == [i \in Sources |-> 0]

Init ==
  /\ phase = "idle" /\ subscribed = Length /\ subscriptions = Nothing /\ queues = <<>>
  /\ completedStreams = {} /\ activeStreamIndex = 1 /\ flushing = 0
  /\ crashed = FALSE /\ leftOver = FALSE
  /\ count = Nothing /\ ended = {} /\ out = <<>>

reset == subscriptions' = Nothing /\ queues' = <<>> /\ completedStreams' = {} /\ activeStreamIndex' = 1

\* A listener comes while no handler is at work: the first one, or after the
\* last has left, was through or was told of a failure.  It finds what reset()
\* has not taken away.
Start ==
  /\ phase \in {"idle", "done", "failed"} /\ subscribed = Length /\ ~crashed
  /\ phase' = IF Length = 0 THEN "done" ELSE "on"
  /\ subscribed' = 0
  /\ queues' = queues \o [i \in Sources |-> <<>>]
  /\ leftOver' = (leftOver /\ phase = "failed")
  /\ count' = Nothing /\ ended' = {} /\ out' = <<>>
  /\ UNCHANGED <<subscriptions, completedStreams, activeStreamIndex, flushing, crashed>>

\* streams.forEach goes on even when the producer has failed meanwhile.
Subscribe ==
  /\ phase \in {"on", "failed", "cut"} /\ subscribed < Length /\ flushing = 0 /\ ~crashed
  /\ subscribed' = subscribed + 1
  /\ subscriptions' = [subscriptions EXCEPT ![subscribed + 1] = @ + 1]
  /\ UNCHANGED <<phase, queues, completedStreams, activeStreamIndex, flushing, crashed, leftOver,
                 count, ended, out>>

\* While start() runs, only the source that it subscribes to; xstream starts
\* a source with its first handler, not with a second one.
MayCall(i) ==
  /\ subscriptions[i] > 0 /\ flushing = 0 /\ ~crashed
  /\ subscribed < Length => i = subscribed /\ subscriptions[i] = 1

\* next, of each of the handlers
Emit(i) ==
  LET events == [n \in 1..subscriptions[i] |-> <<i, count[i] + 1>>] IN
  /\ MayCall(i) /\ count[i] < MaxEvents
  /\ count' = [count EXCEPT ![i] = @ + 1]
  /\ \/ /\ i = activeStreamIndex
        /\ out' = out \o events
        /\ UNCHANGED <<queues, crashed>>
     \/ /\ i # activeStreamIndex /\ i \in DOMAIN queues
        /\ queues' = [queues EXCEPT ![i] = @ \o events]
        /\ UNCHANGED <<out, crashed>>
     \/ /\ i # activeStreamIndex /\ i \notin DOMAIN queues
        /\ crashed' = TRUE
        /\ UNCHANGED <<out, queues>>
  /\ UNCHANGED <<phase, subscribed, subscriptions, completedStreams, activeStreamIndex, flushing, leftOver,
                 ended>>

\* complete: the source is noted, then the loop of Flush runs, in each of the
\* handlers.
Complete(i) ==
  /\ MayCall(i)
  /\ ended' = ended \cup {i}
  /\ subscriptions' = [subscriptions EXCEPT ![i] = 0]
  /\ completedStreams' = completedStreams \cup {i}
  /\ flushing' = IF queues = <<>> THEN 0 ELSE subscriptions[i]
  /\ crashed' = (queues = <<>>)
  /\ UNCHANGED <<phase, subscribed, queues, activeStreamIndex, leftOver, count, out>>

\* Faulty: one completed stream is passed, what follows waits for its own end.
FlushOnce ==
  LET i == activeStreamIndex IN
  /\ flushing > 0
  /\ \/ /\ queues[i] # <<>>
        /\ out' = Append(out, Head(queues[i]))
        /\ queues' = [queues EXCEPT ![i] = Tail(@)]
        /\ UNCHANGED <<phase, subscriptions, completedStreams, activeStreamIndex, flushing, crashed>>
     \/ /\ queues[i] = <<>> /\ i \in completedStreams /\ i < Length
        /\ activeStreamIndex' = i + 1
        /\ flushing' = flushing - 1
        /\ UNCHANGED <<phase, subscriptions, queues, completedStreams, crashed, out>>
     \/ /\ queues[i] = <<>> /\ i \in completedStreams /\ i = Length
        /\ phase' = "done" /\ flushing' = 0 /\ reset
        /\ crashed' = (flushing > 1)
        /\ UNCHANGED out
     \/ /\ queues[i] = <<>> /\ i \notin completedStreams
        /\ flushing' = flushing - 1
        /\ UNCHANGED <<phase, subscriptions, queues, completedStreams, activeStreamIndex, crashed, out>>
  /\ UNCHANGED <<subscribed, leftOver, count, ended>>

\* One turn of the loop: the active stream's queue is emptied; if the stream
\* has completed the next one becomes active, and after the last the listener
\* completes, on which xstream stops the producer.  Another handler of the
\* source goes through the loop again, or finds the queues gone.
Flush ==
  LET i == activeStreamIndex IN
  /\ flushing > 0
  /\ \/ /\ queues[i] # <<>>
        /\ out' = Append(out, Head(queues[i]))
        /\ queues' = [queues EXCEPT ![i] = Tail(@)]
        /\ UNCHANGED <<phase, subscriptions, completedStreams, activeStreamIndex, flushing, crashed>>
     \/ /\ queues[i] = <<>> /\ i \in completedStreams /\ i < Length
        /\ activeStreamIndex' = i + 1
        /\ UNCHANGED <<phase, subscriptions, queues, completedStreams, flushing, crashed, out>>
     \/ /\ queues[i] = <<>> /\ i \in completedStreams /\ i = Length
        /\ phase' = "done" /\ flushing' = 0 /\ reset
        /\ crashed' = (flushing > 1)
        /\ UNCHANGED out
     \/ /\ queues[i] = <<>> /\ i \notin completedStreams
        /\ flushing' = flushing - 1
        /\ UNCHANGED <<phase, subscriptions, queues, completedStreams, activeStreamIndex, crashed, out>>
  /\ UNCHANGED <<subscribed, leftOver, count, ended>>

\* error: the listener is told, then reset() runs.  A listener that comes back
\* while it is told has a start() of its own inside the first, all of whose
\* subscriptions this reset() takes away: it is cut off, if that start() did not
\* fail or complete itself, or run into a handler that throws, which takes a
\* failure in a start(), too.  Without a listener, or with a second handler,
\* xstream drops the error or throws it.
Fail(i) ==
  /\ MayCall(i) /\ reset
  /\ \/ phase' = "failed" /\ crashed' \in {FALSE, phase = "failed" \/ subscriptions[i] > 1}
     \/ phase # "failed" /\ phase' = "cut" /\ crashed' \in BOOLEAN
  /\ leftOver' = (subscribed < Length \/ crashed')
  /\ UNCHANGED <<subscribed, flushing, count, ended, out>>

\* The listener leaves, on which xstream stops the producer.
Leave ==
  /\ phase \in {"on", "cut"} /\ subscribed = Length /\ flushing = 0 /\ ~crashed
  /\ phase' = "idle" /\ reset /\ leftOver' = FALSE
  /\ UNCHANGED <<subscribed, flushing, crashed, count, ended, out>>

Next ==
  \/ Start \/ Subscribe \/ Flush \/ Leave
  \/ \E i \in Sources : Emit(i) \/ Complete(i) \/ Fail(i)

Spec == Init /\ [][Next]_vars
-----------------------------------------------------------------------------
(* Type invariant.                                                           *)
TypeOK ==
  /\ phase \in {"idle", "on", "done", "failed", "cut"}
  /\ subscribed \in 0..Length /\ subscriptions \in [Sources -> Nat] /\ flushing \in Nat
  /\ DOMAIN queues \in {{}, Sources} /\ \A i \in DOMAIN queues : queues[i] \in Seq(Sources \X Nat)
  /\ completedStreams \subseteq Sources /\ activeStreamIndex \in Sources \cup {1}
  /\ {crashed, leftOver} \subseteq BOOLEAN
  /\ count \in [Sources -> Nat] /\ ended \subseteq Sources
  /\ out \in Seq(Sources \X Nat)

Listened == phase \in {"on", "done"}

(* The listener gets the events in the order of the sources, those of one    *)
(* source in the order it emitted them, and none is invented.                *)
ConcatInOrder ==
  Listened =>
    /\ \A j, k \in DOMAIN out : j < k =>
         \/ out[j][1] < out[k][1]
         \/ out[j][1] = out[k][1] /\ out[j][2] <= out[k][2]
    /\ \A k \in DOMAIN out : out[k][2] \in 1..count[out[k][1]]

Ready(i) == \A j \in 1..(i - 1) : j \in ended

(* Nothing is withheld: when all sources before it have completed, every     *)
(* event of a source has reached the listener, whenever they completed.      *)
ConcatForwards ==
  Listened /\ flushing = 0 =>
    \A i \in Sources : Ready(i) =>
      \A n \in 1..count[i] : \E k \in DOMAIN out : out[k] = <<i, n>>

(* The listener is told the end exactly when all sources have completed.     *)
ConcatEnds == Listened /\ flushing = 0 => (phase = "done" <=> Sources \subseteq ended)

(* No event comes twice.                                                     *)
ConcatOnce == Listened => \A j, k \in DOMAIN out : j < k => out[j] # out[k]

(* No handler outlives its listener, not even one that was told of a failure,*)
(* and none runs into queues that are gone.                                  *)
ConcatStops == ~crashed /\ (phase # "on" => \A i \in Sources : subscriptions[i] = 0)

(* The first three for every listener, but one that comes back while it is   *)
(* told of a failure and is cut off.  The others unless a source failed while*)
(* start() still had others to subscribe: their handlers are left, and call  *)
(* the next listener too, or throw, until somebody leaves, is through, or is *)
(* told of another failure.                                                  *)
ConcatIsFaithful ==
  /\ ConcatInOrder /\ ConcatForwards /\ ConcatEnds
  /\ ~leftOver => ConcatOnce /\ ConcatStops
=============================================================================

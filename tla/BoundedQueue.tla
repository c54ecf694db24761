---------------------------- MODULE BoundedQueue ----------------------------
(***************************************************************************)
(* What one TX or RX queue of the chip promises its two sides: a bounded   *)
(* first-in first-out queue, one request of each kind per clock edge.      *)
(***************************************************************************)
EXTENDS QueueEdge

CONSTANT Words   \* the values that travel through the queue

VARIABLE queue

Init == queue = << >>

Clock(push, pop, clear, word) == queue' = After(queue, push, pop, clear, word)

Next ==
  \E push, pop, clear \in BOOLEAN, word \in Words : Clock(push, pop, clear, word)

Spec == Init /\ [][Next]_queue
=============================================================================

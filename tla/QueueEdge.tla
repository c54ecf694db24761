----------------------------- MODULE QueueEdge -----------------------------
(***************************************************************************)
(* One clock edge of a bounded queue, as an operator on sequences.  The    *)
(* decisions read the occupancy BEFORE the edge: a full queue refuses a    *)
(* push even when a pop happens on the same edge, an empty queue refuses a *)
(* pop even when a push does, and a clear wins over both.                  *)
(***************************************************************************)
EXTENDS Naturals, Sequences

CONSTANT Depth   \* words one queue holds (Config.fifo_words)

Ready(q) == Len(q) # Depth
Valid(q) == Len(q) # 0

(* The queue after an edge with these requests.                            *)
After(q, push, pop, clear, word) ==
  LET put  == push /\ Ready(q)
      take == pop /\ Valid(q)
      rest == IF take THEN Tail(q) ELSE q
  IN  IF clear THEN << >>
      ELSE IF put THEN Append(rest, word)
      ELSE rest
=============================================================================

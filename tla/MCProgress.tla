----------------------------- MODULE MCProgress -----------------------------
(* What must not take for ever: the words of two engines and the host on   *)
(* their routes, and the waits of every small program.  The two share no   *)
(* state; `part' names the one that is explored.                           *)
EXTENDS MCMover, Engine

(* All images of two instructions out of those below, and images of three  *)
(* around the waits.                                                       *)
Coded(kind, n, m) == [kind |-> kind, n |-> n, m |-> m]
Plain == {Coded(kind, 0, 0) : kind \in {"step", "halt", "invalid", "pull", "waitpin", "waitevent"}}
Timed == {Coded("wait", 0, 0), Coded("wait", 2, 0),
          Coded("xfer", 1, 1), Coded("xfer", 2, 3), Coded("xfer", 1, 2)}
Flow  == {Coded("jmp", 0, 0), Coded("jmp", 3, 0), Coded("jz", 0, 0),
          Coded("count", 2, 0), Coded("loop", 0, 0), Coded("loop", 1, 0),
          Coded("fault", 7, 0), Coded("push", 0, 0), Coded("push", 1, 0)}
Limits == {Coded("limit", 1, 0), Coded("limit", 2, 0)}
MCInstructions == Plain \cup Timed \cup Flow \cup Limits

Around == {Coded(kind, 0, 0) : kind \in {"step", "pull", "waitpin", "waitevent", "jmp"}} \cup Limits
MCImages == {<<i, j>> : i, j \in MCInstructions} \cup {<<i, j, k>> : i, j, k \in Around}

VARIABLE part

MCInit ==
  /\ part \in {"mover", "sequencing"}
  /\ Init
  /\ IF part = "sequencing" THEN EngineInit
     ELSE image = << >> /\ engine = Cleared /\ unmet = 0 /\ owed = 0
MCNext ==
  /\ UNCHANGED part
  /\ \/ part = "mover"      /\ Next       /\ UNCHANGED engineVars
     \/ part = "sequencing" /\ EngineNext /\ UNCHANGED vars

(* The clock runs: an engine at a wait samples again, and edges on which   *)
(* the host completes no word keep coming (modules Engine and Mover).      *)
Samples ==
  /\ part = "sequencing" /\ AtWait
  /\ \E met \in BOOLEAN : Run(met)
  /\ UNCHANGED <<part, vars>>
QuietEdge == part = "mover" /\ Quiet /\ UNCHANGED <<part, engineVars>>

MCSpec == /\ MCInit /\ [][MCNext]_<<part, vars, engineVars>>
          /\ WF_engineVars(Samples) /\ WF_vars(QuietEdge)
=============================================================================

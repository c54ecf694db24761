----------------------------- MODULE MCEngines -----------------------------
(* The program memory and a fused transfer of one engine, and the mover's  *)
(* arbiter, on small instances.  They share no state, so that one run      *)
(* explores one of them at a time: `part' names it and the others keep     *)
(* their first state.                                                      *)
EXTENDS Fetch, Transfer, Arbiter

VARIABLE part

(* Branches to the start, into the image, just outside it and to aliases.  *)
MCTargets == 0 .. 2 * ProgramWords

MCInit ==
  /\ part \in {"fetch", "transfer", "arbiter"}
  /\ TransferInit /\ ArbiterInit
  /\ part # "arbiter" => eligible = {}
  /\ IF part = "fetch" THEN Init
     ELSE \E c \in Code :      \* nothing is fetched
            /\ c = CHOOSE d \in Code : TRUE
            /\ memory = [a \in Addresses |-> c] /\ dout = c /\ ahead = Nothing(c)
            /\ pc = 0 /\ running = FALSE
            /\ writing = FALSE /\ loaded = 0 /\ length = 0 /\ image = << >>

MCNext ==
  /\ UNCHANGED part
  /\ \/ part = "fetch"    /\ Next         /\ UNCHANGED <<transferVars, arbiterVars>>
     \/ part = "transfer" /\ TransferNext /\ UNCHANGED <<vars, arbiterVars>>
     \/ part = "arbiter"  /\ ArbiterNext  /\ UNCHANGED <<vars, transferVars>>

MCSpec == MCInit /\ [][MCNext]_<<part, vars, transferVars, arbiterVars>>
=============================================================================

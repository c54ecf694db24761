------------------------------ MODULE Arbiter ------------------------------
(***************************************************************************)
(* The mover's arbiter on its own: on every clock edge some set of sources *)
(* is eligible (the rest of the chip decides which) and at most one is     *)
(* granted.  `waited' counts, for a source that stays eligible, the words  *)
(* accepted from the others meanwhile.                                     *)
(***************************************************************************)
EXTENDS RoundRobin

VARIABLES
  cursor,    \* round-robin cursor (rr, dma_round_robin)
  eligible,  \* sources eligible on the coming edge: an input
  waited     \* history: grants to others while a source stayed eligible

arbiterVars == <<cursor, eligible, waited>>

ArbiterInit ==
  /\ cursor = 0
  /\ eligible \in SUBSET Engines
  /\ waited = [k \in Engines |-> 0]

(* One clock edge.  `gate' is the chip's clear: no source is eligible then,*)
(* and the cursor returns to 0.                                            *)
ArbiterEdge ==
  LET granted == Granted(eligible, cursor)
  IN  /\ cursor' = NextCursor(granted, cursor)
      /\ waited' = [k \in Engines |->
                      IF k \in eligible \ granted THEN waited[k] + 1 ELSE 0]
      /\ eligible' \in SUBSET Engines

ArbiterReset ==
  /\ cursor' = 0
  /\ waited' = [k \in Engines |-> 0]
  /\ eligible' \in SUBSET Engines

ArbiterNext == ArbiterEdge \/ ArbiterReset

ArbiterSpec == ArbiterInit /\ [][ArbiterNext]_arbiterVars

-----------------------------------------------------------------------------
ArbiterTypeOK ==
  /\ cursor \in Engines
  /\ eligible \in SUBSET Engines
  /\ waited \in [Engines -> Nat]

(* At most one word is accepted per cycle, and one is whenever a source is *)
(* eligible (processor.ml 231 and 270).                                    *)
OneGrant ==
  /\ (eligible # {}) <=> (Granted(eligible, cursor) # {})
  /\ \A j, k \in Granted(eligible, cursor) : j = k

(* The flat function of the split_command_decode build grants the source   *)
(* the priority chain of the other builds grants (processor.ml 260-264).   *)
SameGrant == Granted(eligible, cursor) = ChainGranted(eligible, cursor)

(* "A continuously eligible source is served within n successful grants"   *)
(* (processor.ml 231-232, docs/architecture.md): it sees at most n - 1     *)
(* grants to the others.                                                   *)
BoundedWait == \A k \in Engines : waited[k] <= EngineCount - 1

(* Why: what a source has waited and what still precedes it never exceed   *)
(* n - 1 together.                                                         *)
RankInv == ArbiterTypeOK /\ \A k \in Engines : waited[k] + Order(k, cursor) <= EngineCount - 1
=============================================================================

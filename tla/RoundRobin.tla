----------------------------- MODULE RoundRobin -----------------------------
(***************************************************************************)
(* The arbitration of the mover (hardcaml/lib/processor.ml 247-274): which *)
(* of the eligible sources is granted when the cursor stands at `rr'.  The *)
(* generator builds it in two ways, a priority chain and a flat function   *)
(* of one term per source.                                                 *)
(***************************************************************************)
EXTENDS EngineSet, Integers, FiniteSets

ASSUME CountAssumption == EngineCount \in Nat \ {0}

(* How many sources precede k in the rotating order that starts at rr.     *)
Order(k, rr) == (k - rr + EngineCount) % EngineCount

(* Mutant: the flat function looks at the sources behind k.                *)
XGranted_Reversed(eligible, rr) ==
  {k \in eligible :
     \A offset \in Order(k, rr) + 1 .. EngineCount - 1 : (rr + offset) % EngineCount \notin eligible}

(* Flat form: an eligible source no eligible source precedes.              *)
Granted(eligible, rr) ==
  {k \in eligible :
     \A offset \in 0 .. Order(k, rr) - 1 : (rr + offset) % EngineCount \notin eligible}

(* Chain form: the first eligible source met from the cursor on.           *)
ChainGranted(eligible, rr) ==
  LET hits == {offset \in 0 .. EngineCount - 1 : (rr + offset) % EngineCount \in eligible}
  IN  {(rr + first) % EngineCount :
         first \in {offset \in hits : \A other \in hits : offset <= other}}

(* Mutant: the cursor never moves.                                         *)
XNextCursor_Stuck(granted, rr) == rr

(* The cursor moves past the source that was granted.                      *)
NextCursor(granted, rr) ==
  IF granted = {} THEN rr ELSE ((CHOOSE k \in granted : TRUE) + 1) % EngineCount
=============================================================================

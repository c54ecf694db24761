------------------------------- MODULE Gates -------------------------------
(***************************************************************************)
(* The gates a promoted configuration passes (tools/opt/gates.py): how the *)
(* record of one run of the equivalence checker becomes the stage's        *)
(* verdict, when that verdict is tried again, and how the stages become    *)
(* the promotion's verdict.                                                *)
(*                                                                         *)
(* A run of the checker is what its job can see of it: the result it       *)
(* wrote, if any (schema, verdict, exit code and pass as recorded, verdict *)
(* of the case, whether a build step was stopped), the exit status of the  *)
(* process, and whether the files it recorded are those it was given.      *)
(***************************************************************************)
EXTENDS Integers, Sequences

CONSTANT SIGNOFF     \* the stages after the full run: precheck, gl, eq
ASSUME SignoffAssumption == SIGNOFF \subseteq {"precheck", "gl", "eq"}

STAGES == {"full"} \cup SIGNOFF
NoStage == [state |-> "none", job |-> 0, attempt |-> 0, submits |-> {}, result |-> "none"]

\* the exit code formal_eq gives each of its verdicts
FE_VERDICTS == [equivalent |-> 0, not_equivalent |-> 1, error |-> 2, undecided |-> 3, timeout |-> 3]
OUTER_TIMEOUT == {124, 137}

parse_eq(c) ==
  LET stopped == IF c.outer \in OUTER_TIMEOUT THEN "timeout" ELSE "error" IN
  CASE ~c.written -> stopped
    [] c.written /\ (~c.schema \/ c.verdict \notin DOMAIN FE_VERDICTS) -> "error"
    [] OTHER ->
         LET code == FE_VERDICTS[c.verdict] IN
         IF c.code # code \/ c.pass # (code = 0) THEN "error"
         ELSE IF c.outer # code THEN stopped
         ELSE IF c.verdict = "equivalent" /\ c.case # "equivalent" THEN "error"
         ELSE IF c.verdict = "error" /\ c.limited THEN "timeout"
         ELSE c.verdict

Xeq_record_AnyInputs(c) == parse_eq(c)

\* fail closed: what the checker read must be what the job gave it
eq_record(c) ==
  IF c.written /\ ~c.inputs THEN "error" ELSE parse_eq(c)

eq_should_retry(verdict, attempt, max) == verdict = "timeout" /\ attempt < max

\* does a finished stage pass, and does it count as not run
StagePasses(s, result) ==
  CASE s = "full" -> result = "legal"
    [] s = "eq"   -> result = "equivalent"
    [] OTHER      -> result = "pass"

promotion_verdict(st) ==
  LET done == {s \in SIGNOFF : st[s].state = "done"}
      notrun == {s \in done : s = "gl" /\ st[s].result = "not_run"}
      failed == {s \in done \ notrun : ~StagePasses(s, st[s].result)} IN
  CASE st["full"].state # "done" -> "in progress"
    [] st["full"].state = "done" /\ ~StagePasses("full", st["full"].result) -> "FAIL"
    [] OTHER -> IF failed # {} THEN "FAIL"
                ELSE IF done # SIGNOFF THEN "in progress"
                ELSE IF notrun # {} THEN "INCOMPLETE"
                ELSE "PASS"
=============================================================================

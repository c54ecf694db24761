------------------------------ MODULE EqCheck ------------------------------
(***************************************************************************)
(* The equivalence checker (formal_eq/eq_check.py): one run resolves and   *)
(* copies a gate-level netlist, checks the preconditions of its model,     *)
(* builds both sides with yosys, asks ABC, and, with --selftest, does the  *)
(* same for mutants of the netlist and for small designs whose answer is   *)
(* known.  "fail closed: only 0 is a pass" (20).                           *)
(*                                                                         *)
(* What yosys and ABC do is external: they tell the truth about the files  *)
(* they read, except for the one kind of difference the recipe may be      *)
(* blind to, and any step of theirs may fail, hang or leave nothing.       *)
(***************************************************************************)
EXTENDS Integers, Sequences, FiniteSets, FiniteSetsExt, SequencesExt

CONSTANTS
  Content,       \* netlists the source path may hold, by name
  Sums,          \* netlists SHA256SUMS beside it may name, or "none"
  Arguments,     \* command lines
  Controls,      \* controls/*.v in order: [name, expect, kind, min_frame]
  Blindness,     \* kinds of difference a defective recipe cannot see, or "nothing"
  MaxChecks, MaxToolFaults, MaxRewrites

(* Controls are the files of one directory, and no text has the name of    *)
(* another; "nothing" is no difference.                                    *)
Distinct ==
  /\ Controls \in Seq([name : STRING, expect : STRING, kind : STRING, min_frame : Nat])
  /\ \A i, j \in DOMAIN Controls : Controls[i].name = Controls[j].name => i = j
  /\ \A i \in DOMAIN Controls : Controls[i].name \notin {"netlist", "mutA", "mutC"} \cup DOMAIN Content
  /\ {"netlist", "mutA", "mutC"} \cap DOMAIN Content = {}
  /\ \A nl \in DOMAIN Content : Content[nl].kind # "nothing"

VARIABLES
  shelf,         \* the netlist at its source path, and what SHA256SUMS says
  out,           \* the output directory
  cmd,           \* the run: where it is and what it has recorded
  blind,         \* the kind of difference the recipe does not show
  budget         \* runs, tool faults and rewrites of the source left

eqVars == <<shelf, out, cmd, blind, budget>>

NoFile == [kind |-> "absent"]
Made(gold, gate) == [kind |-> "made", gold |-> gold, gate |-> gate]
NoCase == [verdict |-> "none", frame |-> 0]
Names == {"netlist", "mutA", "mutC"} \cup {c.name : c \in ToSet(Controls)}
Idle == [at |-> "idle", args |-> [given |-> "none"]]

EqInit ==
  /\ shelf \in [netlist : DOMAIN Content, sums : Sums]
  /\ out = [result |-> NoFile, netlist |-> "none", gold |-> [n \in Names |-> NoFile],
            gate |-> [n \in Names |-> NoFile], aig |-> [n \in Names |-> NoFile]]
  /\ cmd = Idle
  /\ blind \in Blindness
  /\ budget = [checks |-> MaxChecks, faults |-> MaxToolFaults, rewrites |-> MaxRewrites]

-----------------------------------------------------------------------------
(* resolve_inputs: what the command line and the files of a run must agree *)
(* on.  An artifact of the GDS workflow names the PDK it was built with, a *)
(* LibreLane run may have the checksum of its netlist.                     *)
PDK == "installed"
SumsAgree == shelf.sums = "none" \/ shelf.sums = shelf.netlist
pdk_matches(args) == Content[shelf.netlist].pdk = PDK \/ args.allow_pdk_mismatch
Resolves(args) ==
  /\ args.given \in {"netlist", "artifact", "run"}             \* exactly one
  /\ args.given = "run" => SumsAgree
  /\ args.given = "artifact" => pdk_matches(args)
  /\ args.header = args.variant

(* The text is one module, closed, and each instance is named once.        *)
Parses(text) == text.modules = 1 /\ text.closed /\ text.names_differ

(* The verdicts, and their exit codes.                                     *)
EXIT == [equivalent |-> 0, not_equivalent |-> 1, error |-> 2, undecided |-> 3, timeout |-> 3]

(* ABC's log: the verdict lines in it, whether a counterexample is shown,  *)
(* outputs of the miter, exit status, and whether the limit stopped it.    *)
Xparse_abc_LastLine(log) == IF log.stopped THEN "timeout"
                            ELSE IF Len(log.lines) = 0 THEN "error" ELSE Last(log.lines)
parse_abc(log) ==
  IF log.stopped THEN "timeout"
  ELSE IF log.outputs # 1 \/ Len(log.lines) # 1 \/ log.rc # 0 THEN "error"
  ELSE IF log.lines = <<"equivalent">> /\ log.cex THEN "error"
  ELSE log.lines[1]

(* What the two sides of a miter really differ in: for the mutants and the *)
(* controls it is known, for the netlist it is the question.  Read with    *)
(* the cells of another PDK the netlist may look right.                    *)
ControlOf(name) == CHOOSE c \in ToSet(Controls) : c.name = name
IsControl(name) == name \in {c.name : c \in ToSet(Controls)}
Difference(gate) == IF gate \in DOMAIN Content
                    THEN IF Content[gate].pdk = PDK THEN Content[gate].kind ELSE "none"
                    ELSE IF gate = "mutA" THEN "gate"
                    ELSE IF gate = "mutC" THEN "macro"
                    ELSE ControlOf(gate).kind
Seen(kind) == kind # "none" /\ kind # blind

-----------------------------------------------------------------------------
(* cmd_check begins: it never leaves a stale verdict behind.               *)
cmd_check(args) ==
  /\ cmd.at = "idle" /\ budget.checks > 0
  /\ budget' = [budget EXCEPT !.checks = @ - 1]
  /\ out' = [out EXCEPT !.result = NoFile]
  /\ cmd' = [at |-> "inputs", args |-> args, recorded |-> "none", todo |-> << >>,
               case |-> [n \in Names |-> NoCase]]
  /\ UNCHANGED <<shelf, blind>>

(* finish: the result is written once, whole.  A run whose self-test       *)
(* missed keeps its verdict but does not pass.                             *)
finish(files, verdict, code) ==
  /\ cmd' = Idle
  /\ out' = [files EXCEPT !.result = [kind |-> "result", verdict |-> verdict, exit_code |-> code,
               pass |-> code = 0, netlist |-> cmd.recorded, args |-> cmd.args]]
Error(files) == finish(files, "error", EXIT["error"])

resolve_inputs ==
  /\ cmd.at = "inputs"
  /\ IF Resolves(cmd.args) THEN cmd' = [cmd EXCEPT !.at = "copy"] /\ UNCHANGED out ELSE Error(out)
  /\ UNCHANGED <<shelf, blind, budget>>

(* The netlist is copied, then hashed and parsed from the copy.            *)
copy_netlist ==
  /\ cmd.at = "copy"
  /\ out' = [out EXCEPT !.netlist = shelf.netlist]
  /\ cmd' = [cmd EXCEPT !.at = "structure", !.recorded = shelf.netlist]
  /\ UNCHANGED <<shelf, blind, budget>>

(* Parsing and the structural preconditions; with --selftest the mutants,  *)
(* which need a gate to change and two macro inputs to swap.               *)
Cases(args) == <<"netlist">> \o
  (IF args.selftest THEN <<"mutA", "mutC">> \o [i \in DOMAIN Controls |-> Controls[i].name] ELSE << >>)
structure ==
  /\ cmd.at = "structure"
  /\ LET nl == Content[out.netlist] IN
     IF Parses(nl.text) /\ nl.structured /\ (cmd.args.selftest => nl.mutable)
     THEN cmd' = [cmd EXCEPT !.at = "gold", !.todo = Cases(cmd.args)] /\ UNCHANGED out
     ELSE Error(out)
  /\ UNCHANGED <<shelf, blind, budget>>

(* run_logged: a step of a tool ends well, with an error or at its limit,  *)
(* or well but with nothing written; a bad end may leave its file.         *)
Endings == {"good", "failed", "limit", "empty"}
Left(ending, made) == CASE ending = "good"  -> {made}
                        [] ending = "empty" -> {NoFile}
                        [] OTHER            -> {NoFile, made}
Charge(fault) == /\ fault => budget.faults > 0
                 /\ budget' = [budget EXCEPT !.faults = IF fault THEN @ - 1 ELSE @]

(* A file an earlier run left is removed before its step; written or not,  *)
(* this is what the next step then finds.                                  *)
Xoverwritten_KeepsOld(old, file) == IF file = NoFile THEN old ELSE file
overwritten(old, file) == file

Now == Head(cmd.todo)
Recorded(verdict, frame) ==
  LET rest == Tail(cmd.todo) IN
  cmd' = [cmd EXCEPT !.case[Now] = [verdict |-> verdict, frame |-> frame], !.todo = rest,
                         !.at = IF rest = << >> THEN "report" ELSE IF IsControl(Head(rest)) THEN "gold" ELSE "gate"]

(* build_gold, once for the netlist and its mutants and once per control;  *)
(* the script asserts that RTL and netlist have as many macros.  A control *)
(* without its gold has no expectation to meet.                            *)
build_gold ==
  /\ cmd.at = "gold"
  /\ \E ending \in Endings : \E file \in Left(ending, Made(Now, "none")) :
       LET files == [out EXCEPT !.gold[Now] = overwritten(@, file)]
           ok == ending \in {"good", "empty"} /\ files.gold[Now] # NoFile
                 /\ (Now = "netlist" => Content[out.netlist].macros_agree)
       IN  /\ Charge(ending # "good")
           /\ IF ok THEN cmd' = [cmd EXCEPT !.at = "gate"] /\ out' = files
              ELSE IF Now = "netlist" THEN Error(files)
              ELSE Recorded("no_gold", 0) /\ out' = files
  /\ UNCHANGED <<shelf, blind>>

(* run_case: the gate side; its miter, which refuses to model what is not  *)
(* clocked by clk; and ABC.                                                *)
gate_build ==
  /\ cmd.at = "gate"
  /\ \E ending \in Endings :
       LET text == IF Now = "netlist" THEN out.netlist ELSE Now IN
       \E file \in Left(ending, Made("none", text)) :
         /\ Charge(ending # "good")
         /\ out' = [out EXCEPT !.gate[Now] = overwritten(@, file), !.aig[Now] = overwritten(@, NoFile)]
         /\ IF ending \in {"good", "empty"} THEN cmd' = [cmd EXCEPT !.at = "miter"]
            ELSE Recorded("error", 0)
  /\ UNCHANGED <<shelf, blind>>

GoldOf(name) == out.gold[IF IsControl(name) THEN name ELSE "netlist"]
miter_build ==
  /\ cmd.at = "miter"
  /\ \E ending \in Endings :
       LET gate == out.gate[Now]
           works == /\ gate # NoFile /\ GoldOf(Now) # NoFile
                    /\ Difference(gate.gate) = "clock" => blind = "clock"
       IN  /\ Charge(ending # "good")
           /\ \E file \in IF works THEN Left(ending, Made(GoldOf(Now).gold, gate.gate)) ELSE {NoFile} :
                LET files == [out EXCEPT !.aig[Now] = overwritten(@, file)] IN
                /\ out' = files
                /\ IF works /\ ending \in {"good", "empty"} /\ files.aig[Now] # NoFile
                   THEN cmd' = [cmd EXCEPT !.at = "abc"]
                   ELSE Recorded("error", 0)
  /\ UNCHANGED <<shelf, blind>>

(* What ABC may print of a miter: its answer, or that it has none.  A log  *)
(* that is cut off, that ends badly or that contradicts itself is a fault. *)
Log(lines) == [lines |-> lines, cex |-> FALSE, outputs |-> 1, rc |-> 0, stopped |-> FALSE]
Answer(kind) == IF Seen(kind) THEN "not_equivalent" ELSE "equivalent"
GoodLogs(kind) == {Log(<<Answer(kind)>>), Log(<<"undecided">>)}
BadLogs(kind) ==
  {[Log(<<Answer(kind)>>) EXCEPT !.stopped = TRUE], [Log(<< >>) EXCEPT !.stopped = TRUE],
   [Log(<<Answer(kind)>>) EXCEPT !.rc = 1], [Log(<< >>) EXCEPT !.outputs = 0]}
  \cup (IF Seen(kind) THEN {[Log(<<"equivalent">>) EXCEPT !.cex = TRUE],
                            Log(<<"not_equivalent", "equivalent">>)} ELSE {})
abc ==
  /\ cmd.at = "abc"
  /\ LET kind == Difference(out.aig[Now].gate) IN
     \E log \in GoodLogs(kind) \cup BadLogs(kind) :
       /\ Charge(log # Log(<<Answer(kind)>>))
       /\ Recorded(parse_abc(log), IF kind = "deep" THEN 13 ELSE 1)
  /\ UNCHANGED <<shelf, out, blind>>

(* The run's verdict is the netlist's; it passes only if every mutant and  *)
(* every control met its expectation.                                      *)
met_expectation(name) ==
  LET c == cmd.case[name] IN
  IF ~IsControl(name) THEN c.verdict = "not_equivalent"
  ELSE c.verdict = ControlOf(name).expect /\ c.frame >= ControlOf(name).min_frame
Xmissed_Mutants == {n \in {"mutA", "mutC"} : cmd.args.selftest /\ ~met_expectation(n)}
missed == {n \in ToSet(Cases(cmd.args)) \ {"netlist"} : ~met_expectation(n)}
report ==
  /\ cmd.at = "report"
  /\ LET verdict == cmd.case["netlist"].verdict
         code == IF missed # {} /\ EXIT[verdict] = 0 THEN 1 ELSE EXIT[verdict]
     IN  IF \E n \in Names : cmd.case[n].verdict = "no_gold" THEN Error(out)
         ELSE finish(out, verdict, code)
  /\ UNCHANGED <<shelf, blind, budget>>

(* The job is killed; a flow writes the netlist again.  A downloaded       *)
(* artifact does not change.                                               *)
killed ==
  /\ cmd.at # "idle" /\ Charge(TRUE)
  /\ cmd' = Idle
  /\ UNCHANGED <<shelf, out, blind>>
rewritten ==
  /\ budget.rewrites > 0
  /\ cmd.at = "idle" \/ cmd.args.given # "artifact"
  /\ \E nl \in DOMAIN Content \ {shelf.netlist} : shelf' = [shelf EXCEPT !.netlist = nl]
  /\ budget' = [budget EXCEPT !.rewrites = @ - 1]
  /\ UNCHANGED <<out, cmd, blind>>

EqNext ==
  \/ \E args \in Arguments : cmd_check(args)
  \/ resolve_inputs \/ copy_netlist \/ structure \/ build_gold
  \/ gate_build \/ miter_build \/ abc \/ report \/ killed \/ rewritten

EqSpec == EqInit /\ [][EqNext]_eqVars

-----------------------------------------------------------------------------
(* "Only 0 is a pass" (eq_check.py 20): a result that passes lies in the   *)
(* output directory only when no run is under way, and the netlist it      *)
(* names does implement the RTL, whatever tools failed, whatever earlier   *)
(* runs left behind, and, if the run tested itself, even when the recipe   *)
(* is blind to some kind of difference that a mutant or a control shows    *)
(* ("a control that missed"); one that expects an error shows none, since  *)
(* an error of the tools meets its expectation, too.  For a netlist given  *)
(* by hand the installed PDK must be the one it was built with; an         *)
(* artifact says so itself.                                                *)
Shown == {"gate", "macro"} \cup {c.kind : c \in {d \in ToSet(Controls) : d.expect = "not_equivalent"}}
EqPassProved ==
  LET r == out.result IN
  /\ cmd.at # "idle" => r = NoFile
  /\ r.kind = "result" /\ r.pass =>
       LET nl == Content[r.netlist]
           trusted == /\ blind = "nothing" \/ (r.args.selftest /\ blind \in Shown)
                      /\ nl.pdk = PDK \/ (r.args.given = "artifact" /\ ~r.args.allow_pdk_mismatch)
       IN  trusted => nl.kind = "none" /\ Parses(nl.text)
=============================================================================

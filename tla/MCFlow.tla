------------------------------- MODULE MCFlow -------------------------------
(* Tools of the design flow: the timing analyzer and the contracts of      *)
(* module MCTiming, the certificates of an image, the equivalence checker, *)
(* the netlists its structural checks judge, a sweep submitted from two    *)
(* shells and the CPU budget of a sweep.  They share no state, so that one *)
(* run explores one of them at a time: `part' names it and the others keep *)
(* their first state.                                                      *)
EXTENDS MCTiming, Certify, EqCheck, Netlist, Sweep

\* --- the certificates of an image whose sources the generator refuses and
\* whose proofs are too deep for CI, at one of its versions
FirstEdit == {<<1, 1>>}

\* --- the equivalence checker: netlists, command lines and three of its controls
Text(closed) == [modules |-> 1, closed |-> closed, names_differ |-> TRUE]
Candidate(kind, pdk, closed) ==
  [kind |-> kind, pdk |-> pdk, text |-> Text(closed), structured |-> TRUE, mutable |-> TRUE, macros_agree |-> TRUE]
CommandLine(given, selftest, allow) ==
  [given |-> given, selftest |-> selftest, allow_pdk_mismatch |-> allow, header |-> "base", variant |-> "base"]
Small(name, expect, kind, frame) == [name |-> name, expect |-> expect, kind |-> kind, min_frame |-> frame]
Candidates == [
  good |-> Candidate("none", "installed", TRUE), masked |-> Candidate("gold0", "installed", TRUE),
  gated |-> Candidate("clock", "installed", TRUE), older |-> Candidate("gate", "other", TRUE),
  cut |-> Candidate("none", "installed", FALSE)]
CommandLines == {CommandLine("netlist", TRUE, FALSE), CommandLine("artifact", FALSE, FALSE),
                 CommandLine("artifact", FALSE, TRUE), CommandLine("run", TRUE, FALSE)}
SmallCases == <<Small("c1", "not_equivalent", "gold0", 0), Small("c4", "not_equivalent", "deep", 13),
                Small("c8", "error", "clock", 0)>>
(* The files have names of their own.                                      *)
ASSUME CheckerAssumption == Distinct

\* --- two shells with a run each, two jobs in all, no flags
TwoShells == [a |-> {"r1"}, b |-> {"r2"}]
ASSUME SweepAssumption == Separate

\* --- netlists of two cells, one flip-flop or macro and an assign at most
Wires == {"clk", "d", "n1", "n2"}
Gate(cell, a, x) == [cell |-> cell, pins |->
  IF cell \in {"nand2", "gate"} THEN [A |-> a, B |-> "d", X |-> x] ELSE [A |-> a, X |-> x]]
Register(cell, clock) == [cell |-> cell, pins |->
  IF cell = MACRO THEN [A_CLK |-> clock, A_DIN |-> "d", A_DOUT |-> "open"] ELSE [CLK |-> clock, D |-> "d"]]
Gates(cells) == {Gate(cell, a, x) : cell \in cells, a \in Wires, x \in {"n1", "n2"}}
SmallNetlists ==
  [nets : {Wires}, ports : {{"clk", "d"}},
   assigns : {<< >>, <<<<"n2", "d">>>>, <<<<"n2", "n1">>>>, <<<<"n1", "clk">>>>, <<<<"clk", "n2">>>>},
   insts : [u1 : Gates({"buf", "inv", "gate"}), u2 : Gates({"buf", "nand2"}),
            state : {Register(cell, clock) : cell \in {"dff", "dffn", MACRO}, clock \in Wires \cup {"open"}}]]

\* --- six tasks of two CPUs, from calls that allow for two of them or for three;
\* or tasks of several sizes under five CPUs
CONSTANTS Budgets, Sizes
OneSize == [i \in 1 .. 6 |-> {2}]
SeveralSizes == <<{2}, {2}, {1}, {3}, {1}, {1}>>
VARIABLES task, planned
Cpu == INSTANCE CpuBudget

cpus == <<task, planned>>
beside == <<eqVars, netlist, cpus, sweepVars>>

FlowInit ==
  /\ MCInit \/ (part \in {"certificates", "checker", "netlist", "cpus", "sweep"} /\ Quiescent)
  /\ CertInit /\ EqInit /\ NetlistInit /\ Cpu!BudgetInit /\ SweepInit
  /\ part # "checker" => shelf = [netlist |-> "good", sums |-> "none"] /\ blind = "nothing"
FlowNext ==
  \/ MCNext /\ UNCHANGED <<certVars, beside>>
  \/ part = "netlist" /\ netlist = Empty /\ NetlistNext
     /\ UNCHANGED <<part, contractVars, certVars, eqVars, cpus, sweepVars>>
  \/ /\ UNCHANGED <<part, contractVars, netlist>>
     /\ \/ part = "certificates" /\ CertNext /\ UNCHANGED <<eqVars, cpus, sweepVars>>
        \/ part = "checker" /\ EqNext         /\ UNCHANGED <<certVars, cpus, sweepVars>>
        \/ part = "cpus"    /\ Cpu!BudgetNext /\ UNCHANGED <<certVars, eqVars, sweepVars>>
        \/ part = "sweep"   /\ SweepNext      /\ UNCHANGED <<certVars, eqVars, cpus>>
FlowSpec == FlowInit /\ [][FlowNext]_<<part, contractVars, certVars, beside>>

(* The CPU budget alone.                                                   *)
CpuSpec ==
  /\ FlowInit /\ part = "cpus"
  /\ [][Cpu!BudgetNext /\ UNCHANGED <<part, contractVars, certVars, eqVars, netlist, sweepVars>>]_<<part, contractVars, certVars, beside>>

(* The CPU cap holds at every moment, whatever is estimated (submit.py     *)
(* 46-50): for OneSize, but not for SeveralSizes.  A task that waits for   *)
(* two others may be replayed onto either; when the estimates have changed *)
(* since, the next one in the queue finds its own dependencies used up and *)
(* is charged to a chunk that is free after it starts, and the chunk that  *)
(* is left over is given away although it is not free.                     *)
CapHolds == part = "cpus" => Cpu!CapHolds
=============================================================================

---------------------------- MODULE MCOptimizer ----------------------------
(* The optimizer on a small campaign. *)
EXTENDS Optimizer

CONSTANTS k1, k2, k3

\* runs of the checker the collector has to tell apart
Run(written, verdict, code, outer, case, inputs) ==
  [written |-> written, schema |-> TRUE, verdict |-> verdict, code |-> code, pass |-> code = 0,
   case |-> case, limited |-> FALSE, outer |-> outer, inputs |-> inputs]
MCCheckerRuns ==
  [proved |-> Run(TRUE, "equivalent", 0, 0, "equivalent", TRUE),
   killed |-> Run(TRUE, "equivalent", 0, 137, "equivalent", TRUE),
   other_files |-> Run(TRUE, "equivalent", 0, 0, "equivalent", FALSE)]

\* The driver looks at jobs and results only at these places; a step of the
\* cluster taken elsewhere commutes with the driver's steps up to the next one.
\* The STOP file is read at "stop"; a job is aged only while its result is awaited,
\* and one that no record names is shown at its end or not at all.  No step that
\* FairSpec asks for is cut: each is still possible at a place every loop passes.
Observed ==
  /\ (job' # job /\ at' = at /\ todo' = todo /\ Unused' = Unused)
       => at \in {"down", "list", "rescan", "trials", "promos", "signoff", "end", "finished"} /\ todo = << >>
  /\ stopfile' # stopfile => at = "trials" /\ todo = << >>
  /\ \A j \in Jobs :
       /\ job'[j].state = "old" /\ job[j].state = "ended" => Awaited(j)
       /\ job'[j].state = "ended" /\ job[j].state = "running" /\ ~job'[j].shown => Awaited(j)
       /\ job'[j].shown /\ ~job[j].shown /\ job[j].state # "running" => Awaited(j)
=============================================================================

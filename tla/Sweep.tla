------------------------------- MODULE Sweep -------------------------------
(***************************************************************************)
(* The sweep harness (scripts/sweep): submit.py builds a snapshot per run  *)
(* and submits those runs that need a job; run_one.sh is the job; and      *)
(* collect.py reads what all of them left.  "Idempotent: a run is skipped  *)
(* when its latest job is still queued/running, or when it has a           *)
(* result.json whose status is complete" (submit.py 27-28).  Several       *)
(* shells call submit.py, each with a matrix of its own; they share the    *)
(* manifest, the repository and the cluster.                               *)
(***************************************************************************)
EXTENDS Naturals, Sequences, FiniteSets, Functions

CONSTANTS
  Runs, Shells,
  Matrix,        \* shell -> its runs, each of them once
  Flags,         \* of the calls: "", "retry_failed", "rerun_complete"
  MaxJobs, MaxEdits, MaxFaults

VARIABLES
  repo,          \* version of the files a snapshot is made of
  rundir,        \* run -> what its directory holds
  manifest,      \* run -> job of its latest record
  lock,          \* shell that holds manifest.json.lock, or "free"
  shell,         \* shell -> the call under way
  queue,         \* jobs in order of submission
  faults         \* preemptions, dead nodes and killed shells so far

(* No run is in the matrices of two shells.                                *)
Separate ==
  /\ Matrix \in [Shells -> SUBSET Runs] /\ "free" \notin Shells
  /\ \A s \in Shells : IsFiniteSet(Matrix[s])
  /\ \A s, t \in Shells : s # t => Matrix[s] \cap Matrix[t] = {}

sweepVars == <<repo, rundir, manifest, lock, shell, queue, faults>>

Nothing == 0                                  \* no version, no job
NoResult == [status |-> "none", job |-> 0, ran |-> 0, says |-> 0]
Away == [at |-> "away"]

SweepInit ==
  /\ repo = 1
  /\ rundir = [r \in Runs |-> [snap |-> Nothing, params |-> Nothing, result |-> NoResult, shown |-> TRUE]]
  /\ manifest = [r \in Runs |-> Nothing]
  /\ lock = "free"
  /\ shell = [s \in Shells |-> Away]
  /\ queue = << >>
  /\ faults = 0

DONE == {"complete", "complete_with_errors"}
ACTIVE == {"PENDING", "RUNNING"}
Jobs == DOMAIN queue
JobsOf(r) == {j \in Jobs : queue[j].run = r /\ queue[j].state \in ACTIVE}
squeue_states == {j \in Jobs : queue[j].state \in ACTIVE}

-----------------------------------------------------------------------------
(* submit.py begins: what is queued, then the latest record of each run.   *)
submit(s) ==
  /\ shell[s] = Away
  /\ \E flag \in Flags :
       shell' = [shell EXCEPT ![s] = [at |-> "build", rest |-> Matrix[s], flag |-> flag,
                                      last |-> [r \in Matrix[s] |-> manifest[r]],
                                      busy |-> {r \in Matrix[s] : manifest[r] \in squeue_states}]]
  /\ UNCHANGED <<repo, rundir, manifest, lock, queue, faults>>

(* build: the snapshots are made one by one, each of them once.  One that *)
(* is there is kept if it would be the same, and stops the whole call if it*)
(* would not; a new one appears before its params.json does.               *)
Keeps(r) == rundir[r].snap # Nothing
Same(r) == rundir[r].params = repo
Built(r, params) ==
  [rundir EXCEPT ![r] = IF Keeps(r) THEN @ ELSE [@ EXCEPT !.snap = repo, !.params = params]]
build(s) ==
  /\ shell[s].at = "build"
  /\ \E r \in shell[s].rest :
       IF Keeps(r) /\ ~Same(r)
       THEN UNCHANGED rundir /\ shell' = [shell EXCEPT ![s] = Away]
       ELSE rundir' = Built(r, repo) /\ shell' = [shell EXCEPT ![s].rest = @ \ {r}]
  /\ UNCHANGED <<repo, manifest, lock, queue, faults>>

(* run_state: what is to be done about a run.  The pool may not show yet   *)
(* the result of a job that has just ended.                                *)
recently_ended(j) == queue[j].state = "ENDED" /\ queue[j].recent
Visible(r) == IF rundir[r].shown THEN rundir[r].result ELSE NoResult
Xrun_state_NoWindow(c, r) ==                                     \* mutant
  IF r \in c.busy THEN "skip"
  ELSE LET st == Visible(r).status IN
       IF st \in DONE THEN "done" ELSE IF st = "failed" THEN "failed" ELSE "submit"
run_state(c, r) ==
  IF r \in c.busy THEN "skip"
  ELSE LET st == Visible(r).status IN
       IF st \in DONE THEN "done"
       ELSE IF st = "failed" THEN "failed"
       ELSE IF st = "none" /\ c.last[r] # Nothing /\ recently_ended(c.last[r]) THEN "skip"
       ELSE "submit"
Wanted(c, r) ==
  LET action == run_state(c, r) IN
  \/ action = "submit"
  \/ action = "done" /\ c.flag = "rerun_complete"
  \/ action = "failed" /\ c.flag = "retry_failed"
decide(s) ==
  LET todo == {r \in Matrix[s] : Wanted(shell[s], r)} IN
  /\ shell[s].at = "build" /\ shell[s].rest = {}
  /\ shell' = [shell EXCEPT ![s] = IF todo = {} THEN Away
                                    ELSE [at |-> "sbatch", flag |-> shell[s].flag, todo |-> todo]]
  /\ UNCHANGED <<repo, rundir, manifest, lock, queue, faults>>

(* Those of one partition, size and time limit are an array, in some       *)
(* order; its records are written before the next array is submitted.      *)
Task(r) == [run |-> r, state |-> "PENDING", at |-> "queued", staged |-> Nothing, recent |-> FALSE]
sbatch_array(s) ==
  LET c == shell[s] IN
  /\ c.at = "sbatch"
  /\ \E group \in SUBSET c.todo \ {{}} :
       LET size == Cardinality(group) IN
       /\ Len(queue) + size <= MaxJobs
       /\ \E array \in Bijection(1 .. size, group) :
            /\ queue' = queue \o [i \in 1 .. size |-> Task(array[i])]
            /\ shell' = [shell EXCEPT ![s] =
                  [at |-> "append", flag |-> c.flag, todo |-> c.todo \ group,
                   ids |-> [r \in group |-> Len(queue) + CHOOSE i \in 1 .. size : array[i] = r]]]
  /\ UNCHANGED <<repo, rundir, manifest, lock, faults>>

(* manifest_append: the file is read, extended and replaced under a lock.  *)
MayLock(s) == lock = "free"
Append_read(s) ==
  /\ shell[s].at = "append" /\ MayLock(s)
  /\ lock' = s
  /\ shell' = [shell EXCEPT ![s] = [at |-> "replace", flag |-> @.flag, todo |-> @.todo, ids |-> @.ids, data |-> manifest]]
  /\ UNCHANGED <<repo, rundir, manifest, queue, faults>>
Append_replace(s) ==
  LET c == shell[s] IN
  /\ c.at = "replace"
  /\ manifest' = [r \in Runs |-> IF r \in DOMAIN c.ids THEN c.ids[r] ELSE c.data[r]]
  /\ lock' = "free"
  /\ shell' = [shell EXCEPT ![s] = IF c.todo = {} THEN Away
                                    ELSE [at |-> "sbatch", flag |-> c.flag, todo |-> c.todo]]
  /\ UNCHANGED <<repo, rundir, queue, faults>>

-----------------------------------------------------------------------------
(* run_one.sh: an attempt puts the old result aside and stages a copy of   *)
(* the snapshot.                                                           *)
stage(j) ==
  LET r == queue[j].run IN
  /\ queue[j].state = "PENDING"
  /\ queue' = [queue EXCEPT ![j].state = "RUNNING", ![j].at = "flow", ![j].staged = rundir[r].snap]
  /\ rundir' = [rundir EXCEPT ![r].result = NoResult, ![r].shown = TRUE]
  /\ UNCHANGED <<repo, manifest, lock, shell, faults>>

(* extract: what the status of an attempt is.  A signal has the last word; *)
(* the flow is complete when it wrote its final metrics.                   *)
Signal == [USR1 |-> "timeout", TERM |-> "terminated"]
status(signal, final, rc, errors) ==
  CASE signal # "none" -> Signal[signal]
    [] signal = "none" /\ final  -> IF rc = 0 /\ ~errors THEN "complete" ELSE "complete_with_errors"
    [] signal = "none" /\ ~final -> "failed"
extract(j) ==
  LET r == queue[j].run IN
  /\ queue[j].at = "flow" /\ queue[j].state = "RUNNING"
  /\ \E signal \in {"none", "USR1"}, final, errors \in BOOLEAN, rc \in 0 .. 1 :
       rundir' = [rundir EXCEPT ![r].result = [status |-> status(signal, final, rc, errors), job |-> j,
                                               ran |-> queue[j].staged, says |-> rundir[r].params],
                                ![r].shown = FALSE]
  /\ queue' = [queue EXCEPT ![j].at = "packing"]
  /\ UNCHANGED <<repo, manifest, lock, shell, faults>>
ends(j) ==
  /\ queue[j].at = "packing" /\ queue[j].state = "RUNNING"
  /\ queue' = [queue EXCEPT ![j].state = "ENDED", ![j].at = "over", ![j].recent = TRUE]
  /\ UNCHANGED <<repo, rundir, manifest, lock, shell, faults>>

(* A task is preempted and queued again, having written that it was        *)
(* terminated or not; or its node dies, or staging fails.                  *)
Fault == faults < MaxFaults /\ faults' = faults + 1
preempted(j) ==
  LET r == queue[j].run IN
  /\ queue[j].state = "RUNNING" /\ Fault
  /\ queue' = [queue EXCEPT ![j].state = "PENDING", ![j].at = "queued"]
  /\ \/ UNCHANGED rundir
     \/ /\ queue[j].at = "flow"
        /\ rundir' = [rundir EXCEPT ![r].result = [status |-> status("TERM", FALSE, 1, FALSE), job |-> j,
                                       ran |-> queue[j].staged, says |-> rundir[r].params], ![r].shown = FALSE]
  /\ UNCHANGED <<repo, manifest, lock, shell>>
dies(j) ==
  /\ queue[j].state = "RUNNING" /\ Fault
  /\ queue' = [queue EXCEPT ![j].state = "ENDED", ![j].at = "over", ![j].recent = TRUE]
  /\ UNCHANGED <<repo, rundir, manifest, lock, shell>>

(* The pool shows a result well within the five minutes for which a job    *)
(* counts as recently ended.                                               *)
appears(r) ==
  /\ ~rundir[r].shown
  /\ rundir' = [rundir EXCEPT ![r].shown = TRUE]
  /\ UNCHANGED <<repo, manifest, lock, shell, queue, faults>>
ages(j) ==
  /\ queue[j].recent /\ rundir[queue[j].run].shown
  /\ queue' = [queue EXCEPT ![j].recent = FALSE]
  /\ UNCHANGED <<repo, rundir, manifest, lock, shell, faults>>

(* The repository changes, which only a call that still builds sees.       *)
(* A call is interrupted within a snapshot; elsewhere that leaves nothing  *)
(* behind, except between an sbatch and its records, where it does not     *)
(* happen here.                                                            *)
edited ==
  /\ repo <= MaxEdits /\ repo' = repo + 1 /\ \E s \in Shells : shell[s].at = "build" /\ shell[s].rest # {}
  /\ UNCHANGED <<rundir, manifest, lock, shell, queue, faults>>
interrupted(s) ==
  /\ shell[s].at = "build" /\ Fault
  /\ shell' = [shell EXCEPT ![s] = Away]
  /\ \E r \in shell[s].rest : ~Keeps(r) /\ rundir' = Built(r, Nothing)
  /\ UNCHANGED <<repo, manifest, lock, queue>>

SweepNext ==
  \/ \E s \in Shells : \/ submit(s) \/ build(s) \/ decide(s) \/ sbatch_array(s)
                       \/ Append_read(s) \/ Append_replace(s) \/ interrupted(s)
  \/ \E j \in Jobs : stage(j) \/ extract(j) \/ ends(j) \/ preempted(j) \/ dies(j) \/ ages(j)
  \/ \E r \in Runs : appears(r)
  \/ edited
SweepSpec == SweepInit /\ [][SweepNext]_sweepVars

-----------------------------------------------------------------------------
(* collect: the row of a run.  A result of an older job is not shown while *)
(* the latest one waits or runs.                                           *)
collect(r) ==
  LET res == Visible(r)  jid == manifest[r] IN
  IF res.job \notin {0, jid} /\ jid \in squeue_states THEN NoResult ELSE res

Unrecorded == UNION {Range(shell[s].ids) : s \in {t \in Shells : shell[t].at \in {"append", "replace"}}}

(* A run has at most one job that waits or runs, so that no two write its  *)
(* directory; no call without a flag is about to submit a run that has     *)
(* completed (submit.py 27-31); and a row that says complete comes from an *)
(* attempt that ran the very snapshot it describes, with no other recorded *)
(* job of the run under way.                                          *)
RunsOnce ==
  /\ \A r \in Runs : Cardinality(JobsOf(r)) <= 1
  /\ \A s \in Shells : shell[s].at = "sbatch" =>
       \A r \in shell[s].todo :
         /\ JobsOf(r) = {}
         /\ shell[s].flag # "rerun_complete" => rundir[r].result.status \notin DONE
  /\ \A r \in Runs : collect(r).status \in DONE =>
       collect(r).ran = collect(r).says /\ JobsOf(r) \subseteq {collect(r).job} \cup Unrecorded
=============================================================================

----------------------------- MODULE Optimizer -----------------------------
(***************************************************************************)
(* The driver of the physical-design optimizer (tools/opt/driver.py): one  *)
(* program that asks a study for configurations, submits a Slurm job for   *)
(* each, promotes the good ones through the sign-off stages, and records   *)
(* every event in an append-only store before it goes on.  It may stop     *)
(* between any two of its effects and is restarted from the store.  The    *)
(* cluster (jobs, preemption, results that appear late) is external.       *)
(*                                                                         *)
(* A handler is an action; the effects it leaves to perform, one event,    *)
(* one word to the study or one deletion each, wait in todo, so that a     *)
(* crash may fall between any two.  What a restart rebuilds is exactly     *)
(* trial and promo, the state of store.py.                                 *)
(***************************************************************************)
EXTENDS Integers, Sequences, FiniteSets, SequencesExt, FiniteSetsExt, TLC, Gates

CONSTANTS
  Keys,           \* effective configurations of the active track
  BadKeys,        \* those the snapshot builder refuses
  Legacy,         \* finished configurations of earlier tracks, to import
  MaxTrials,      \* bound: numbers the study gives out
  NJobs,          \* bound: jobs the cluster accepts
  MaxPromos,      \* bound: promotions
  Slots,          \* CPU_CAP, in jobs
  MAX_ATTEMPTS,
  MAX_PROMOS_IN_FLIGHT,
  BUDGET_RUNS,
  PROMO_RESERVE,
  CheckerRuns,    \* runs of the equivalence checker, by name
  MaxFaults,      \* bound: preemptions, failed submissions, missing and late results
  MaxCrashes      \* bound: times the driver is stopped, or an exception ends a loop

NoKey == "none"
ASSUME OptimizerAssumption ==
  /\ NJobs \in Nat /\ MaxPromos \in Nat /\ MAX_ATTEMPTS \in Nat \ {0}
  /\ Legacy \subseteq Keys /\ NoKey \notin Keys
  /\ SIGNOFF # {}
BackoffLoops == 2           \* bound: loops begun within 5 minutes of a failed submission
Jobs == 1 .. NJobs
FAIL_VALUE == 0             \* a value is the job whose metrics gave it
LegacyValue == -1

VARIABLES
  study,     \* the track's study: what each number was asked, and told
  trial,     \* store: the trials, by number
  promo,     \* store: the promotions, in order
  earlier,   \* store: the trials of earlier tracks that have finished
  job,       \* cluster: state and directory of a job, and whether the pool shows its result
  res,       \* disk: result.json (and out/) of each run directory
  snap,      \* disk: run directories that hold their snapshot
  sub,       \* disk: the job whose files a promotion's sub/ holds
  at,        \* where the driver's loop is
  todo,      \* effects the handler in progress has still to perform
  loop,      \* what the driver remembers within a loop
  stopfile, faults, crashes,
  torn       \* history: an exception fell between an import's study and its store

store == <<study, trial, promo, earlier>>
disk == <<res, snap, sub>>
env == <<stopfile, faults, crashes, torn>>
vars == <<store, job, disk, at, todo, loop, env>>

FlowDir(mode, k) == <<mode, k>>
OutDir(p, stage, attempt) == <<stage, p, attempt>>
Dirs == ({"fast", "full"} \X Keys)
          \cup (SIGNOFF \X (1 .. MaxPromos) \X (1 .. MAX_ATTEMPTS))
IsFlow(d) == d[1] \in {"fast", "full"}
Outcomes(d) ==         \* what a job may leave there ("none": no result)
  CASE IsFlow(d)     -> {"legal", "illegal", "none"}
    [] d[1] = "eq"   -> DOMAIN CheckerRuns \cup {"none"}
    [] d[1] = "gl"   -> {"pass", "fail", "not_run", "none"}
    [] OTHER         -> {"pass", "fail", "none"}
NoResult == [job |-> 0, status |-> "none"]

Active == {"pending", "running"}
ActiveJobs == {j \in Jobs : job[j].state \in Active}
Unused == {j \in Jobs : job[j].state = "unused"}

(***************************************************************************)
(* The store's state and its queries.                                      *)
(***************************************************************************)
NewTrial(k, state, built) ==
  [state |-> state, key |-> k, built |-> built, of |-> 0, from |-> NoKey, attempt |-> 0,
   job |-> 0, submits |-> {}, value |-> FAIL_VALUE, legal |-> FALSE, lost |-> FALSE]
NewPromo(n) == [uid |-> n, st |-> [s \in STAGES |-> NoStage]]

Trials == DOMAIN trial
Promos == DOMAIN promo
InFlight == {n \in Trials : trial[n].state = "submitted"}
StagesInFlight == {ps \in Promos \X STAGES : promo[ps[1]].st[ps[2]].state = "submitted"}
DirOf(p) == FlowDir("full", trial[promo[p].uid].key)
Dup(n) == trial[n].of # 0

\* trials and promoted full runs that were submitted at least once
librelane_runs ==
  Cardinality({n \in Trials : trial[n].submits # {}})
    + Cardinality({p \in Promos : promo[p].st["full"].state # "none"})

pending_signoffs ==
  {ps \in Promos \X SIGNOFF : /\ promo[ps[1]].st["full"].result = "legal"
                              /\ promo[ps[1]].st[ps[2]].state = "none"}

Promoted == {promo[p].uid : p \in Promos}

XOriginal_DoneOnly(k) ==
  {n \in Trials : trial[n].key = k /\ trial[n].state = "done" /\ ~trial[n].lost /\ ~Dup(n)}

\* a run or a finished result that a new trial with this configuration reuses
Original(k) ==
  {n \in Trials : /\ trial[n].key = k
                  /\ trial[n].state \in {"submitted", "done"}
                  /\ ~trial[n].lost
                  /\ ~Dup(n)}

(***************************************************************************)
(* Effects.  An emitted event changes the store and the state rebuilt from *)
(* it together (emit); the study and the disk keep what they are told.     *)
(***************************************************************************)
Emit(n, t) == [op |-> "trial", n |-> n, rec |-> t]          \* the record after the event
EmitStage(p, s, st) == [op |-> "stage", n |-> p, stage |-> s, rec |-> st]
EmitPromo(n) == [op |-> "promo", n |-> n]
Tell(n, v) == [op |-> "tell", n |-> n, value |-> v]
RemoveSnap(d) == [op |-> "rmtree", dir |-> d]

TellStudy(n, v) ==     \* skip_if_finished
  study' = IF study[n].state = "running"
           THEN [study EXCEPT ![n].state = "complete", ![n].value = v] ELSE study

Perform ==
  LET e == Head(todo) IN
  /\ todo # << >>
  /\ todo' = Tail(todo)
  /\ trial' = IF e.op = "trial"
              THEN [n \in Trials \cup {e.n} |-> IF n = e.n THEN e.rec ELSE trial[n]]
              ELSE trial
  /\ promo' = CASE e.op = "promo" -> Append(promo, NewPromo(e.n))
                [] e.op = "stage" -> [promo EXCEPT ![e.n].st[e.stage] = e.rec]
                [] OTHER -> promo
  /\ IF e.op = "tell" THEN TellStudy(e.n, e.value) ELSE UNCHANGED study
  /\ snap' = IF e.op = "rmtree" THEN snap \ {e.dir} ELSE snap
  /\ UNCHANGED <<earlier, job, res, sub, at, loop, env>>

(***************************************************************************)
(* submit(): within the CPU cap, and not while backing off.  sbatch may    *)
(* refuse the job, or accept it and not answer in time: then the driver    *)
(* knows no job id, and backs off all the same.                            *)
(***************************************************************************)

CanSubmit(l) == l.backoff = 0 /\ l.free > 0

Queued(d) == [state |-> "pending", dir |-> d, shown |-> FALSE]

Goto(place) == at' = place

\* One submission by a handler that has reached l: the events of a job that
\* was accepted are left to emit, and the handler goes on at done or at failed.
Submit(d, events, l, done, failed) ==
  \/ /\ CanSubmit(l)
     /\ Unused # {}
     /\ LET j == Min(Unused) IN job' = [job EXCEPT ![j] = Queued(d)] /\ todo' = events[j]
     /\ loop' = [l EXCEPT !.free = @ - 1]
     /\ Goto(done)
     /\ UNCHANGED env
  \/ /\ ~CanSubmit(l)
     /\ loop' = l
     /\ Goto(failed)
     /\ UNCHANGED <<job, todo, env>>
  \/ /\ CanSubmit(l)
     /\ loop' = [l EXCEPT !.backoff = BackoffLoops]
     /\ \/ Unused = {} /\ UNCHANGED <<job, faults>>
        \/ /\ faults < MaxFaults
           /\ faults' = faults + 1
           /\ \/ UNCHANGED job
              \/ Unused # {} /\ job' = [job EXCEPT ![Min(Unused)] = Queued(d)]
     /\ Goto(failed)
     /\ UNCHANGED <<todo, stopfile, crashes, torn>>

(***************************************************************************)
(* The driver goes through its places in order and waits at the first one  *)
(* with something to do; Nothing says that a place is passed.              *)
(***************************************************************************)
Places == <<"repair", "import", "reconcile", "list", "rescan", "rescanned",
            "trials", "promos", "reimport", "stop", "full", "signoff", "promote", "promoted", "new", "ask", "end">>
PlaceNumber(place) == CHOOSE i \in DOMAIN Places : Places[i] = place

XUnknownImports_None == {}

\* imports in the study that the store does not know
UnknownImports == {n \in DOMAIN study : study[n].from # NoKey /\ n \notin Trials}
ToImport == {k \in earlier : \A n \in Trials : trial[n].from # k}
XToReconcile_Unknown ==
  {n \in DOMAIN study : study[n].state = "running" /\ (n \in Trials => trial[n].state # "new")}

\* running in the study, and unknown to the store or over
ToReconcile == {n \in DOMAIN study : /\ study[n].state = "running"
                                     /\ n \in Trials => trial[n].state \in {"done", "rejected"}}
TrialsToPoll == {n \in InFlight : <<n, "trial">> \notin loop.polled}
XStagesToPoll_All ==
  {ps \in Promos \X STAGES : promo[ps[1]].st[ps[2]].job # 0} \ loop.polled

StagesToPoll == StagesInFlight \ loop.polled

\* the STOP file stops everything, the budget only new trials
stop_reason ==
  IF stopfile THEN "hard"
  ELSE IF librelane_runs >= BUDGET_RUNS - PROMO_RESERVE THEN "budget" ELSE "no"

FullToSubmit == {p \in Promos : promo[p].st["full"].state = "none"}
NewToSubmit == {n \in Trials : trial[n].state = "new" /\ trial[n].built}
MayAsk == /\ loop.stop = "no" /\ loop.free > 0 /\ loop.backoff = 0
          /\ Len(study) < MaxTrials
          /\ librelane_runs < BUDGET_RUNS - PROMO_RESERVE

Nothing(place) ==
  CASE place \in {"repair", "rescan"}                 -> UnknownImports = {}
    [] place \in {"import", "rescanned", "reimport"}  -> ToImport = {}
    [] place = "reconcile"    -> ToReconcile = {}
    [] place = "trials"       -> TrialsToPoll = {}
    [] place = "promos"       -> StagesToPoll = {}
    [] place = "stop"         -> loop.stop = stop_reason
    [] place = "full"         -> FullToSubmit = {} \/ loop.stop = "hard"
    [] place = "signoff"      -> pending_signoffs = {}
    [] place = "promote"      -> TRUE
    [] place = "promoted"     -> at # "promoted"
    [] place = "new"          -> loop.stop # "no" \/ NewToSubmit = {}
    [] place = "ask"          -> ~MayAsk
    [] OTHER                  -> FALSE

Here(place) ==
  /\ todo = << >>
  /\ at \in {Places[i] : i \in 1 .. PlaceNumber(place)}
  /\ \A i \in PlaceNumber(at) .. PlaceNumber(place) - 1 : Nothing(Places[i])

(***************************************************************************)
(* Start: imports a stopped driver added to the study only are recorded,   *)
(* further ones made, and the study told of what the store knows.  The     *)
(* first two are done again in the loop, every DISCOVER_S (1343-1345).     *)
(***************************************************************************)
FreshLoop == [listing |-> {}, queued |-> {}, polled |-> {}, free |-> 0,
              backoff |-> 0, stop |-> "no", drained |-> FALSE]

Start ==
  /\ at = "down"
  /\ Goto("repair")
  /\ UNCHANGED <<store, job, disk, todo, loop, env>>

record_import(n, k) ==
  Emit(n, [NewTrial(k, "done", TRUE) EXCEPT !.from = k, !.value = LegacyValue, !.legal = TRUE])

repair_imports ==
  /\ \/ Here("repair") /\ Goto("import")
     \/ Here("rescan") /\ Goto("rescanned")
  /\ UnknownImports # {}
  /\ todo' = LET s == SetToSeq(UnknownImports) IN
             [i \in DOMAIN s |-> record_import(s[i], study[s[i]].from)]
  /\ UNCHANGED <<store, job, disk, loop, env>>

\* the study first, the store second
import_trials ==
  /\ \/ Here("import") /\ Goto("import")
     \/ Here("rescanned") /\ Goto("rescanned")
     \/ Here("reimport") /\ Goto("reimport")
  /\ \E k \in ToImport :
       /\ study' = Append(study, [state |-> "complete", value |-> LegacyValue, from |-> k])
       /\ todo' = <<record_import(Len(study) + 1, k)>>
  /\ UNCHANGED <<trial, promo, earlier, job, disk, loop, env>>

reconcile ==
  /\ Here("reconcile")
  /\ ToReconcile # {}
  /\ Goto("list")
  /\ todo' = LET s == SetToSeq(ToReconcile) IN
             [i \in DOMAIN s |-> Tell(s[i], IF s[i] \in Trials THEN trial[s[i]].value ELSE FAIL_VALUE)]
  /\ UNCHANGED <<store, job, disk, loop, env>>

(***************************************************************************)
(* The loop.  The job list is read once; everything after uses that list.  *)
(***************************************************************************)
Busy == \/ InFlight # {} \/ StagesInFlight # {}
        \/ pending_signoffs # {} /\ loop.stop # "hard"

ListJobs ==
  /\ Here("list") \/ (Here("end") /\ (loop.stop = "no" \/ Busy))
  /\ \E b \in {0, IF loop.backoff = 0 THEN 0 ELSE loop.backoff - 1} :
       loop' = [loop EXCEPT !.listing = ActiveJobs, !.polled = {}, !.backoff = b,
                            !.queued = {j \in Jobs : job[j].state = "pending"},
                            !.free = Slots - Cardinality(ActiveJobs)]
  /\ \/ Goto("trials")
     \/ (UnknownImports # {} \/ ToImport # {}) /\ Goto("rescan")     \* DISCOVER_S has passed
  /\ UNCHANGED <<store, job, disk, todo, env>>

Finish ==
  /\ Here("end")
  /\ loop.stop # "no" /\ ~Busy
  /\ Goto("finished")
  /\ UNCHANGED <<store, job, disk, todo, loop, env>>

XVisible_AnyJob(j, d) == res[d].job # 0 /\ job[j].shown

Visible(j, d) == res[d].job = j /\ job[j].shown

Xjob_outcome_NoGrace(j, d) ==
  CASE j \in loop.listing -> "active"
    [] j \notin loop.listing /\ Visible(j, d) ->
         IF res[d].status = "terminated" THEN "retry" ELSE "done"
    [] OTHER -> "wait"

job_outcome(j, d) ==
  CASE j \in loop.listing -> "active"
    [] j \notin loop.listing /\ Visible(j, d) ->
         IF res[d].status = "terminated" THEN "retry" ELSE "done"
    [] OTHER -> IF job[j].state = "old" THEN "retry" ELSE "wait"

NoMetrics == [value |-> FAIL_VALUE, legal |-> FALSE, lost |-> TRUE]

\* a run of the job that is to be read, or nothing usable after the last attempt
Evaluation(j, d) ==
  IF ~Visible(j, d) THEN NoMetrics
  ELSE [value |-> IF res[d].status = "terminated" THEN FAIL_VALUE ELSE res[d].job,
        legal |-> res[d].status = "legal", lost |-> FALSE]

Result(t) == [value |-> t.value, legal |-> t.legal, lost |-> t.lost]

Done(t, ev) == [t EXCEPT !.state = "done", !.value = ev.value, !.legal = ev.legal, !.lost = ev.lost]
\* a trial's end, recorded and told; and those of several, one after the other
finish(n, t, ev) == <<Emit(n, Done(t, ev)), Tell(n, ev.value)>>
finish_all(ns, ev) ==
  [i \in 1 .. 2 * Len(ns) |-> LET n == ns[(i + 1) \div 2] IN
                              IF i % 2 = 1 THEN Emit(n, Done(trial[n], ev)) ELSE Tell(n, ev.value)]

submit_trial(n, attempt, l, done, failed) ==
  Submit(FlowDir("fast", trial[n].key),
         [j \in Jobs |-> <<Emit(n, [trial[n] EXCEPT !.state = "submitted", !.job = j, !.attempt = attempt,
                                                    !.submits = @ \cup {j}])>>],
         l, done, failed)

poll_trials ==
  LET n == Min(TrialsToPoll)
      t == trial[n]
      d == FlowDir("fast", t.key)
      o == job_outcome(t.job, d)
      ev == Evaluation(t.job, d)
      dups == {m \in Trials : trial[m].state = "dup" /\ trial[m].of = n}
      l == [loop EXCEPT !.polled = @ \cup {<<n, "trial">>}] IN
  /\ Here("trials")
  /\ TrialsToPoll # {}
  /\ IF o = "retry" /\ t.attempt < MAX_ATTEMPTS
     THEN submit_trial(n, t.attempt + 1, l, "trials", "trials")
     ELSE /\ loop' = l
          /\ todo' = IF o \in {"active", "wait"} THEN << >>
                     ELSE finish_all(<<n>> \o SetToSeq(dups), ev) \o <<RemoveSnap(d)>>
          /\ Goto("trials")
          /\ UNCHANGED <<job, env>>
  /\ UNCHANGED <<store, disk>>

(***************************************************************************)
(* Promotions: the full run, polled as a trial is; then the sign-off jobs, *)
(* whose result is theirs only if it carries their job id.  A job that     *)
(* ended without one, and an equivalence check that ran out of time, are   *)
(* submitted again.                                                        *)
(***************************************************************************)
submit_stage(p, s, attempt, d, l, done, failed) ==
  Submit(d, [j \in Jobs |-> <<EmitStage(p, s, [promo[p].st[s] EXCEPT !.state = "submitted", !.job = j,
                                                 !.attempt = attempt, !.submits = @ \cup {j}])>>],
         l, done, failed)

StageDone(p, s, result) == EmitStage(p, s, [promo[p].st[s] EXCEPT !.state = "done", !.result = result])

poll_full(p, l) ==
  LET st == promo[p].st["full"]
      o == job_outcome(st.job, DirOf(p))
      ev == Evaluation(st.job, DirOf(p)) IN
  IF o = "retry" /\ st.attempt < MAX_ATTEMPTS
  THEN submit_stage(p, "full", st.attempt + 1, DirOf(p), l, "promos", "promos")
  ELSE /\ loop' = l
       /\ todo' = IF o \in {"active", "wait"} THEN << >>
                  ELSE <<StageDone(p, "full", IF ev.legal THEN "legal" ELSE "illegal"),
                         RemoveSnap(DirOf(p))>>
       /\ Goto("promos")
       /\ UNCHANGED <<job, env>>

read_signoff(p, s) ==
  LET st == promo[p].st[s]
      r == res[OutDir(p, s, st.attempt)] IN
  IF ~Visible(st.job, OutDir(p, s, st.attempt)) THEN "none"
  ELSE IF s = "eq" THEN eq_record(CheckerRuns[r.status]) ELSE r.status

poll_signoff(p, s, l) ==
  LET st == promo[p].st[s]
      r == read_signoff(p, s)
      again == \/ s = "eq" /\ eq_should_retry(r, st.attempt, MAX_ATTEMPTS)
               \/ r = "none" /\ job[st.job].state = "old" /\ st.attempt < MAX_ATTEMPTS IN
  IF st.job \notin loop.listing /\ again
  THEN submit_stage(p, s, st.attempt + 1, OutDir(p, s, st.attempt + 1), l, "promos", "promos")
  ELSE /\ loop' = l
       /\ todo' = IF \/ st.job \in loop.listing
                     \/ r = "none" /\ job[st.job].state # "old"
                  THEN << >> ELSE <<StageDone(p, s, IF r = "none" THEN "fail" ELSE r)>>
       /\ Goto("promos")
       /\ UNCHANGED <<job, env>>

poll_promos ==
  LET ps == CHOOSE ps \in StagesToPoll : TRUE
      l == [loop EXCEPT !.polled = @ \cup {ps}] IN
  /\ Here("promos")
  /\ StagesToPoll # {}
  /\ IF ps[2] = "full" THEN poll_full(ps[1], l) ELSE poll_signoff(ps[1], ps[2], l)
  /\ UNCHANGED <<store, disk>>

(***************************************************************************)
(* A hard stop cancels, once, the trials whose job had not started when    *)
(* the list was read.                                                      *)
(***************************************************************************)
drain ==
  LET pend == IF stop_reason = "hard" /\ ~loop.drained
              THEN {n \in InFlight : trial[n].job \in loop.queued} ELSE {} IN
  /\ Here("stop")
  /\ loop.stop # stop_reason
  /\ Goto("full")
  /\ loop' = [loop EXCEPT !.stop = stop_reason, !.drained = @ \/ stop_reason = "hard"]
  /\ job' = [j \in Jobs |-> IF j \in {trial[n].job : n \in pend}
                            THEN [job[j] EXCEPT !.state = "ended"] ELSE job[j]]
  /\ todo' = finish_all(SetToSeq(pend), NoMetrics)
  /\ UNCHANGED <<store, disk, env>>

(***************************************************************************)
(* fill(): full runs whose submission failed, then sign-off jobs, then one *)
(* promotion, then trials never submitted, then new trials.  A submission  *)
(* that fails ends the loop, so that the next one begins with it.          *)
(***************************************************************************)
fill_full ==
  LET p == Min(FullToSubmit) IN
  /\ Here("full")
  /\ FullToSubmit # {} /\ loop.stop # "hard"
  /\ submit_stage(p, "full", 1, DirOf(p), loop, "full", "end")
  /\ UNCHANGED <<store, disk>>

\* sub/ is filled once, from the files of the full run's directory
prepare_sub(p) == IF sub[p] = 0 /\ res[DirOf(p)].status = "legal" THEN res[DirOf(p)].job ELSE sub[p]

fill_signoff ==
  LET ps == CHOOSE ps \in pending_signoffs : TRUE
      p == ps[1] IN
  /\ Here("signoff")
  /\ pending_signoffs # {}
  /\ IF loop.free = 0
     THEN Goto("end") /\ UNCHANGED <<job, todo, loop, env, sub>>
     ELSE /\ sub' = [sub EXCEPT ![p] = prepare_sub(p)]
          /\ IF prepare_sub(p) = 0     \* no final views: the stage fails
             THEN todo' = <<StageDone(p, ps[2], "fail")>> /\ Goto("signoff") /\ UNCHANGED <<job, loop, env>>
             ELSE submit_stage(p, ps[2], 1, OutDir(p, ps[2], 1), loop, "signoff", "end")
  /\ UNCHANGED <<store, res, snap>>

\* the snapshot is built first; whether a legal trial is good enough is left open
maybe_promote ==
  LET inflight == {p \in Promos : \E s \in STAGES \ {"eq"} : promo[p].st[s].state = "submitted"}
      good == {n \in Trials : /\ trial[n].state = "done" /\ trial[n].legal /\ ~Dup(n)
                              /\ n \notin Promoted} IN
  /\ Here("promote")
  /\ loop.stop # "hard"
  /\ Cardinality(inflight) < MAX_PROMOS_IN_FLIGHT
  /\ librelane_runs < BUDGET_RUNS
  /\ loop.free > 0
  /\ Len(promo) < MaxPromos
  /\ \E n \in good : /\ snap' = snap \cup {FlowDir("full", trial[n].key)}
                     /\ todo' = <<EmitPromo(n)>>
  /\ Goto("promoted")
  /\ UNCHANGED <<store, job, res, sub, loop, env>>

\* the first submission of the promotion just made; new trials follow either way
promote_submit ==
  /\ at = "promoted" /\ todo = << >>
  /\ submit_stage(Len(promo), "full", 1, DirOf(Len(promo)), loop, "new", "new")
  /\ UNCHANGED <<store, disk>>

fill_new ==
  /\ Here("new")
  /\ loop.stop = "no" /\ NewToSubmit # {}
  /\ submit_trial(Min(NewToSubmit), 1, loop, "new", "end")
  /\ UNCHANGED <<store, disk>>

\* A number of the study, with the configuration it asks for: refused, the
\* duplicate of a run, or a snapshot of its own, which fill_new then submits.
new_trial ==
  LET n == Len(study) + 1 IN
  /\ Here("ask")
  /\ MayAsk
  /\ \E k \in Keys :
       LET o == Original(k)
           dup == [NewTrial(k, "dup", TRUE) EXCEPT !.of = Min(o)] IN
       /\ study' = Append(study, [state |-> "running", value |-> FAIL_VALUE, from |-> NoKey])
       /\ IF o # {}
          THEN /\ Goto("ask")
               /\ todo' = <<Emit(n, NewTrial(k, "new", TRUE)), Emit(n, dup)>>
                           \o IF trial[Min(o)].state = "done"
                              THEN finish(n, dup, Result(trial[Min(o)])) ELSE << >>
               /\ UNCHANGED snap
          ELSE IF k \in BadKeys
          THEN /\ Goto("ask")
               /\ todo' = <<Emit(n, NewTrial(k, "new", FALSE)), Emit(n, NewTrial(k, "rejected", FALSE)), Tell(n, FAIL_VALUE)>>
               /\ UNCHANGED snap
          ELSE /\ Goto("new")
               /\ todo' = <<Emit(n, NewTrial(k, "new", TRUE))>>
               /\ snap' = snap \cup {FlowDir("fast", k)}
  /\ UNCHANGED <<trial, promo, earlier, job, res, sub, loop, env>>

(***************************************************************************)
(* Outside the driver: it is stopped at any point; jobs start, are         *)
(* preempted and queued again, and end; the pool shows a result at once or *)
(* late, maybe only after the driver has stopped waiting for it.           *)
(***************************************************************************)
Crash ==
  /\ at \notin {"down", "finished"}
  /\ crashes < MaxCrashes
  /\ crashes' = crashes + 1
  /\ Goto("down")
  /\ todo' = << >>
  /\ loop' = FreshLoop
  /\ UNCHANGED <<store, job, disk, stopfile, faults, torn>>

\* an exception is logged and the next loop begins; what the handler had still to do is not done
LoopError ==
  /\ at \in {Places[i] : i \in PlaceNumber("rescan") .. PlaceNumber("ask")}
  /\ todo # << >>
  /\ crashes < MaxCrashes
  /\ crashes' = crashes + 1
  /\ torn' = (torn \/ at \in {"rescanned", "reimport"})
  /\ Goto("end")
  /\ todo' = << >>
  /\ UNCHANGED <<store, job, disk, loop, stopfile, faults>>

StopFile ==
  /\ ~stopfile
  /\ stopfile' = TRUE
  /\ UNCHANGED <<store, job, disk, at, todo, loop, faults, crashes, torn>>

\* poll_trials goes through the trials of earlier tracks as well
EarlierEnds ==
  /\ at = "trials" /\ todo = << >>
  /\ \E k \in Legacy \ earlier : earlier' = earlier \cup {k}
  /\ UNCHANGED <<study, trial, promo, job, disk, at, todo, loop, env>>

\* an old result is moved away; a run without its snapshot cannot start
StartJob(j) ==
  LET d == job[j].dir IN
  /\ job[j].state = "pending"
  /\ job' = [job EXCEPT ![j].state = IF IsFlow(d) /\ d \notin snap THEN "ended" ELSE "running"]
  /\ res' = IF IsFlow(d) \/ d[1] = "eq" THEN [res EXCEPT ![d] = NoResult] ELSE res
  /\ UNCHANGED <<store, snap, sub, at, todo, loop, env>>

PreemptJob(j) ==
  LET d == job[j].dir IN
  /\ job[j].state = "running"
  /\ faults < MaxFaults
  /\ faults' = faults + 1
  /\ job' = [job EXCEPT ![j].state = "pending"]
  /\ res' \in {res} \cup (IF IsFlow(d) THEN {[res EXCEPT ![d] = [job |-> j, status |-> "terminated"]]} ELSE {})
  /\ UNCHANGED <<store, snap, sub, at, todo, loop, stopfile, crashes, torn>>

EndJob(j) ==
  LET d == job[j].dir IN
  /\ job[j].state = "running"
  /\ \E o \in Outcomes(d), now \in BOOLEAN :
       /\ IF o = "none" \/ ~now THEN faults < MaxFaults /\ faults' = faults + 1 ELSE UNCHANGED faults
       /\ job' = [job EXCEPT ![j].state = "ended", ![j].shown = now]
       /\ res' = IF o = "none" THEN res ELSE [res EXCEPT ![d] = [job |-> j, status |-> o]]
  /\ UNCHANGED <<store, snap, sub, at, todo, loop, stopfile, crashes, torn>>

ShowResult(j) ==
  /\ job[j].state \in {"ended", "old"} /\ ~job[j].shown
  /\ job' = [job EXCEPT ![j].shown = TRUE]
  /\ UNCHANGED <<store, disk, at, todo, loop, env>>

\* RESULT_GRACE_S has passed since the end that sacct gives
GraceOver(j) ==
  /\ job[j].state = "ended"
  /\ job' = [job EXCEPT ![j].state = "old"]
  /\ UNCHANGED <<store, disk, at, todo, loop, env>>

Init ==
  /\ study = << >> /\ trial = << >> /\ promo = << >>
  /\ earlier \in SUBSET Legacy
  /\ job = [j \in Jobs |-> [state |-> "unused", dir |-> << >>, shown |-> FALSE]]
  /\ res = [d \in Dirs |-> NoResult]
  /\ snap = {}
  /\ sub = [p \in 1 .. MaxPromos |-> 0]
  /\ at = "down" /\ todo = << >> /\ loop = FreshLoop
  /\ stopfile = FALSE /\ faults = 0 /\ crashes = 0 /\ torn = FALSE

Driver ==
  \/ Perform \/ Start \/ repair_imports \/ import_trials \/ reconcile
  \/ ListJobs \/ poll_trials \/ poll_promos \/ drain
  \/ fill_full \/ fill_signoff \/ maybe_promote \/ promote_submit \/ fill_new \/ new_trial
  \/ Finish

Cluster(j) == StartJob(j) \/ EndJob(j) \/ GraceOver(j)

Next ==
  \/ Driver \/ Crash \/ LoopError \/ StopFile \/ EarlierEnds
  \/ \E j \in Jobs : Cluster(j) \/ PreemptJob(j) \/ ShowResult(j)

Spec == Init /\ [][Next]_vars

\* the driver waits for a result of this job
Awaited(j) == /\ j \in {trial[n].job : n \in Trials} \cup {promo[p].st[s].job : p \in Promos, s \in STAGES}
              /\ ~Visible(j, job[j].dir)

\* The driver keeps looping, the cluster starts and ends the jobs it was given
\* (in any order: each has finitely many steps), and time passes for a result
\* that does not appear.
ClusterWorks ==
  \E j \in Jobs : StartJob(j) \/ EndJob(j) \/ (Awaited(j) /\ GraceOver(j))

FairSpec == Spec /\ WF_vars(Driver) /\ WF_vars(ClusterWorks)

-----------------------------------------------------------------------------
(***************************************************************************)
(* Properties.                                                             *)
(***************************************************************************)
\* A value is kept from metrics of a run that was recorded for the trial, or
\* for the trial it duplicates, and is over; never from another job that wrote
\* the same directory (evaluate_run compares job ids).
ResultOfItsJob ==
  \A n \in Trials :
    trial[n].state = "done" /\ trial[n].value > 0 =>
      LET o == IF Dup(n) THEN trial[n].of ELSE n IN
      /\ trial[n].value \in trial[o].submits
      /\ trial[n].value = trial[o].value
      /\ job[trial[n].value].state \notin Active

\* The study and the store tell one story: what the study calls complete is
\* over in the store, with the value the study was told, across restarts.
StudyAgrees ==
  \A n \in DOMAIN study \cap Trials :
    study[n].state = "complete" /\ todo = << >> =>
      /\ trial[n].state \in {"done", "rejected"}
      /\ study[n].value = trial[n].value

\* A finished run of an earlier track enters the study once, even when the
\* driver stopped between the study and the store; but not when an exception
\* fell there, since the next loop may import before it repairs.
ImportedOnce ==
  ~torn => \A k \in Legacy : Cardinality({n \in DOMAIN study : study[n].from = k}) <= 1

\* A configuration that is running, has run or was imported does not run again:
\* a number that asks for it later is a duplicate.
OneRunPerConfig ==
  \A m, n \in Trials :
    /\ m < n /\ trial[m].key = trial[n].key /\ trial[n].from = NoKey
    /\ trial[m].state \in {"submitted", "done"} /\ trial[n].state \in {"submitted", "done"}
    /\ ~trial[m].lost /\ ~trial[n].lost
    => Dup(m) \/ Dup(n)

\* ... as long as the driver was never stopped on the way.
OneRunUnlessStopped == crashes = 0 => OneRunPerConfig

\* jobs in a promotion's directory that its record does not name
OtherJobs(p) == {j \in Jobs : /\ job[j].state # "unused" /\ job[j].dir = DirOf(p)
                              /\ j \notin promo[p].st["full"].submits}

\* PASS means: the files that were signed off are those of the run whose result
\* was found legal, unless a stopped driver, a lost answer or a promotion of the
\* same configuration put another job into that directory; and the equivalence
\* checker ended by itself, proved, and read the files it was given.
PassIsSignedOff ==
  \A p \in Promos :
    promotion_verdict(promo[p].st) = "PASS" =>
      LET eq == promo[p].st["eq"]
          r == res[OutDir(p, "eq", eq.attempt)] IN
      /\ sub[p] = promo[p].st["full"].job \/ OtherJobs(p) # {}
      /\ "eq" \in SIGNOFF /\ r.job = eq.job =>
           LET c == CheckerRuns[r.status] IN c.verdict = "equivalent" /\ c.outer = 0 /\ c.inputs

\* A verdict that was given stands: no later poll, retry or restart revises it.
VerdictFinal ==
  [][\A p \in Promos : LET v == promotion_verdict(promo[p].st) IN
       v \in {"PASS", "FAIL", "INCOMPLETE"} => promotion_verdict(promo'[p].st) = v]_vars

\* Nothing stays submitted for ever: again and again no trial and no stage of a
\* promotion has a job out, whatever is preempted, lost, late, refused or stopped.
SubmittedEnds == []<>(InFlight = {} /\ StagesInFlight = {})
=============================================================================

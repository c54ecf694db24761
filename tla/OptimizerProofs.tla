-------------------------- MODULE OptimizerProofs --------------------------
(***************************************************************************)
(* Proofs about the optimizer's driver (module Optimizer), for any number  *)
(* of jobs, promotions, attempts and stops.                                *)
(*                                                                         *)
(* The driver may be stopped between any two effects, so every invariant   *)
(* speaks of the effects that are still to perform (todo) as well as of    *)
(* the store, the study and the disk.                                      *)
(***************************************************************************)
EXTENDS Optimizer, FiniteSetTheorems, SequenceTheorems, WellFoundedInduction, TLAPS

-----------------------------------------------------------------------------
(***************************************************************************)
(* Types.                                                                  *)
(***************************************************************************)
TrialRec ==
  [state : {"new", "submitted", "dup", "done", "rejected"}, key : Keys, built : BOOLEAN, of : Nat,
   from : Legacy \cup {NoKey}, attempt : 0 .. MAX_ATTEMPTS, job : 0 .. NJobs,
   submits : SUBSET Jobs, value : Int, legal : BOOLEAN, lost : BOOLEAN]
Statuses == {"none", "legal", "illegal", "pass", "fail", "not_run", "terminated"} \cup DOMAIN CheckerRuns
Results == Statuses \cup DOMAIN FE_VERDICTS \cup {"error", "timeout"}
StageFields ==
  [state : {"none", "submitted", "done"}, job : 0 .. NJobs, attempt : 0 .. MAX_ATTEMPTS,
   submits : SUBSET Jobs, result : Results]
StageRec == {st \in StageFields : st.state = "submitted" => st.attempt # 0}
StudyRec == [state : {"running", "complete"}, value : Int, from : Legacy \cup {NoKey}]
PromoRec == [uid : Nat, st : [STAGES -> StageRec]]
JobStates == {"unused", "pending", "running", "ended", "old"}

TrialEffects == [op : {"trial"}, n : Nat, rec : TrialRec]
StageEffects == [op : {"stage"}, n : Nat, stage : STAGES, rec : StageRec]
PromoEffects == [op : {"promo"}, n : Nat]
TellEffects == [op : {"tell"}, n : Nat, value : Int]
RmEffects == [op : {"rmtree"}, dir : Dirs]
Effects == TrialEffects \cup StageEffects \cup PromoEffects \cup TellEffects \cup RmEffects

StoreOK ==
  /\ study \in Seq(StudyRec)
  /\ Trials \subseteq DOMAIN study
  /\ \A n \in Trials : trial[n] \in TrialRec
  /\ promo \in Seq(PromoRec) /\ Len(promo) <= MaxPromos
  /\ \A p \in Promos : promo[p].uid \in Trials
  /\ earlier \subseteq Legacy
ClusterOK ==
  /\ DOMAIN job = Jobs
  /\ \A j \in Jobs : /\ job[j].state \in JobStates /\ job[j].shown \in BOOLEAN
                     /\ job[j].state \in Active => job[j].dir \in Dirs
                     /\ job[j].shown => job[j].state \in {"ended", "old"}
                     /\ job[j] = [state |-> job[j].state, dir |-> job[j].dir, shown |-> job[j].shown]
  /\ res \in [Dirs -> [job : 0 .. NJobs, status : Statuses]]
  /\ sub \in [1 .. MaxPromos -> 0 .. NJobs]
\* the effects of a handler, and what they are about
TodoOK ==
  /\ todo \in Seq(Effects)
  /\ \A i \in DOMAIN todo :
       /\ todo[i].op \in {"trial", "tell"} => todo[i].n \in DOMAIN study
       /\ todo[i].op = "promo" => i = 1 /\ todo[i].n \in Trials /\ Len(promo) < MaxPromos
       /\ todo[i].op = "stage" => i = 1 /\ todo[i].n \in Promos
OptimizerTypeOK == StoreOK /\ ClusterOK /\ TodoOK /\ crashes \in Nat /\ torn \in BOOLEAN

-----------------------------------------------------------------------------
(***************************************************************************)
(* Stages.  The event of a stage is the first of its handler, and a stage  *)
(* that is done has none: its record stands.                               *)
(***************************************************************************)
StageEvents == {i \in DOMAIN todo : todo[i].op = "stage"}
StagesStand ==
  /\ \A i \in StageEvents : promo[todo[i].n].st[todo[i].stage].state # "done"
  /\ at = "promoted" /\ todo = << >> =>
       Promos # {} /\ promo[Len(promo)].st["full"].state = "none"
  /\ at = "promoted" /\ todo # << >> => Len(todo) = 1 /\ todo[1].op = "promo"

(***************************************************************************)
(* Trials.                                                                 *)
(***************************************************************************)
Over(j) == job[j].state \in {"ended", "old"}
OverJobs == {j \in Jobs : Over(j)}
TrialEvents == {i \in DOMAIN todo : todo[i].op = "trial"}
Final == {"done", "rejected"}

\* a value of its own comes from a recorded run that is over
OwnValue(t, over) ==
  /\ t.state = "submitted" => t.job \in t.submits /\ t.of = 0
  /\ t.of # 0 => t.state \in {"dup", "done"}
  /\ t.lost => t.state = "done"
  /\ t.state = "done" /\ t.value > 0 /\ t.of = 0 => t.value \in t.submits \cap over

TrialsStand ==
  \A i \in TrialEvents :
    LET n == todo[i].n  t == todo[i].rec IN
    /\ n \in Trials => /\ trial[n].state \notin Final
                       /\ t.key = trial[n].key /\ t.from = trial[n].from
                       /\ trial[n].state = "submitted" => t.of = 0 /\ t.state \in {"submitted", "done"}
    /\ \A j \in TrialEvents : i < j /\ todo[j].n = n =>
         t.state \in {"new", "dup"} /\ t.key = todo[j].rec.key /\ t.from = todo[j].rec.from

ValuesOwn ==
  /\ \A n \in Trials : OwnValue(trial[n], OverJobs)
  /\ \A i \in TrialEvents : OwnValue(todo[i].rec, OverJobs)

\* a duplicate has the value of a trial that is none
OriginalOf(t, f) == t.of \in DOMAIN f /\ f[t.of].of = 0 /\ f[t.of].state \in {"submitted", "done"}
Follows(t, f) == f[t.of].state = "done" /\ f[t.of].value = t.value
DupsFollow ==
  /\ \A n \in Trials : trial[n].of # 0 =>
       /\ OriginalOf(trial[n], trial)
       /\ trial[n].state = "done" => Follows(trial[n], trial)
  /\ \A i \in TrialEvents :
       LET t == todo[i].rec IN
       t.of # 0 =>
         /\ OriginalOf(t, trial)
         /\ t.state = "done" =>
              \/ Follows(t, trial)
              \/ /\ i # 1 /\ todo[1].op = "trial" /\ todo[1].n = t.of
                 /\ todo[1].rec.state = "done" /\ todo[1].rec.value = t.value

TrialInv == TrialsStand /\ ValuesOwn /\ DupsFollow

(***************************************************************************)
(* The study.                                                              *)
(***************************************************************************)
TellOK(i) ==
  LET n == todo[i].n IN
  /\ \A j \in TrialEvents : i < j => todo[j].n # n
  /\ \/ /\ i # 1 /\ todo[i - 1].op = "trial" /\ todo[i - 1].n = n
        /\ todo[i - 1].rec.state \in Final /\ todo[i - 1].rec.value = todo[i].value
     \/ n \in Trials /\ trial[n].state \in Final /\ trial[n].value = todo[i].value
     \/ n \notin Trials /\ \A j \in TrialEvents : todo[j].n # n

StudyTold ==
  \A n \in Trials : study[n].state = "complete" =>
    trial[n].state \in Final /\ study[n].value = trial[n].value
EventsTold ==
  \A i \in TrialEvents : study[todo[i].n].state = "complete" =>
    todo[i].rec.state \in Final /\ todo[i].rec.value = study[todo[i].n].value
TellsFollow == \A i \in DOMAIN todo : todo[i].op = "tell" => TellOK(i)
ImportsTold ==
  \A n \in DOMAIN study : study[n].from # NoKey =>
    study[n].state = "complete" /\ study[n].value = LegacyValue

StudyInv == StudyTold /\ EventsTold /\ TellsFollow /\ ImportsTold

(***************************************************************************)
(* Imports.                                                                *)
(***************************************************************************)
FromSame ==
  /\ \A n \in Trials : trial[n].from = study[n].from
  /\ \A i \in TrialEvents : todo[i].rec.from = study[todo[i].n].from
ImportsUnique ==
  \A m, n \in DOMAIN study : study[m].from # NoKey /\ study[m].from = study[n].from => m = n
\* an import of the study that the store does not know is about to be recorded
ImportsKnown ==
  at \notin {"down", "repair"} =>
    \A n \in UnknownImports : /\ \E i \in TrialEvents : todo[i].n = n
                              /\ at \in {"import", "rescanned", "reimport"}

TornByError == torn => crashes > 0

ImportInv == FromSame /\ TornByError /\ (~torn => ImportsUnique /\ ImportsKnown)

(***************************************************************************)
(* One run per configuration.                                              *)
(***************************************************************************)
Claims(t) ==
  t.of = 0 /\ ~t.lost /\ (t.state \in {"submitted", "done"} \/ (t.state = "new" /\ t.built))
BecomesDup(n, i) == i \in TrialEvents /\ todo[i].n = n /\ todo[i].rec.of # 0

BlankStart == at \in {"down", "repair"} => study = << >> /\ todo = << >>
OneClaim ==
  \A m, n \in Trials :
    m < n /\ trial[m].key = trial[n].key /\ trial[n].from = NoKey /\ Claims(trial[m]) /\ Claims(trial[n])
      => BecomesDup(n, 1)
\* an event that claims a configuration is the first of its number; a number
\* that the store does not know yet is the last one of the study
ClaimsOK ==
  \A i \in TrialEvents :
    LET n == todo[i].n  t == todo[i].rec IN
    Claims(t) =>
      /\ \A j \in TrialEvents : j < i => todo[j].n # n
      /\ n \in Trials => Claims(trial[n])
      /\ n \notin Trials =>
           /\ i = 1 /\ n = Len(study)
           /\ t.from = NoKey => \/ BecomesDup(n, 2)
                               \/ \A m \in Trials : trial[m].key = t.key => ~Claims(trial[m])
AskOK ==
  at = "ask" =>
    /\ \A n \in NewToSubmit : BecomesDup(n, 1)
    /\ \A i \in TrialEvents : todo[i].rec.state = "new" /\ todo[i].rec.built => BecomesDup(todo[i].n, i + 1)

OneRunInv == crashes = 0 => BlankStart /\ OneClaim /\ ClaimsOK /\ AskOK

(***************************************************************************)
(* Sign-off.                                                               *)
(***************************************************************************)
InDir(j, d) == job[j].state # "unused" /\ job[j].dir = d

\* a full run: the jobs before its last are over, and a legal result is still
\* on the disk unless a job that is not recorded has the same directory
FullOK(p, st) ==
  /\ st.state = "none" => st.submits = {}
  /\ \A j \in st.submits \ {st.job} : Over(j)
  /\ st.result = "legal" =>
       /\ st.job \in Jobs /\ Over(st.job)
       /\ (\A j \in Jobs : InDir(j, DirOf(p)) => j \in st.submits)
            => res[DirOf(p)].job = st.job /\ res[DirOf(p)].status = "legal"

SignoffOK(p, s, st) ==
  /\ st.job # 0 => st.attempt # 0 /\ sub[p] # 0
  /\ st.job = 0 => st.result \in {"none", "fail"}
  /\ s = "eq" /\ st.result = "equivalent" =>
       LET r == res[OutDir(p, "eq", st.attempt)] IN
       /\ st.job \in Jobs /\ Over(st.job)
       /\ r.job = st.job => eq_record(CheckerRuns[r.status]) = "equivalent"

StageOK(p, s, st) ==
  /\ st.state # "done" => st.result = "none"
  /\ st.state = "submitted" => st.job # 0
  /\ IF s = "full" THEN FullOK(p, st) ELSE SignoffOK(p, s, st)

Recorded == {<<p, s, promo[p].st[s]>> : p \in Promos, s \in STAGES}
ToRecord == {<<todo[i].n, todo[i].stage, todo[i].rec>> : i \in StageEvents}
StagesSound == \A x \in Recorded \cup ToRecord : StageOK(x[1], x[2], x[3])

\* sub/ is filled after a legal full run, from its job or from one that is not recorded
SubOK(p) ==
  sub[p] # 0 =>
    /\ p \in Promos /\ promo[p].st["full"].result = "legal"
    /\ sub[p] = promo[p].st["full"].job \/ OtherJobs(p) # {}

SignoffInv == StagesSound /\ \A p \in 1 .. MaxPromos : SubOK(p)

-----------------------------------------------------------------------------
(***************************************************************************)
(* Lemmas about the operators.                                             *)
(***************************************************************************)
\* Min is the least element of a set of naturals.
LEMMA MinIsLeast ==
  ASSUME NEW S \in SUBSET Nat, S # {}
  PROVE  Min(S) \in S /\ \A y \in S : Min(S) <= y
<1>1. PICK x \in S : \A y \in S : ~(<<y, x>> \in OpToRel(<, Nat))
  BY WFMin, NatLessThanWellFounded
<1>2. \A y \in S : ~(y < x)
  BY <1>1, Zenon DEF OpToRel
<1>3. \A y \in S : x <= y
  BY <1>2
<1> QED
  BY <1>3 DEF Min

\* SetToSeq puts a finite set in some order, each element once.
LEMMA SetInOrder ==
  ASSUME NEW S, IsFiniteSet(S)
  PROVE  /\ Cardinality(S) \in Nat
         /\ SetToSeq(S) \in [1 .. Cardinality(S) -> S]
         /\ \A i, j \in 1 .. Cardinality(S) : SetToSeq(S)[i] = SetToSeq(S)[j] => i = j
         /\ \A x \in S : \E i \in 1 .. Cardinality(S) : SetToSeq(S)[i] = x
<1> DEFINE n == Cardinality(S)
<1>1. n \in Nat
  BY FS_CardinalityType
<1>2. PICK f : f \in Bijection(1 .. n, S)
  BY FS_CardinalityType DEF ExistsBijection
<1>3. f \in [1 .. n -> S] /\ \A i, j \in 1 .. n : f[i] = f[j] => i = j
  BY <1>2, Zenon DEF Bijection, Injection, IsInjective
<1>4. IsInjective(f)
  BY <1>3 DEF IsInjective
<1>5. SetToSeq(S) \in [1 .. n -> S] /\ IsInjective(SetToSeq(S))
  BY <1>3, <1>4 DEF SetToSeq
<1> DEFINE g == SetToSeq(S)
<1>6. \A i, j \in 1 .. n : g[i] = g[j] => i = j
  BY <1>5 DEF IsInjective
<1>7. g \in Injection(1 .. n, S)
  BY <1>5, Zenon DEF Injection
<1>8. g \in Surjection(1 .. n, S)
  BY <1>1, <1>7, FS_Injection, FS_Interval
<1>9. \A x \in S : \E i \in 1 .. n : g[i] = x
  BY <1>8, Zenon DEF Surjection
<1> QED
  BY <1>1, <1>5, <1>6, <1>9

\* Numbers of the study are finitely many, so a set of them can be put in order.
LEMMA NumbersAreFinite ==
  ASSUME StoreOK, NEW S \in SUBSET DOMAIN study
  PROVE  IsFiniteSet(S) /\ S \subseteq Nat \ {0}
<1>1. Len(study) \in Nat /\ DOMAIN study = 1 .. Len(study)
  BY DEF StoreOK
<1>2. IsFiniteSet(1 .. Len(study))
  BY <1>1, FS_Interval
<1> QED
  BY <1>1, <1>2, FS_Subset

\* What one submission may change: a job that was unused and the events that
\* record it, both or neither of them known to the driver.
LEMMA Submitted ==
  ASSUME NEW d, NEW events, NEW l, NEW done, NEW failed, Submit(d, events, l, done, failed)
  PROVE  /\ \/ \E j \in Unused : /\ todo' = events[j] /\ job' = [job EXCEPT ![j] = Queued(d)]
                                 /\ at' = done
            \/ /\ todo' = todo /\ at' \in {done, failed}
               /\ job' = job \/ \E j \in Unused : job' = [job EXCEPT ![j] = Queued(d)]
         /\ crashes' = crashes /\ torn' = torn
<1>1. Unused # {} => Min(Unused) \in Unused
  <2>1. Unused \subseteq Nat
    BY OptimizerAssumption DEF Unused, Jobs
  <2> QED
    BY <2>1, MinIsLeast
<1>2. CASE /\ CanSubmit(l) /\ Unused # {}
           /\ LET j == Min(Unused) IN job' = [job EXCEPT ![j] = Queued(d)] /\ todo' = events[j]
           /\ Goto(done) /\ UNCHANGED env
  BY <1>1, <1>2 DEF Goto, env
<1>3. CASE Goto(failed) /\ UNCHANGED <<job, todo, env>>
  BY <1>3 DEF Goto, env
<1>4. CASE /\ \/ UNCHANGED job
              \/ Unused # {} /\ job' = [job EXCEPT ![Min(Unused)] = Queued(d)]
           /\ Goto(failed) /\ UNCHANGED <<todo, stopfile, crashes, torn>>
  BY <1>1, <1>4 DEF Goto
<1> QED
  BY <1>2, <1>3, <1>4 DEF Submit

\* The state of the jobs, typed; and what one submission makes of it.
LEMMA JobQueued ==
  ASSUME ClusterOK, NEW d \in Dirs, UNCHANGED <<res, sub>>,
         job' = job \/ \E j \in Unused : job' = [job EXCEPT ![j] = Queued(d)]
  PROVE  /\ ClusterOK'
         /\ \A i \in Jobs : job[i].state \in {"ended", "old"} => job'[i] = job[i]
         /\ \A i \in Jobs : job'[i] # job[i] => job'[i] = Queued(d)
<1>1. CASE job' = job
  BY <1>1 DEF ClusterOK, Active
<1>2. ASSUME NEW j \in Unused, job' = [job EXCEPT ![j] = Queued(d)]
      PROVE  /\ ClusterOK'
             /\ \A i \in Jobs : job[i].state \in {"ended", "old"} => job'[i] = job[i]
             /\ \A i \in Jobs : job'[i] # job[i] => job'[i] = Queued(d)
  <2>1. j \in Jobs /\ job[j].state = "unused" /\ DOMAIN job' = Jobs
    BY <1>2 DEF Unused, ClusterOK
  <2>2. job'[j] = Queued(d) /\ \A i \in Jobs \ {j} : job'[i] = job[i]
    BY <1>2, <2>1 DEF ClusterOK
  <2>3. /\ Queued(d).state = "pending" /\ Queued(d).dir = d /\ Queued(d).shown = FALSE
        /\ Queued(d) = [state |-> Queued(d).state, dir |-> Queued(d).dir, shown |-> Queued(d).shown]
    BY DEF Queued
  <2>4. res' \in [Dirs -> [job : 0 .. NJobs, status : Statuses]] /\ sub' \in [1 .. MaxPromos -> 0 .. NJobs]
    BY DEF ClusterOK
  <2>5. ClusterOK'
    BY <2>1, <2>2, <2>3, <2>4 DEF ClusterOK, Active, JobStates
  <2>6. \A i \in Jobs : job[i].state \in {"ended", "old"} => job'[i] = job[i]
    BY <2>1, <2>2
  <2> QED
    BY <2>2, <2>5, <2>6
<1> QED
  BY <1>1, <1>2

\* A step that leaves the store alone leaves its types.
LEMMA StoreSame ==
  ASSUME StoreOK, UNCHANGED store
  PROVE  StoreOK' /\ Trials' = Trials /\ Promos' = Promos
BY DEF StoreOK, store, Trials, Promos

\* A step that leaves jobs, results and sub/ alone leaves their types.
LEMMA ClusterSame ==
  ASSUME ClusterOK, UNCHANGED <<job, res, sub>>
  PROVE  ClusterOK'
BY DEF ClusterOK

\* A step that leaves the effects and the store alone leaves the effects' types.
LEMMA TodoSame ==
  ASSUME TodoOK, UNCHANGED <<todo, study, trial, promo>>
  PROVE  TodoOK'
BY DEF TodoOK, Trials, Promos

\* A handler that left nothing to do, or was cut short.
LEMMA TodoEmpty ==
  ASSUME todo' = << >>
  PROVE  TodoOK' /\ TrialEvents' = {} /\ StageEvents' = {}
BY DEF TodoOK, TrialEvents, StageEvents

\* The events of one submission are well formed.
LEMMA TodoOne ==
  ASSUME StoreOK', NEW e \in Effects, todo' = <<e>>,
         e.op \in {"trial", "tell"} => e.n \in DOMAIN study',
         e.op = "promo" => e.n \in Trials' /\ Len(promo') < MaxPromos,
         e.op = "stage" => e.n \in Promos'
  PROVE  TodoOK'
BY DEF TodoOK

-----------------------------------------------------------------------------
(***************************************************************************)
(* Type correctness.                                                       *)
(***************************************************************************)
LEMMA FlowDirs == \A mode \in {"fast", "full"}, k \in Keys : FlowDir(mode, k) \in Dirs
BY DEF FlowDir, Dirs

\* The directory of a sign-off attempt is one of the run directories.
LEMMA OutDirs ==
  \A p \in 1 .. MaxPromos, s \in SIGNOFF, a \in 1 .. MAX_ATTEMPTS : OutDir(p, s, a) \in Dirs
BY DEF OutDir, Dirs

\* The run directories of trials and promotions exist.
LEMMA TrialDir ==
  ASSUME StoreOK
  PROVE  /\ \A n \in Trials : FlowDir("fast", trial[n].key) \in Dirs
         /\ \A p \in Promos : DirOf(p) \in Dirs /\ p \in 1 .. MaxPromos /\ promo[p] \in PromoRec
<1>1. \A n \in Trials : trial[n].key \in Keys
  BY DEF StoreOK, TrialRec
<1>2. \A p \in Promos : promo[p] \in PromoRec /\ p \in 1 .. MaxPromos
  BY OptimizerAssumption DEF StoreOK, Promos
<1>3. \A p \in Promos : promo[p].uid \in Trials
  BY DEF StoreOK
<1> QED
  BY <1>1, <1>2, <1>3, FlowDirs DEF DirOf

\* The record of a trial after one of its events.
LEMMA SubmittedRec ==
  ASSUME StoreOK, NEW n \in Trials, NEW a \in 0 .. MAX_ATTEMPTS, NEW j \in Jobs
  PROVE  [trial[n] EXCEPT !.state = "submitted", !.job = j, !.attempt = a, !.submits = @ \cup {j}]
           \in TrialRec
<1>1. trial[n] \in TrialRec
  BY DEF StoreOK
<1>2. j \in 0 .. NJobs
  BY OptimizerAssumption DEF Jobs
<1> QED
  BY <1>1, <1>2 DEF TrialRec

Evaluations == [value : 0 .. NJobs, legal : BOOLEAN, lost : BOOLEAN]

\* The record of a trial that ended.
LEMMA DoneRec ==
  ASSUME NEW t \in TrialRec, NEW ev, ev.value \in Int, ev.legal \in BOOLEAN, ev.lost \in BOOLEAN
  PROVE  /\ Done(t, ev) \in TrialRec
         /\ Done(t, ev) = [t EXCEPT !.state = "done", !.value = ev.value,
                                    !.legal = ev.legal, !.lost = ev.lost]
BY DEF Done, TrialRec

\* What a run's evaluation yields.
LEMMA EvaluationType ==
  ASSUME ClusterOK, NEW j \in 0 .. NJobs, NEW d \in Dirs
  PROVE  Evaluation(j, d) \in Evaluations
<1>1. res[d].job \in 0 .. NJobs
  BY DEF ClusterOK
<1>2. 0 \in 0 .. NJobs
  BY OptimizerAssumption
<1> QED
  BY <1>1, <1>2 DEF Evaluation, Evaluations, NoMetrics, FAIL_VALUE

\* ... also of a run without metrics.
LEMMA NoMetricsType == NoMetrics \in Evaluations
BY OptimizerAssumption DEF NoMetrics, Evaluations, FAIL_VALUE

\* The record of a trial that was just made.
LEMMA NewTrialRec ==
  ASSUME NEW k \in Keys, NEW s \in {"new", "dup", "done", "rejected"}, NEW b \in BOOLEAN
  PROVE  NewTrial(k, s, b) \in TrialRec
BY OptimizerAssumption DEF NewTrial, TrialRec, FAIL_VALUE, Jobs

\* What an event of a trial holds.
LEMMA EmitIs ==
  ASSUME NEW n \in Nat, NEW t
  PROVE  /\ t \in TrialRec => Emit(n, t) \in Effects
         /\ Emit(n, t).op = "trial" /\ Emit(n, t).n = n /\ Emit(n, t).rec = t
BY DEF Emit, Effects, TrialEffects

\* What a word to the study holds.
LEMMA TellIs ==
  ASSUME NEW n \in Nat, NEW v
  PROVE  /\ v \in Int => Tell(n, v) \in Effects
         /\ Tell(n, v).op = "tell" /\ Tell(n, v).n = n /\ Tell(n, v).value = v
BY DEF Tell, Effects, TellEffects

\* What an event of a stage holds.
LEMMA EmitStageIs ==
  ASSUME NEW p \in Nat, NEW s, NEW st
  PROVE  /\ s \in STAGES /\ st \in StageRec => EmitStage(p, s, st) \in Effects
         /\ EmitStage(p, s, st).op = "stage" /\ EmitStage(p, s, st).n = p
         /\ EmitStage(p, s, st).stage = s /\ EmitStage(p, s, st).rec = st
BY DEF EmitStage, Effects, StageEffects

\* What the event of a new promotion holds.
LEMMA EmitPromoIs ==
  ASSUME NEW n \in Nat
  PROVE  EmitPromo(n) \in Effects /\ EmitPromo(n).op = "promo" /\ EmitPromo(n).n = n
BY DEF EmitPromo, Effects, PromoEffects

\* What a deletion holds.
LEMMA RemoveSnapIs ==
  ASSUME NEW d
  PROVE  RemoveSnap(d).op = "rmtree" /\ (d \in Dirs => RemoveSnap(d) \in Effects)
BY DEF RemoveSnap, Effects, RmEffects

\* The ends of several trials, one after the other: each recorded, then told.
EndsOf(s, k, ns, ev) ==
  /\ k \in Nat /\ ns \in [1 .. k -> Trials]
  /\ \A a, b \in 1 .. k : ns[a] = ns[b] => a = b
  /\ s \in Seq(Effects) /\ Len(s) \in {2 * k, 2 * k + 1}
  /\ \A m \in 1 .. k : /\ s[2 * m - 1].op = "trial" /\ s[2 * m - 1].n = ns[m]
                       /\ s[2 * m - 1].rec = Done(trial[ns[m]], ev)
                       /\ s[2 * m].op = "tell" /\ s[2 * m].n = ns[m] /\ s[2 * m].value = ev.value
  /\ \A i \in 1 .. Len(s) : \/ i = 2 * k + 1 /\ s[i].op = "rmtree"
                            \/ \E m \in 1 .. k : i = 2 * m - 1 \/ i = 2 * m

\* finish_all leaves the end and the word of each trial, one after the other.
LEMMA FinishAllEnds ==
  ASSUME StoreOK, NEW k \in Nat, NEW ns \in [1 .. k -> Trials],
         \A a, b \in 1 .. k : ns[a] = ns[b] => a = b,
         NEW ev \in Evaluations
  PROVE  /\ EndsOf(finish_all(ns, ev), k, ns, ev)
         /\ \A d \in Dirs : EndsOf(finish_all(ns, ev) \o <<RemoveSnap(d)>>, k, ns, ev)
<1> DEFINE f == finish_all(ns, ev)
<1>1. ns \in Seq(Trials) /\ Len(ns) = k
  OBVIOUS
<1>2. /\ f = [i \in 1 .. 2 * k |-> LET n == ns[(i + 1) \div 2] IN
                                   IF i % 2 = 1 THEN Emit(n, Done(trial[n], ev)) ELSE Tell(n, ev.value)]
  BY <1>1 DEF finish_all
<1>3. \A m \in 1 .. k : /\ f[2 * m - 1] = Emit(ns[m], Done(trial[ns[m]], ev))
                        /\ f[2 * m] = Tell(ns[m], ev.value)
  <2> SUFFICES ASSUME NEW m \in 1 .. k
               PROVE  /\ f[2 * m - 1] = Emit(ns[m], Done(trial[ns[m]], ev))
                      /\ f[2 * m] = Tell(ns[m], ev.value)
    OBVIOUS
  <2>1. /\ 2 * m - 1 \in 1 .. 2 * k /\ (2 * m - 1) % 2 = 1 /\ ((2 * m - 1) + 1) \div 2 = m
        /\ 2 * m \in 1 .. 2 * k /\ (2 * m) % 2 = 0 /\ (2 * m + 1) \div 2 = m
    OBVIOUS
  <2> QED
    BY <1>2, <2>1
<1>4. \A i \in 1 .. 2 * k : \E m \in 1 .. k : i = 2 * m - 1 \/ i = 2 * m
  <2> SUFFICES ASSUME NEW i \in 1 .. 2 * k
               PROVE  \E m \in 1 .. k : i = 2 * m - 1 \/ i = 2 * m
    OBVIOUS
  <2>1. (i + 1) \div 2 \in 1 .. k /\ (i = 2 * ((i + 1) \div 2) - 1 \/ i = 2 * ((i + 1) \div 2))
    OBVIOUS
  <2> QED
    BY <2>1
<1>5. \A n \in Trials : n \in Nat /\ Done(trial[n], ev) \in TrialRec
  <2>1. \A n \in Trials : n \in Nat /\ trial[n] \in TrialRec
    BY DEF StoreOK
  <2>2. ev.value \in Int /\ ev.legal \in BOOLEAN /\ ev.lost \in BOOLEAN
    BY OptimizerAssumption DEF Evaluations
  <2> QED
    BY <2>1, <2>2, DoneRec
<1>6. \A m \in 1 .. k : /\ f[2 * m - 1] \in Effects /\ f[2 * m] \in Effects
                        /\ f[2 * m - 1].op = "trial" /\ f[2 * m - 1].n = ns[m]
                        /\ f[2 * m - 1].rec = Done(trial[ns[m]], ev)
                        /\ f[2 * m].op = "tell" /\ f[2 * m].n = ns[m] /\ f[2 * m].value = ev.value
  <2> SUFFICES ASSUME NEW m \in 1 .. k
               PROVE  /\ f[2 * m - 1] \in Effects /\ f[2 * m] \in Effects
                      /\ f[2 * m - 1].op = "trial" /\ f[2 * m - 1].n = ns[m]
                      /\ f[2 * m - 1].rec = Done(trial[ns[m]], ev)
                      /\ f[2 * m].op = "tell" /\ f[2 * m].n = ns[m] /\ f[2 * m].value = ev.value
    OBVIOUS
  <2>1. ns[m] \in Trials /\ ev.value \in Int
    BY OptimizerAssumption DEF Evaluations
  <2> HIDE DEF f
  <2> QED
    BY <1>3, <1>5, <2>1, EmitIs, TellIs
<1>7. f \in [1 .. 2 * k -> Effects]
  <2>1. \A i \in 1 .. 2 * k : f[i] \in Effects
    BY <1>4, <1>6
  <2> QED
    BY <1>2, <2>1
<1> HIDE DEF f
<1>8. f \in Seq(Effects) /\ Len(f) = 2 * k
  BY <1>7
<1>9. EndsOf(f, k, ns, ev)
  BY <1>4, <1>6, <1>8 DEF EndsOf
<1>10. ASSUME NEW d \in Dirs
       PROVE  EndsOf(f \o <<RemoveSnap(d)>>, k, ns, ev)
  <2> DEFINE g == f \o <<RemoveSnap(d)>>
  <2>1. RemoveSnap(d) \in Effects /\ RemoveSnap(d).op = "rmtree"
    BY RemoveSnapIs
  <2>2. /\ g \in Seq(Effects) /\ Len(g) = 2 * k + 1
        /\ \A i \in 1 .. 2 * k : g[i] = f[i]
        /\ g[2 * k + 1] = RemoveSnap(d)
    BY <1>8, <2>1
  <2> HIDE DEF g
  <2>3. \A m \in 1 .. k : 2 * m - 1 \in 1 .. 2 * k /\ 2 * m \in 1 .. 2 * k
    OBVIOUS
  <2>4. \A i \in 1 .. 2 * k + 1 : i = 2 * k + 1 \/ i \in 1 .. 2 * k
    OBVIOUS
  <2>5. EndsOf(g, k, ns, ev)
    BY <1>4, <1>6, <2>1, <2>2, <2>3, <2>4 DEF EndsOf
  <2> QED
    BY <2>5 DEF g
<1> QED
  BY <1>9, <1>10 DEF f

\* The ends of some trials keep what is to do well formed.
LEMMA EndsAreTodo ==
  ASSUME StoreOK, UNCHANGED store, NEW k, NEW ns, NEW ev, EndsOf(todo', k, ns, ev)
  PROVE  TodoOK'
<1>1. Trials' = Trials /\ study' = study /\ \A m \in 1 .. k : ns[m] \in DOMAIN study
  BY DEF EndsOf, StoreOK, store, Trials
<1>2. \A i \in DOMAIN todo' : /\ todo'[i].op \in {"trial", "tell", "rmtree"}
                              /\ todo'[i].op \in {"trial", "tell"} => todo'[i].n \in DOMAIN study'
  <2> SUFFICES ASSUME NEW i \in DOMAIN todo'
               PROVE  /\ todo'[i].op \in {"trial", "tell", "rmtree"}
                      /\ todo'[i].op \in {"trial", "tell"} => todo'[i].n \in DOMAIN study'
    OBVIOUS
  <2>1. i \in 1 .. Len(todo')
    BY DEF EndsOf
  <2>2. CASE i = 2 * k + 1 /\ todo'[i].op = "rmtree"
    BY <2>2
  <2>3. ASSUME NEW m \in 1 .. k, i = 2 * m - 1 \/ i = 2 * m
        PROVE  todo'[i].op \in {"trial", "tell"} /\ todo'[i].n = ns[m]
    BY <2>3 DEF EndsOf
  <2> QED
    BY <1>1, <2>1, <2>2, <2>3 DEF EndsOf
<1> QED
  BY <1>2 DEF TodoOK, EndsOf

\* Performing an effect keeps the types.
LEMMA PerformTypes ==
  ASSUME OptimizerTypeOK, Perform
  PROVE  OptimizerTypeOK'
<1> DEFINE e == Head(todo)
<1> USE DEF OptimizerTypeOK
<1>1. /\ e = todo[1] /\ e \in Effects /\ 1 \in DOMAIN todo /\ Len(todo') = Len(todo) - 1
      /\ todo' \in Seq(Effects) /\ \A i \in DOMAIN todo' : todo'[i] = todo[i + 1] /\ i + 1 \in DOMAIN todo /\ i + 1 # 1
  BY DEF Perform, TodoOK
<1>2. /\ e.op = "trial" => e \in TrialEffects /\ e.n \in DOMAIN study
      /\ e.op = "tell" => e \in TellEffects /\ e.n \in DOMAIN study
      /\ e.op = "promo" => e \in PromoEffects /\ e.n \in Trials /\ Len(promo) < MaxPromos
      /\ e.op = "stage" => e \in StageEffects /\ e.n \in Promos
  BY <1>1 DEF TodoOK, Effects, TrialEffects, StageEffects, PromoEffects, TellEffects, RmEffects
<1>3. study' \in Seq(StudyRec) /\ DOMAIN study' = DOMAIN study
  <2>1. CASE e.op = "tell"
    <3>1. e.n \in DOMAIN study /\ e.value \in Int
      BY <1>2, <2>1 DEF TellEffects
    <3>2. study' = study \/ study' = [study EXCEPT ![e.n].state = "complete", ![e.n].value = e.value]
      BY <2>1 DEF Perform, TellStudy
    <3>3. study \in Seq(StudyRec)
      BY DEF StoreOK
    <3> HIDE DEF e
    <3> DEFINE r == [study[e.n] EXCEPT !.state = "complete", !.value = e.value]
    <3>4. r \in StudyRec
      <4>1. study[e.n] \in StudyRec
        BY <3>1, <3>3
      <4>2. e.value \in Int
        BY <3>1
      <4> QED
        BY <4>1, <4>2 DEF StudyRec
    <3>5. study' = study \/ study' = [study EXCEPT ![e.n] = r]
      BY <3>1, <3>2, <3>3
    <3> HIDE DEF r
    <3> QED
      BY <3>1, <3>3, <3>4, <3>5
  <2>2. CASE e.op # "tell"
    BY <2>2 DEF Perform, StoreOK
  <2> QED
    BY <2>1, <2>2
<1>4. /\ Trials \subseteq Trials' /\ Trials' \subseteq DOMAIN study'
      /\ \A n \in Trials' : trial'[n] \in TrialRec
  <2>1. CASE e.op = "trial"
    <3>1. e.n \in DOMAIN study /\ e.rec \in TrialRec
      BY <1>2, <2>1 DEF TrialEffects
    <3>2. trial' = [n \in Trials \cup {e.n} |-> IF n = e.n THEN e.rec ELSE trial[n]]
      BY <2>1 DEF Perform
    <3> HIDE DEF e
    <3>3. Trials' = Trials \cup {e.n}
      BY <3>2 DEF Trials
    <3> QED
      BY <1>3, <3>1, <3>2, <3>3 DEF StoreOK
  <2>2. CASE e.op # "trial"
    BY <1>3, <2>2 DEF Perform, StoreOK, Trials
  <2> QED
    BY <2>1, <2>2
<1>5. /\ promo' \in Seq(PromoRec) /\ Len(promo') <= MaxPromos /\ Promos \subseteq Promos'
      /\ \A p \in Promos' : promo'[p].uid \in Trials
      /\ e.op # "promo" => Len(promo') = Len(promo)
  <2>1. CASE e.op = "promo"
    <3>1. e.n \in Trials /\ e.n \in Nat /\ Len(promo) < MaxPromos /\ promo \in Seq(PromoRec)
      BY <1>2, <2>1 DEF PromoEffects, StoreOK
    <3>2. promo' = Append(promo, NewPromo(e.n))
      BY <2>1 DEF Perform
    <3>3. NewPromo(e.n) \in PromoRec /\ NewPromo(e.n).uid = e.n
      <4>1. NoStage \in StageRec
        <5>1. 0 \in 0 .. NJobs /\ 0 \in 0 .. MAX_ATTEMPTS
          BY OptimizerAssumption
        <5>2. {} \in SUBSET Jobs /\ "none" \in Results
          BY DEF Results, Statuses
        <5> QED
          BY <5>1, <5>2 DEF NoStage, StageRec, StageFields
      <4> QED
        BY <3>1, <4>1 DEF NewPromo, PromoRec
    <3> HIDE DEF e
    <3>4. \A p \in Promos' : (p \in Promos /\ promo'[p] = promo[p]) \/ promo'[p] = NewPromo(e.n)
      BY <3>1, <3>2 DEF Promos
    <3>5. Len(promo') = Len(promo) + 1 /\ promo' \in Seq(PromoRec)
      BY <3>1, <3>2, <3>3
    <3>6. Promos \subseteq Promos'
      BY <3>1, <3>5 DEF Promos
    <3> QED
      BY <2>1, <3>1, <3>3, <3>4, <3>5, <3>6, OptimizerAssumption DEF StoreOK
  <2>2. CASE e.op = "stage"
    <3>1. e.n \in Promos /\ e.stage \in STAGES /\ e.rec \in StageRec /\ promo \in Seq(PromoRec)
      BY <1>2, <2>2 DEF StageEffects, StoreOK
    <3>2. promo' = [promo EXCEPT ![e.n].st[e.stage] = e.rec]
      BY <2>2 DEF Perform
    <3> HIDE DEF e
    <3>3. /\ Len(promo') = Len(promo) /\ DOMAIN promo' = DOMAIN promo
          /\ \A p \in Promos : p # e.n => promo'[p] = promo[p]
          /\ promo'[e.n] = [promo[e.n] EXCEPT !.st[e.stage] = e.rec]
      BY <3>1, <3>2 DEF Promos
    <3>4. promo[e.n] \in PromoRec
      BY <3>1 DEF Promos
    <3>5. promo'[e.n] \in PromoRec /\ promo'[e.n].uid = promo[e.n].uid
      BY <3>1, <3>3, <3>4 DEF PromoRec
    <3>6. promo' \in Seq(PromoRec)
      <4>1. promo' = [promo EXCEPT ![e.n] = promo'[e.n]]
        BY <3>1, <3>2 DEF Promos
      <4> QED
        BY <3>1, <3>5, <4>1 DEF Promos
    <3> QED
      BY <3>1, <3>3, <3>5, <3>6 DEF StoreOK, Promos
  <2>3. CASE e.op \notin {"promo", "stage"}
    BY <2>3 DEF Perform, StoreOK, Promos
  <2> QED
    BY <2>1, <2>2, <2>3
<1>6. StoreOK'
  BY <1>3, <1>4, <1>5 DEF Perform, StoreOK
<1>7. ClusterOK'
  BY ClusterSame DEF Perform
<1>8. TodoOK'
  BY <1>1, <1>3 DEF TodoOK
<1> QED
  BY <1>6, <1>7, <1>8 DEF Perform, env

\* Submitting a trial keeps the types.
LEMMA SubmitTrialTypes ==
  ASSUME OptimizerTypeOK, NEW n \in Trials, NEW a \in 0 .. MAX_ATTEMPTS, NEW l, NEW done, NEW failed,
         submit_trial(n, a, l, done, failed), UNCHANGED <<store, res, sub>>
  PROVE  OptimizerTypeOK'
<1> DEFINE d == FlowDir("fast", trial[n].key)
           rec(j) == [trial[n] EXCEPT !.state = "submitted", !.job = j, !.attempt = a,
                                      !.submits = @ \cup {j}]
           events == [j \in Jobs |-> <<Emit(n, rec(j))>>]
<1> USE DEF OptimizerTypeOK
<1>1. Submit(d, events, l, done, failed)
  BY DEF submit_trial
<1>2. StoreOK' /\ Trials' = Trials /\ Promos' = Promos
  BY StoreSame
<1>3. d \in Dirs
  BY TrialDir
<1>4. \A j \in Jobs : rec(j) \in TrialRec
  BY SubmittedRec
<1>5. n \in Nat /\ n \in DOMAIN study
  BY DEF StoreOK
<1>6. \A j \in Jobs : events[j] = <<Emit(n, rec(j))>> /\ Emit(n, rec(j)) \in Effects
                      /\ Emit(n, rec(j)).op = "trial" /\ Emit(n, rec(j)).n = n
  <2> SUFFICES ASSUME NEW j \in Jobs
               PROVE  events[j] = <<Emit(n, rec(j))>> /\ Emit(n, rec(j)) \in Effects
                      /\ Emit(n, rec(j)).op = "trial" /\ Emit(n, rec(j)).n = n
    OBVIOUS
  <2>1. rec(j) \in TrialRec
    BY <1>4
  <2> HIDE DEF rec
  <2> QED
    BY <1>5, <2>1, EmitIs
<1> HIDE DEF events, rec, d
<1>7. /\ \/ todo' = todo \/ \E j \in Unused : todo' = events[j]
      /\ job' = job \/ \E j \in Unused : job' = [job EXCEPT ![j] = Queued(d)]
      /\ crashes' = crashes /\ torn' = torn
  BY <1>1, Submitted
<1>8. ClusterOK'
  BY <1>3, <1>7, JobQueued
<1>9. TodoOK'
  <2>1. CASE todo' = todo
    BY <2>1, TodoSame DEF store
  <2>2. ASSUME NEW j \in Unused, todo' = events[j]
        PROVE  TodoOK'
    <3>1. j \in Jobs /\ study' = study
      BY DEF Unused, store
    <3> QED
      BY <1>2, <1>5, <1>6, <2>2, <3>1, TodoOne
  <2> QED
    BY <1>7, <2>1, <2>2
<1> QED
  BY <1>2, <1>7, <1>8, <1>9

\* Submitting a stage keeps the types.
LEMMA SubmitStageTypes ==
  ASSUME OptimizerTypeOK, NEW p \in Promos, NEW s \in STAGES, NEW a \in 1 .. MAX_ATTEMPTS, NEW d \in Dirs,
         NEW l, NEW done, NEW failed,
         submit_stage(p, s, a, d, l, done, failed), UNCHANGED <<store, res>>,
         sub' \in [1 .. MaxPromos -> 0 .. NJobs]
  PROVE  OptimizerTypeOK'
<1> DEFINE rec(j) == [promo[p].st[s] EXCEPT !.state = "submitted", !.job = j, !.attempt = a,
                                            !.submits = @ \cup {j}]
           events == [j \in Jobs |-> <<EmitStage(p, s, rec(j))>>]
<1> USE DEF OptimizerTypeOK
<1>1. Submit(d, events, l, done, failed)
  BY DEF submit_stage
<1>2. StoreOK' /\ Trials' = Trials /\ Promos' = Promos
  BY StoreSame
<1>3. promo[p].st[s] \in StageRec /\ p \in Nat
  BY TrialDir DEF PromoRec
<1>4. \A j \in Jobs : rec(j) \in StageRec
  <2> SUFFICES ASSUME NEW j \in Jobs PROVE rec(j) \in StageRec
    OBVIOUS
  <2>1. j \in 0 .. NJobs
    BY OptimizerAssumption DEF Jobs
  <2> QED
    <3>1. promo[p].st[s] \in StageFields /\ a \in 0 .. MAX_ATTEMPTS
      BY <1>3, OptimizerAssumption DEF StageRec
    <3> DEFINE r == [promo[p].st[s] EXCEPT !.state = "submitted", !.job = j, !.attempt = a,
                                           !.submits = @ \cup {j}]
    <3>2. r \in StageFields /\ r.attempt = a
      BY <2>1, <3>1 DEF StageFields
    <3>3. a # 0
      BY OptimizerAssumption
    <3> HIDE DEF r
    <3>4. r \in StageRec
      BY <3>2, <3>3 DEF StageRec
    <3> QED
      BY <3>4 DEF r
<1>6. \A j \in Jobs : events[j] = <<EmitStage(p, s, rec(j))>> /\ EmitStage(p, s, rec(j)) \in Effects
                      /\ EmitStage(p, s, rec(j)).op = "stage" /\ EmitStage(p, s, rec(j)).n = p
  <2> SUFFICES ASSUME NEW j \in Jobs
               PROVE  events[j] = <<EmitStage(p, s, rec(j))>> /\ EmitStage(p, s, rec(j)) \in Effects
                      /\ EmitStage(p, s, rec(j)).op = "stage" /\ EmitStage(p, s, rec(j)).n = p
    OBVIOUS
  <2>1. rec(j) \in StageRec
    BY <1>4
  <2> HIDE DEF rec
  <2> QED
    BY <1>3, <2>1, EmitStageIs
<1> HIDE DEF events, rec
<1>7. /\ \/ todo' = todo \/ \E j \in Unused : todo' = events[j]
      /\ job' = job \/ \E j \in Unused : job' = [job EXCEPT ![j] = Queued(d)]
      /\ crashes' = crashes /\ torn' = torn
  BY <1>1, Submitted
<1>8. ClusterOK'
  <2>1. /\ ClusterOK => \A j \in Jobs : job'[j] = job[j] \/ job'[j] = Queued(d)
        /\ DOMAIN job' = Jobs
    BY <1>7 DEF ClusterOK
  <2>2. /\ Queued(d).state = "pending" /\ Queued(d).dir = d /\ Queued(d).shown = FALSE
        /\ Queued(d) = [state |-> Queued(d).state, dir |-> Queued(d).dir, shown |-> Queued(d).shown]
    BY DEF Queued
  <2> QED
    BY <2>1, <2>2 DEF ClusterOK, JobStates, Active
<1>9. TodoOK'
  <2>1. CASE todo' = todo
    BY <2>1, TodoSame DEF store
  <2>2. ASSUME NEW j \in Unused, todo' = events[j]
        PROVE  TodoOK'
    <3>1. j \in Jobs /\ study' = study
      BY DEF Unused, store
    <3> QED
      BY <1>2, <1>6, <2>2, <3>1, TodoOne
  <2> QED
    BY <1>7, <2>1, <2>2
<1> QED
  BY <1>2, <1>7, <1>8, <1>9

\* What polling a trial does: it is submitted again, it waits, or it and its
\* duplicates end with what its job left.
PolledEnds(n, k, ns, ev) ==
  /\ n \in InFlight /\ ev \in Evaluations
  /\ EndsOf(todo', k, ns, ev) /\ k > 0 /\ ns[1] = n
  /\ \A m \in 2 .. k : trial[ns[m]].state = "dup" /\ trial[ns[m]].of = n
  /\ \A m \in Trials : trial[m].state = "dup" /\ trial[m].of = n => \E i \in 2 .. k : ns[i] = m
  /\ ev.value > 0 => ev.value = trial[n].job /\ job[ev.value].shown

\* What polling a trial does: it is submitted again, waits, or ends with its duplicates.
LEMMA PolledTrial ==
  ASSUME StoreOK, ClusterOK, poll_trials
  PROVE  \/ \E n \in InFlight, a \in 0 .. MAX_ATTEMPTS : \E l : submit_trial(n, a, l, "trials", "trials")
         \/ /\ UNCHANGED <<job, env>> /\ at' = "trials"
            /\ todo' = << >> \/ \E n, k, ns, ev : PolledEnds(n, k, ns, ev)
<1> DEFINE n == Min(TrialsToPoll)
           t == trial[n]
           d == FlowDir("fast", t.key)
           o == job_outcome(t.job, d)
           ev == Evaluation(t.job, d)
           dups == {m \in Trials : trial[m].state = "dup" /\ trial[m].of = n}
           l == [loop EXCEPT !.polled = @ \cup {<<n, "trial">>}]
           ns == <<n>> \o SetToSeq(dups)
           k == 1 + Cardinality(dups)
<1>1. TrialsToPoll \subseteq InFlight /\ InFlight \subseteq Trials /\ InFlight \subseteq Nat /\ Trials \subseteq Nat
  BY DEF TrialsToPoll, InFlight, StoreOK
<1>2. n \in InFlight
  <2>1. TrialsToPoll # {} /\ TrialsToPoll \subseteq Nat
    BY <1>1 DEF poll_trials
  <2>2. n \in TrialsToPoll
    BY <2>1, MinIsLeast
  <2> QED
    BY <1>1, <2>2
<1> HIDE DEF n
<1>3. IF o = "retry" /\ t.attempt < MAX_ATTEMPTS
      THEN submit_trial(n, t.attempt + 1, l, "trials", "trials")
      ELSE /\ todo' = IF o \in {"active", "wait"} THEN << >>
                      ELSE finish_all(ns, ev) \o <<RemoveSnap(d)>>
           /\ at' = "trials" /\ UNCHANGED <<job, env>>
  BY DEF poll_trials, n, Goto
<1>4. t \in TrialRec /\ n \in Trials /\ trial[n].state = "submitted" /\ d \in Dirs
  BY <1>1, <1>2, TrialDir DEF StoreOK, InFlight
<1>5. CASE o = "retry" /\ t.attempt < MAX_ATTEMPTS
  <2>1. t.attempt + 1 \in 0 .. MAX_ATTEMPTS
    BY <1>4, <1>5, OptimizerAssumption DEF TrialRec
  <2> QED
    BY <1>2, <1>3, <1>5, <2>1
<1>6. CASE ~(o = "retry" /\ t.attempt < MAX_ATTEMPTS) /\ o \in {"active", "wait"}
  BY <1>3, <1>6
<1>7. CASE ~(o = "retry" /\ t.attempt < MAX_ATTEMPTS) /\ o \notin {"active", "wait"}
  <2>1. todo' = finish_all(ns, ev) \o <<RemoveSnap(d)>>
    BY <1>3, <1>7
  <2>2. IsFiniteSet(dups) /\ dups \subseteq Trials /\ n \notin dups
    <3>1. dups \in SUBSET DOMAIN study
      BY <1>4 DEF StoreOK
    <3> QED
      BY <1>4, <3>1, NumbersAreFinite
  <2>3. t.job \in 0 .. NJobs
    BY <1>4 DEF TrialRec
  <2>4. ev \in Evaluations
    BY <1>4, <2>3, EvaluationType
  <2>5. ev.value > 0 => ev.value = trial[n].job /\ job[ev.value].shown
    BY DEF Evaluation, Visible, NoMetrics, FAIL_VALUE
  <2> DEFINE c == Cardinality(dups)
             s == SetToSeq(dups)
  <2>6. /\ c \in Nat /\ s \in [1 .. c -> dups]
        /\ \A i, j \in 1 .. c : s[i] = s[j] => i = j
        /\ \A x \in dups : \E i \in 1 .. c : s[i] = x
    BY <2>2, SetInOrder
  <2> HIDE DEF s, c
  <2>7. s \in Seq(Trials) /\ Len(s) = c
    BY <2>2, <2>6
  <2>8. /\ k = 1 + c /\ k \in Nat /\ k > 0 /\ ns = <<n>> \o s
        /\ ns \in [1 .. k -> Trials] /\ ns[1] = n
        /\ \A i \in 2 .. k : ns[i] = s[i - 1] /\ i - 1 \in 1 .. c
    <3>1. k = 1 + c /\ k \in Nat /\ k > 0 /\ ns = <<n>> \o s
      BY <2>6 DEF c, s
    <3> HIDE DEF k, ns
    <3>2. ns \in Seq(Trials) /\ Len(ns) = k /\ ns[1] = n
      BY <1>4, <2>7, <3>1
    <3>3. \A i \in 2 .. k : ns[i] = s[i - 1] /\ i - 1 \in 1 .. c
      BY <1>4, <2>6, <2>7, <3>1
    <3>4. ns \in [1 .. k -> Trials]
      BY <3>2
    <3> QED
      BY <3>1, <3>2, <3>3, <3>4
  <2> HIDE DEF k, ns
  <2>9. \A i \in 2 .. k : ns[i] \in dups /\ ns[i] # n
    BY <2>2, <2>6, <2>8
  <2>10. \A a, b \in 1 .. k : ns[a] = ns[b] => a = b
    <3> SUFFICES ASSUME NEW a \in 1 .. k, NEW b \in 1 .. k, ns[a] = ns[b]
                 PROVE  a = b
      OBVIOUS
    <3>1. CASE a = 1 \/ b = 1
      BY <2>8, <2>9, <3>1
    <3>2. CASE a \in 2 .. k /\ b \in 2 .. k
      <4>1. s[a - 1] = s[b - 1] /\ a - 1 \in 1 .. c /\ b - 1 \in 1 .. c
        BY <2>8, <3>2
      <4>2. a - 1 = b - 1
        BY <2>6, <4>1
      <4> QED
        BY <4>2
    <3> QED
      BY <2>8, <3>1, <3>2
  <2>11. \A m \in dups : \E i \in 2 .. k : ns[i] = m
    <3> SUFFICES ASSUME NEW m \in dups PROVE \E i \in 2 .. k : ns[i] = m
      OBVIOUS
    <3>1. PICK i \in 1 .. c : s[i] = m
      BY <2>6
    <3>2. i + 1 \in 2 .. k /\ (i + 1) - 1 = i
      BY <2>6, <2>8
    <3> QED
      BY <2>8, <3>1, <3>2
  <2> HIDE DEF k, ns, ev, d
  <2>12. EndsOf(todo', k, ns, ev)
    BY <1>4, <2>1, <2>4, <2>8, <2>10, FinishAllEnds
  <2>13. PolledEnds(n, k, ns, ev)
    BY <1>2, <2>4, <2>5, <2>8, <2>9, <2>11, <2>12 DEF PolledEnds
  <2> QED
    BY <1>3, <1>7, <2>13
<1> QED
  BY <1>5, <1>6, <1>7

\* What a hard stop cancels: trials in flight, each once.
LEMMA Drained ==
  ASSUME StoreOK, drain
  PROVE  /\ \E k, ns : /\ EndsOf(todo', k, ns, NoMetrics)
                       /\ \A m \in 1 .. k : trial[ns[m]].state = "submitted"
         /\ at' = "full"
         /\ \E ended \in SUBSET Jobs :
              job' = [j \in Jobs |-> IF j \in ended THEN [job[j] EXCEPT !.state = "ended"] ELSE job[j]]
<1> DEFINE pend == IF stop_reason = "hard" /\ ~loop.drained
                   THEN {n \in InFlight : trial[n].job \in loop.queued} ELSE {}
           ended == {trial[n].job : n \in pend} \cap Jobs
           c == Cardinality(pend)
           s == SetToSeq(pend)
<1>1. pend \subseteq InFlight /\ InFlight \subseteq Trials /\ Trials \subseteq DOMAIN study
  BY DEF InFlight, StoreOK
<1>2. /\ todo' = finish_all(s, NoMetrics) /\ at' = "full"
      /\ job' = [j \in Jobs |-> IF j \in {trial[n].job : n \in pend}
                                THEN [job[j] EXCEPT !.state = "ended"] ELSE job[j]]
  BY DEF drain, Goto
<1> HIDE DEF pend
<1>3. /\ c \in Nat /\ s \in [1 .. c -> pend]
      /\ \A i, j \in 1 .. c : s[i] = s[j] => i = j
  <2>1. IsFiniteSet(pend)
    BY <1>1, NumbersAreFinite
  <2> QED
    BY <2>1, SetInOrder
<1> HIDE DEF s, c
<1>4. s \in [1 .. c -> Trials] /\ \A m \in 1 .. c : trial[s[m]].state = "submitted"
  BY <1>1, <1>3 DEF InFlight
<1>5. EndsOf(todo', c, s, NoMetrics)
  BY <1>2, <1>3, <1>4, FinishAllEnds, NoMetricsType
<1>6. job' = [j \in Jobs |-> IF j \in ended THEN [job[j] EXCEPT !.state = "ended"] ELSE job[j]]
  BY <1>2
<1> HIDE DEF ended
<1>7. \E k, ns : EndsOf(todo', k, ns, NoMetrics) /\ \A m \in 1 .. k : trial[ns[m]].state = "submitted"
  BY <1>4, <1>5
<1>8. ended \in SUBSET Jobs
  BY DEF ended
<1> QED
  BY <1>2, <1>6, <1>7, <1>8

\* A job is given up only when it is over.
LEMMA RetryIsOver ==
  ASSUME ClusterOK, NEW j \in Jobs, NEW d, job_outcome(j, d) = "retry"
  PROVE  Over(j)
BY DEF job_outcome, Visible, Over, ClusterOK

\* What polling a stage does: it is submitted again, it waits, or it ends.
PolledStage(p, s) ==
  \/ \E a \in 1 .. MAX_ATTEMPTS, d \in Dirs : \E l :
       /\ submit_stage(p, s, a, d, l, "promos", "promos")
       /\ d = IF s = "full" THEN DirOf(p) ELSE OutDir(p, s, a)
       /\ s = "full" /\ promo[p].st[s].job \in Jobs => Over(promo[p].st[s].job)
  \/ /\ UNCHANGED <<job, env>> /\ at' = "promos"
     /\ \/ todo' = << >>
        \/ /\ s = "full"
           /\ todo' = <<StageDone(p, s, IF Evaluation(promo[p].st[s].job, DirOf(p)).legal
                                        THEN "legal" ELSE "illegal"), RemoveSnap(DirOf(p))>>
        \/ /\ s \in SIGNOFF
           /\ todo' = <<StageDone(p, s, IF read_signoff(p, s) = "none" THEN "fail" ELSE read_signoff(p, s))>>

\* poll_promos polls one stage that is submitted.
LEMMA StagePolled ==
  ASSUME StoreOK, ClusterOK, poll_promos
  PROVE  \E p \in Promos, s \in STAGES : promo[p].st[s].state = "submitted" /\ PolledStage(p, s)
<1> DEFINE ps == CHOOSE ps \in StagesToPoll : TRUE
           l == [loop EXCEPT !.polled = @ \cup {ps}]
           p == ps[1]
           s == ps[2]
           st == promo[p].st[s]
<1>1. ps \in StagesInFlight
  BY DEF poll_promos, StagesToPoll
<1>2. p \in Promos /\ s \in STAGES /\ st.state = "submitted"
  BY <1>1 DEF StagesInFlight
<1>3. IF s = "full" THEN poll_full(p, l) ELSE poll_signoff(p, s, l)
  BY DEF poll_promos
<1> HIDE DEF ps, l
<1>4. st \in StageRec /\ p \in 1 .. MaxPromos /\ DirOf(p) \in Dirs
  BY <1>2, TrialDir DEF PromoRec
<1>5. st.attempt \in Nat /\ st.job \in 0 .. NJobs
  BY <1>4, OptimizerAssumption DEF StageRec, StageFields
<1>6. CASE s = "full"
  <2>1. poll_full(p, l)
    BY <1>3, <1>6
  <2>2. CASE /\ job_outcome(st.job, DirOf(p)) = "retry" /\ st.attempt < MAX_ATTEMPTS
    <3>1. submit_stage(p, s, st.attempt + 1, DirOf(p), l, "promos", "promos")
      BY <1>6, <2>1, <2>2 DEF poll_full
    <3>2. st.attempt + 1 \in 1 .. MAX_ATTEMPTS
      BY <1>5, <2>2, OptimizerAssumption
    <3>3. st.job \in Jobs => Over(st.job)
      BY <2>2, RetryIsOver
    <3>4. PolledStage(p, s)
      BY <1>4, <1>6, <3>1, <3>2, <3>3 DEF PolledStage
    <3> QED
      BY <1>2, <3>4
  <2>3. CASE ~(job_outcome(st.job, DirOf(p)) = "retry" /\ st.attempt < MAX_ATTEMPTS)
    <3>1. /\ UNCHANGED <<job, env>> /\ at' = "promos"
          /\ \/ todo' = << >>
             \/ todo' = <<StageDone(p, s, IF Evaluation(st.job, DirOf(p)).legal
                                          THEN "legal" ELSE "illegal"), RemoveSnap(DirOf(p))>>
      BY <1>6, <2>1, <2>3 DEF poll_full, Goto
    <3>2. PolledStage(p, s)
      BY <1>6, <3>1 DEF PolledStage
    <3> QED
      BY <1>2, <3>2
  <2> QED
    BY <2>2, <2>3
<1>7. CASE s # "full"
  <2> DEFINE r == read_signoff(p, s)
             again == \/ s = "eq" /\ eq_should_retry(r, st.attempt, MAX_ATTEMPTS)
                      \/ r = "none" /\ job[st.job].state = "old" /\ st.attempt < MAX_ATTEMPTS
  <2>1. poll_signoff(p, s, l) /\ s \in SIGNOFF
    BY <1>2, <1>3, <1>7 DEF STAGES
  <2>2. CASE st.job \notin loop.listing /\ again
    <3>1. submit_stage(p, s, st.attempt + 1, OutDir(p, s, st.attempt + 1), l, "promos", "promos")
      BY <2>1, <2>2 DEF poll_signoff
    <3>2. st.attempt + 1 \in 1 .. MAX_ATTEMPTS
      BY <1>5, <2>2, OptimizerAssumption DEF eq_should_retry
    <3>3. OutDir(p, s, st.attempt + 1) \in Dirs
      BY <1>4, <2>1, <3>2, OutDirs
    <3>4. PolledStage(p, s)
      BY <1>7, <3>1, <3>2, <3>3 DEF PolledStage
    <3> QED
      BY <1>2, <3>4
  <2>3. CASE ~(st.job \notin loop.listing /\ again)
    <3>1. /\ UNCHANGED <<job, env>> /\ at' = "promos"
          /\ todo' = << >> \/ todo' = <<StageDone(p, s, IF r = "none" THEN "fail" ELSE r)>>
      BY <2>1, <2>3 DEF poll_signoff, Goto
    <3>2. PolledStage(p, s)
      BY <2>1, <3>1 DEF PolledStage
    <3> QED
      BY <1>2, <3>2
  <2> QED
    BY <2>2, <2>3
<1> QED
  BY <1>6, <1>7

\* The verdict of an equivalence check is one of the results of a stage.
LEMMA EqRecordType == \A c : eq_record(c) \in Results
BY DEF eq_record, parse_eq, Results

\* So is what a sign-off job left.
LEMMA SignoffType ==
  ASSUME StoreOK, ClusterOK, NEW p \in Promos, NEW s \in SIGNOFF,
         promo[p].st[s].attempt # 0
  PROVE  read_signoff(p, s) \in Results
<1> DEFINE st == promo[p].st[s]
           d == OutDir(p, s, st.attempt)
<1>1. st \in StageRec /\ p \in 1 .. MaxPromos
  BY TrialDir DEF PromoRec, STAGES
<1>2. st.attempt \in 1 .. MAX_ATTEMPTS
  BY <1>1, OptimizerAssumption DEF StageRec, StageFields
<1>3. d \in Dirs
  BY <1>1, <1>2, OutDirs
<1>4. res[d].status \in Statuses
  BY <1>3 DEF ClusterOK
<1>5. "none" \in Results /\ Statuses \subseteq Results
  BY DEF Results, Statuses
<1> QED
  BY <1>4, <1>5, EqRecordType DEF read_signoff

\* The record of a stage that ended.
LEMMA DoneStageRec ==
  ASSUME StoreOK, NEW p \in Promos, NEW s \in STAGES, NEW r \in Results
  PROVE  [promo[p].st[s] EXCEPT !.state = "done", !.result = r] \in StageRec
<1>1. promo[p].st[s] \in StageRec
  BY TrialDir DEF PromoRec
<1> QED
  BY <1>1 DEF StageRec, StageFields

\* Imports that are in the study only are recorded, each once.
ImportRec(k) == [NewTrial(k, "done", TRUE) EXCEPT !.from = k, !.value = LegacyValue, !.legal = TRUE]

\* The record of an import.
LEMMA ImportRecType ==
  ASSUME NEW k \in Legacy
  PROVE  /\ ImportRec(k) \in TrialRec /\ ImportRec(k).from = k /\ ImportRec(k).key = k
         /\ ImportRec(k).state = "done" /\ ImportRec(k).value = LegacyValue /\ ImportRec(k).of = 0
         /\ ImportRec(k).lost = FALSE
<1>1. k \in Keys /\ k \in Legacy \cup {NoKey} /\ LegacyValue \in Int
  BY OptimizerAssumption DEF LegacyValue
<1>2. NewTrial(k, "done", TRUE) \in TrialRec /\ NewTrial(k, "done", TRUE).state = "done"
      /\ NewTrial(k, "done", TRUE).key = k /\ NewTrial(k, "done", TRUE).of = 0
      /\ NewTrial(k, "done", TRUE).lost = FALSE
  BY <1>1, NewTrialRec DEF NewTrial
<1> QED
  BY <1>1, <1>2 DEF ImportRec, TrialRec

\* What one import does to the study and leaves for the store.
LEMMA Imported ==
  ASSUME StoreOK, import_trials
  PROVE  /\ \E k \in ToImport :
              /\ study' = Append(study, [state |-> "complete", value |-> LegacyValue, from |-> k])
              /\ todo' = <<Emit(Len(study) + 1, ImportRec(k))>>
         /\ todo = << >> /\ at' \in {"import", "rescanned", "reimport"}
         /\ UNCHANGED <<trial, promo, earlier, job, disk, loop, env>>
BY DEF import_trials, Here, Goto, record_import, ImportRec

\* What a start, or a scan of the loop, leaves to record of torn imports.
LEMMA Repaired ==
  ASSUME StoreOK, repair_imports
  PROVE  \E k \in Nat : \E s \in [1 .. k -> UnknownImports] :
           /\ \A i, j \in 1 .. k : s[i] = s[j] => i = j
           /\ \A n \in UnknownImports : \E i \in 1 .. k : s[i] = n
           /\ todo' = [i \in 1 .. k |-> Emit(s[i], ImportRec(study[s[i]].from))]
<1> DEFINE s == SetToSeq(UnknownImports)
           k == Cardinality(UnknownImports)
<1>1. IsFiniteSet(UnknownImports)
  BY NumbersAreFinite DEF UnknownImports
<1>2. /\ k \in Nat /\ s \in [1 .. k -> UnknownImports]
      /\ \A i, j \in 1 .. k : s[i] = s[j] => i = j
      /\ \A n \in UnknownImports : \E i \in 1 .. k : s[i] = n
  BY <1>1, SetInOrder
<1>3. todo' = [i \in DOMAIN s |-> record_import(s[i], study[s[i]].from)]
  BY DEF repair_imports
<1> HIDE DEF s, k
<1>4. todo' = [i \in 1 .. k |-> Emit(s[i], ImportRec(study[s[i]].from))]
  BY <1>2, <1>3 DEF record_import, ImportRec
<1> QED
  BY <1>2, <1>4

\* The study is told of what it believes to be running.
LEMMA Reconciled ==
  ASSUME StoreOK, reconcile
  PROVE  \E k \in Nat : \E s \in [1 .. k -> ToReconcile] :
           /\ todo' = [i \in 1 .. k |-> Tell(s[i], IF s[i] \in Trials THEN trial[s[i]].value ELSE FAIL_VALUE)]
<1> DEFINE s == SetToSeq(ToReconcile)
           k == Cardinality(ToReconcile)
<1>1. IsFiniteSet(ToReconcile)
  BY NumbersAreFinite DEF ToReconcile
<1>2. k \in Nat /\ s \in [1 .. k -> ToReconcile]
  BY <1>1, SetInOrder
<1>3. todo' = [i \in DOMAIN s |-> Tell(s[i], IF s[i] \in Trials THEN trial[s[i]].value ELSE FAIL_VALUE)]
  BY DEF reconcile
<1> HIDE DEF s, k
<1>4. todo' = [i \in 1 .. k |-> Tell(s[i], IF s[i] \in Trials THEN trial[s[i]].value ELSE FAIL_VALUE)]
  BY <1>2, <1>3
<1> QED
  BY <1>2, <1>4

\* A number asked for configuration k: the duplicate of o, refused, or a run.
DupRec(k, o) == [NewTrial(k, "dup", TRUE) EXCEPT !.of = o]

\* The record of a duplicate, while it waits and when it has its original's result.
LEMMA DupRecType ==
  ASSUME NEW k \in Keys, NEW o \in Nat
  PROVE  /\ DupRec(k, o) \in TrialRec /\ DupRec(k, o).key = k /\ DupRec(k, o).of = o
         /\ DupRec(k, o).state = "dup" /\ DupRec(k, o).from = NoKey /\ DupRec(k, o).lost = FALSE
         /\ DupRec(k, o).job = 0 /\ DupRec(k, o).built = TRUE
<1>1. NewTrial(k, "dup", TRUE) \in TrialRec
  BY NewTrialRec
<1> QED
  BY <1>1 DEF DupRec, TrialRec, NewTrial

NewRec(k) == NewTrial(k, "new", TRUE)
UnbuiltRec(k) == NewTrial(k, "new", FALSE)
RefusedRec(k) == NewTrial(k, "rejected", FALSE)

Asked(k) ==
  LET n == Len(study) + 1 IN
  \/ \E o \in Original(k) :
       /\ at' = "ask"
       /\ todo' = IF trial[o].state = "done"
                  THEN <<Emit(n, NewRec(k)), Emit(n, DupRec(k, o)),
                         Emit(n, Done(DupRec(k, o), Result(trial[o]))), Tell(n, trial[o].value)>>
                  ELSE <<Emit(n, NewRec(k)), Emit(n, DupRec(k, o))>>
  \/ /\ Original(k) = {} /\ at' = "ask"
     /\ todo' = <<Emit(n, UnbuiltRec(k)), Emit(n, RefusedRec(k)),
                  Tell(n, FAIL_VALUE)>>
  \/ /\ Original(k) = {} /\ at' = "new"
     /\ todo' = <<Emit(n, NewRec(k))>>

\* What asking for a configuration leaves: a duplicate, a refusal or a new run.
LEMMA NewAsked ==
  ASSUME StoreOK, new_trial
  PROVE  /\ \E k \in Keys : Asked(k)
         /\ study' = Append(study, [state |-> "running", value |-> FAIL_VALUE, from |-> NoKey])
         /\ todo = << >>
         /\ UNCHANGED <<trial, promo, earlier, job, res, sub, env>>
<1> DEFINE n == Len(study) + 1
<1>1. todo = << >>
  BY DEF new_trial, Here
<1>2. PICK k \in Keys :
        LET o == Original(k)
            dup == [NewTrial(k, "dup", TRUE) EXCEPT !.of = Min(o)] IN
        /\ study' = Append(study, [state |-> "running", value |-> FAIL_VALUE, from |-> NoKey])
        /\ IF o # {}
           THEN /\ Goto("ask")
                /\ todo' = <<Emit(n, NewRec(k)), Emit(n, dup)>>
                            \o IF trial[Min(o)].state = "done"
                               THEN finish(n, dup, Result(trial[Min(o)])) ELSE << >>
                /\ UNCHANGED snap
           ELSE IF k \in BadKeys
           THEN /\ Goto("ask")
                /\ todo' = <<Emit(n, UnbuiltRec(k)), Emit(n, RefusedRec(k)), Tell(n, FAIL_VALUE)>>
                /\ UNCHANGED snap
           ELSE /\ Goto("new")
                /\ todo' = <<Emit(n, NewRec(k))>>
                /\ snap' = snap \cup {FlowDir("fast", k)}
  BY DEF new_trial, NewRec, UnbuiltRec, RefusedRec
<1>3. Asked(k)
  <2>1. CASE Original(k) = {}
    BY <1>2, <2>1 DEF Asked, Goto
  <2>2. CASE Original(k) # {}
    <3> DEFINE o == Min(Original(k))
    <3>1. o \in Original(k)
      <4>1. Original(k) \subseteq Nat
        BY DEF Original, StoreOK
      <4> QED
        BY <2>2, <4>1, MinIsLeast
    <3>2. /\ at' = "ask"
          /\ todo' = <<Emit(n, NewRec(k)), Emit(n, DupRec(k, o))>>
                       \o IF trial[o].state = "done"
                          THEN finish(n, DupRec(k, o), Result(trial[o])) ELSE << >>
      BY <1>2, <2>2 DEF Goto, DupRec
    <3>3. finish(n, DupRec(k, o), Result(trial[o])) =
            <<Emit(n, Done(DupRec(k, o), Result(trial[o]))), Tell(n, trial[o].value)>>
      BY DEF finish, Result
    <3> HIDE DEF o, n
    <3>4. todo' = IF trial[o].state = "done"
                  THEN <<Emit(n, NewRec(k)), Emit(n, DupRec(k, o)),
                         Emit(n, Done(DupRec(k, o), Result(trial[o]))), Tell(n, trial[o].value)>>
                  ELSE <<Emit(n, NewRec(k)), Emit(n, DupRec(k, o))>>
      <4>1. \A a, b, c, e : <<a, b>> \o <<c, e>> = <<a, b, c, e>> /\ <<a, b>> \o << >> = <<a, b>>
        <5> SUFFICES ASSUME NEW a, NEW b, NEW c, NEW e
                     PROVE  <<a, b>> \o <<c, e>> = <<a, b, c, e>> /\ <<a, b>> \o << >> = <<a, b>>
          OBVIOUS
        <5>1. <<a, b>> \o <<c, e>> = <<a, b, c, e>>
          <6> DEFINE S == {a, b, c, e}
                     u == <<a, b>> \o <<c, e>>
                     v == <<a, b, c, e>>
          <6>1. u \in Seq(S) /\ Len(u) = 4 /\ u[1] = a /\ u[2] = b /\ u[3] = c /\ u[4] = e
            OBVIOUS
          <6>2. v \in Seq(S) /\ Len(v) = 4 /\ v[1] = a /\ v[2] = b /\ v[3] = c /\ v[4] = e
            OBVIOUS
          <6> HIDE DEF u, v, S
          <6>3. \A i \in 1 .. 4 : u[i] = v[i]
            BY <6>1, <6>2
          <6> QED
            BY <6>1, <6>2, <6>3, SeqEqual DEF u, v
        <5>2. <<a, b>> \o << >> = <<a, b>>
          OBVIOUS
        <5> QED
          BY <5>1, <5>2
      <4>2. CASE trial[o].state = "done"
        BY <3>2, <3>3, <4>1, <4>2, Zenon
      <4>3. CASE trial[o].state # "done"
        BY <3>2, <3>3, <4>1, <4>3, Zenon
      <4> QED
        BY <4>2, <4>3
    <3> QED
      BY <3>1, <3>2, <3>4 DEF Asked, n
  <2> QED
    BY <2>1, <2>2
<1> QED
  BY <1>1, <1>2, <1>3 DEF new_trial

\* Effects about numbers of the study are typed.
LEMMA NumbersAreTodo ==
  ASSUME StoreOK', NEW k \in Nat, todo' \in [1 .. k -> TrialEffects \cup TellEffects],
         \A i \in 1 .. k : todo'[i].n \in DOMAIN study'
  PROVE  TodoOK'
<1>1. \A i \in 1 .. k : todo'[i] \in Effects /\ todo'[i].op \in {"trial", "tell"}
  BY DEF Effects, TrialEffects, TellEffects
<1>2. todo' \in Seq(Effects) /\ DOMAIN todo' = 1 .. k
  BY <1>1
<1> QED
  BY <1>1, <1>2 DEF TodoOK

\* Asking the study keeps the types.
LEMMA AskTypes ==
  ASSUME OptimizerTypeOK, new_trial
  PROVE  OptimizerTypeOK'
<1> USE DEF OptimizerTypeOK
<1> DEFINE n == Len(study) + 1
           r == [state |-> "running", value |-> FAIL_VALUE, from |-> NoKey]
<1>1. PICK k \in Keys : Asked(k)
  BY NewAsked
<1>2. /\ study' = Append(study, r)
      /\ UNCHANGED <<trial, promo, earlier, job, res, sub, env>>
  BY NewAsked
<1>3. r \in StudyRec /\ study \in Seq(StudyRec)
  BY DEF StudyRec, StoreOK, FAIL_VALUE
<1> HIDE DEF r
<1>4. study' \in Seq(StudyRec) /\ DOMAIN study \subseteq DOMAIN study' /\ n \in DOMAIN study' /\ n \in Nat
  BY <1>2, <1>3
<1>5. StoreOK'
  BY <1>2, <1>4 DEF StoreOK, Trials, Promos
<1>6. ClusterOK'
  BY <1>2, ClusterSame
<1>7. NewRec(k) \in TrialRec /\ UnbuiltRec(k) \in TrialRec /\ RefusedRec(k) \in TrialRec
  BY NewTrialRec DEF NewRec, UnbuiltRec, RefusedRec
<1>8. \A t \in TrialRec : Emit(n, t) \in TrialEffects /\ Emit(n, t).n = n
  BY <1>4 DEF Emit, TrialEffects
<1>9. \A v \in Int : Tell(n, v) \in TellEffects /\ Tell(n, v).n = n
  BY <1>4 DEF Tell, TellEffects
<1> HIDE DEF n
<1>10. TodoOK'
  <2>1. CASE \E o \in Original(k) :
               todo' = IF trial[o].state = "done"
                  THEN <<Emit(n, NewRec(k)), Emit(n, DupRec(k, o)),
                         Emit(n, Done(DupRec(k, o), Result(trial[o]))), Tell(n, trial[o].value)>>
                  ELSE <<Emit(n, NewRec(k)), Emit(n, DupRec(k, o))>>
    <3>1. PICK o \in Original(k) :
               todo' = IF trial[o].state = "done"
                  THEN <<Emit(n, NewRec(k)), Emit(n, DupRec(k, o)),
                         Emit(n, Done(DupRec(k, o), Result(trial[o]))), Tell(n, trial[o].value)>>
                  ELSE <<Emit(n, NewRec(k)), Emit(n, DupRec(k, o))>>
      BY <2>1
    <3>2. o \in Nat /\ trial[o] \in TrialRec
      BY DEF Original, StoreOK
    <3>3. DupRec(k, o) \in TrialRec /\ trial[o].value \in Int
      BY <3>2, DupRecType DEF TrialRec
    <3>4. /\ Result(trial[o]).value \in Int /\ Result(trial[o]).legal \in BOOLEAN
          /\ Result(trial[o]).lost \in BOOLEAN
      BY <3>2 DEF TrialRec, Result
    <3>5. Done(DupRec(k, o), Result(trial[o])) \in TrialRec
      BY <3>3, <3>4, DoneRec
    <3> DEFINE a == Emit(n, NewRec(k))
               b == Emit(n, DupRec(k, o))
               c == Emit(n, Done(DupRec(k, o), Result(trial[o])))
               e == Tell(n, trial[o].value)
    <3>6. /\ a \in TrialEffects /\ a.n = n /\ b \in TrialEffects /\ b.n = n
          /\ c \in TrialEffects /\ c.n = n /\ e \in TellEffects /\ e.n = n
      BY <1>7, <1>8, <1>9, <3>3, <3>5
    <3>7. todo' = <<a, b, c, e>> \/ todo' = <<a, b>>
      BY <3>1
    <3> HIDE DEF a, b, c, e
    <3>8. CASE todo' = <<a, b, c, e>>
      <4>1. todo' \in [1 .. 4 -> TrialEffects \cup TellEffects] /\ \A i \in 1 .. 4 : todo'[i].n = n
        BY <3>6, <3>8
      <4> QED
        BY <1>4, <1>5, <4>1, NumbersAreTodo
    <3>9. CASE todo' = <<a, b>>
      <4>1. todo' \in [1 .. 2 -> TrialEffects \cup TellEffects] /\ \A i \in 1 .. 2 : todo'[i].n = n
        BY <3>6, <3>9
      <4> QED
        BY <1>4, <1>5, <4>1, NumbersAreTodo
    <3> QED
      BY <3>7, <3>8, <3>9
  <2>2. CASE todo' = <<Emit(n, UnbuiltRec(k)), Emit(n, RefusedRec(k)),
                       Tell(n, FAIL_VALUE)>>
    <3> DEFINE a == Emit(n, UnbuiltRec(k))
               b == Emit(n, RefusedRec(k))
               e == Tell(n, FAIL_VALUE)
    <3>1. a \in TrialEffects /\ a.n = n /\ b \in TrialEffects /\ b.n = n /\ e \in TellEffects /\ e.n = n
      <4>1. FAIL_VALUE \in Int
        BY DEF FAIL_VALUE
      <4> QED
        BY <1>7, <1>8, <1>9, <4>1
    <3>2. todo' = <<a, b, e>>
      BY <2>2
    <3> HIDE DEF a, b, e
    <3>3. todo' \in [1 .. 3 -> TrialEffects \cup TellEffects] /\ \A i \in 1 .. 3 : todo'[i].n = n
      BY <3>1, <3>2
    <3> QED
      BY <1>4, <1>5, <3>3, NumbersAreTodo
  <2>3. CASE todo' = <<Emit(n, NewRec(k))>>
    <3> DEFINE a == Emit(n, NewRec(k))
    <3>1. a \in TrialEffects /\ a.n = n /\ todo' = <<a>>
      BY <1>7, <1>8, <2>3
    <3> HIDE DEF a
    <3>2. todo' \in [1 .. 1 -> TrialEffects \cup TellEffects] /\ \A i \in 1 .. 1 : todo'[i].n = n
      BY <3>1
    <3> QED
      BY <1>4, <1>5, <3>2, NumbersAreTodo
  <2> QED
    BY <1>1, <2>1, <2>2, <2>3 DEF Asked, n
<1> QED
  BY <1>2, <1>5, <1>6, <1>10 DEF env

\* Importing, repairing and reconciling keep the types.
LEMMA ImportTypes ==
  ASSUME OptimizerTypeOK, repair_imports \/ import_trials \/ reconcile
  PROVE  OptimizerTypeOK'
<1> USE DEF OptimizerTypeOK
<1>1. CASE repair_imports
  <2>10. PICK k \in Nat : \E s \in [1 .. k -> UnknownImports] :
                            todo' = [i \in 1 .. k |-> Emit(s[i], ImportRec(study[s[i]].from))]
    BY <1>1, Repaired
  <2>1. PICK s \in [1 .. k -> UnknownImports] :
             todo' = [i \in 1 .. k |-> Emit(s[i], ImportRec(study[s[i]].from))]
    BY <2>10
  <2>2. StoreOK'
    BY <1>1, StoreSame DEF repair_imports
  <2>3. \A n \in UnknownImports : n \in DOMAIN study /\ n \in Nat /\ study[n].from \in Legacy
    <3>1. \A n \in DOMAIN study : n \in Nat /\ study[n] \in StudyRec
      BY DEF StoreOK
    <3> QED
      BY <3>1 DEF UnknownImports, StudyRec
  <2>4. \A n \in UnknownImports : ImportRec(study[n].from) \in TrialRec
    BY <2>3, ImportRecType
  <2>5. \A i \in 1 .. k : todo'[i] \in TrialEffects /\ todo'[i].n \in DOMAIN study'
    <3> SUFFICES ASSUME NEW i \in 1 .. k
                 PROVE  todo'[i] \in TrialEffects /\ todo'[i].n \in DOMAIN study'
      OBVIOUS
    <3>1. s[i] \in UnknownImports /\ todo'[i] = Emit(s[i], ImportRec(study[s[i]].from)) /\ study' = study
      BY <1>1, <2>1 DEF repair_imports, store
    <3> QED
      BY <2>3, <2>4, <3>1 DEF Emit, TrialEffects
  <2>6. TodoOK'
    BY <2>1, <2>2, <2>5, NumbersAreTodo
  <2> QED
    BY <1>1, <2>2, <2>6, ClusterSame DEF repair_imports, env, disk
<1>2. CASE import_trials
  <2> DEFINE n == Len(study) + 1
  <2>1. PICK k \in ToImport :
          /\ study' = Append(study, [state |-> "complete", value |-> LegacyValue, from |-> k])
          /\ todo' = <<Emit(n, ImportRec(k))>>
          /\ UNCHANGED <<trial, promo, earlier, job, disk, loop, env>>
    BY <1>2, Imported
  <2>2. k \in Legacy
    BY DEF ToImport, StoreOK
  <2> DEFINE r == [state |-> "complete", value |-> LegacyValue, from |-> k]
  <2>3. r \in StudyRec
    BY <2>2 DEF StudyRec, LegacyValue
  <2> HIDE DEF r
  <2>4. study' \in Seq(StudyRec) /\ DOMAIN study \subseteq DOMAIN study' /\ n \in DOMAIN study' /\ n \in Nat
    BY <2>1, <2>3 DEF StoreOK, r
  <2>5. StoreOK'
    BY <2>1, <2>4 DEF StoreOK, Trials, Promos
  <2>6. Emit(n, ImportRec(k)) \in Effects /\ Emit(n, ImportRec(k)).op = "trial" /\ Emit(n, ImportRec(k)).n = n
    <3>1. ImportRec(k) \in TrialRec /\ n \in Nat
      BY <2>2, <2>4, ImportRecType
    <3> HIDE DEF n
    <3> QED
      BY <3>1, EmitIs
  <2>7. TodoOK'
    BY <2>1, <2>4, <2>5, <2>6, TodoOne
  <2> QED
    BY <2>1, <2>5, <2>7, ClusterSame DEF env, disk
<1>3. CASE reconcile
  <2> DEFINE v(n) == IF n \in Trials THEN trial[n].value ELSE FAIL_VALUE
  <2>1. PICK k, s : /\ k \in Nat /\ s \in [1 .. k -> ToReconcile]
                   /\ todo' = [i \in 1 .. k |-> Tell(s[i], v(s[i]))]
    BY <1>3, Reconciled
  <2>2. StoreOK'
    BY <1>3, StoreSame DEF reconcile
  <2>3. \A n \in ToReconcile : n \in DOMAIN study /\ n \in Nat /\ v(n) \in Int
    BY DEF ToReconcile, StoreOK, TrialRec, FAIL_VALUE
  <2> HIDE DEF v
  <2>5. \A i \in 1 .. k : todo'[i] \in TellEffects /\ todo'[i].n \in DOMAIN study'
    <3> SUFFICES ASSUME NEW i \in 1 .. k
                 PROVE  todo'[i] \in TellEffects /\ todo'[i].n \in DOMAIN study'
      OBVIOUS
    <3>1. s[i] \in ToReconcile /\ todo'[i] = Tell(s[i], v(s[i])) /\ study' = study
      BY <1>3, <2>1 DEF reconcile, store
    <3> QED
      BY <2>3, <3>1 DEF Tell, TellEffects
  <2>6. TodoOK'
    BY <2>1, <2>2, <2>5, NumbersAreTodo
  <2> QED
    BY <1>3, <2>2, <2>6, ClusterSame DEF reconcile, env, disk
<1> QED
  BY <1>1, <1>2, <1>3

\* Ends of trials and their words keep the types.
LEMMA EndsTypes ==
  ASSUME OptimizerTypeOK, poll_trials \/ drain
  PROVE  OptimizerTypeOK'
<1> USE DEF OptimizerTypeOK
<1>1. StoreOK' /\ UNCHANGED <<store, disk>>
  BY StoreSame DEF poll_trials, drain
<1>2. CASE poll_trials
  <2>1. CASE \E n \in InFlight, a \in 0 .. MAX_ATTEMPTS : \E l : submit_trial(n, a, l, "trials", "trials")
    BY <1>1, <2>1, SubmitTrialTypes DEF InFlight, disk
  <2>2. CASE /\ UNCHANGED <<job, env>> /\ at' = "trials"
             /\ todo' = << >> \/ \E n, k, ns, ev : PolledEnds(n, k, ns, ev)
    <3>1. TodoOK'
      BY <1>1, <2>2, TodoEmpty, EndsAreTodo DEF PolledEnds
    <3> QED
      BY <1>1, <2>2, <3>1, ClusterSame DEF env, disk
  <2> QED
    BY <1>2, <2>1, <2>2, PolledTrial
<1>3. CASE drain
  <2>1. TodoOK'
    BY <1>1, <1>3, Drained, EndsAreTodo
  <2>2. ClusterOK'
    <3>1. PICK ended \in SUBSET Jobs :
            job' = [j \in Jobs |-> IF j \in ended THEN [job[j] EXCEPT !.state = "ended"] ELSE job[j]]
      BY <1>3, Drained
    <3>2. \A j \in Jobs : job'[j] = job[j] \/ job'[j] = [job[j] EXCEPT !.state = "ended"]
      BY <3>1
    <3>3. \A j \in Jobs : [job[j] EXCEPT !.state = "ended"] =
                            [state |-> "ended", dir |-> job[j].dir, shown |-> job[j].shown]
      BY DEF ClusterOK
    <3>4. DOMAIN job' = Jobs
      BY <3>1
    <3> QED
      BY <1>1, <3>2, <3>3, <3>4 DEF ClusterOK, JobStates, Active, disk
  <2> QED
    BY <1>1, <1>3, <2>1, <2>2 DEF drain, env
<1> QED
  BY <1>2, <1>3

\* What filling does with the stages.
SignoffFilled(p, s) ==
  /\ promo[p].st["full"].result = "legal" /\ promo[p].st[s].state = "none"
  /\ \/ at' = "end" /\ UNCHANGED <<job, todo, env, sub>>
     \/ /\ sub' = [sub EXCEPT ![p] = prepare_sub(p)]
        /\ \/ /\ prepare_sub(p) = 0 /\ todo' = <<StageDone(p, s, "fail")>>
              /\ at' = "signoff" /\ UNCHANGED <<job, env>>
           \/ /\ prepare_sub(p) # 0
              /\ submit_stage(p, s, 1, OutDir(p, s, 1), loop, "signoff", "end")

\* fill_full and fill_signoff fill one stage of one promotion.
LEMMA StagesFilled ==
  ASSUME StoreOK
  PROVE  /\ fill_full => \E p \in Promos : /\ promo[p].st["full"].state = "none"
                                           /\ submit_stage(p, "full", 1, DirOf(p), loop, "full", "end")
         /\ fill_signoff => \E p \in Promos, s \in SIGNOFF : SignoffFilled(p, s)
<1>1. ASSUME fill_full
      PROVE  \E p \in Promos : /\ promo[p].st["full"].state = "none"
                               /\ submit_stage(p, "full", 1, DirOf(p), loop, "full", "end")
  <2>1. FullToSubmit \subseteq Nat /\ FullToSubmit # {} /\ FullToSubmit \subseteq Promos
    BY <1>1 DEF FullToSubmit, Promos, StoreOK, fill_full
  <2>2. Min(FullToSubmit) \in FullToSubmit
    BY <2>1, MinIsLeast
  <2> QED
    BY <1>1, <2>1, <2>2 DEF fill_full, FullToSubmit
<1>2. ASSUME fill_signoff
      PROVE  \E p \in Promos, s \in SIGNOFF : SignoffFilled(p, s)
  <2> DEFINE ps == CHOOSE ps \in pending_signoffs : TRUE
             p == ps[1]
             s == ps[2]
  <2>1. ps \in pending_signoffs
    BY <1>2 DEF fill_signoff
  <2>2. p \in Promos /\ s \in SIGNOFF /\ promo[p].st["full"].result = "legal" /\ promo[p].st[s].state = "none"
    <3> HIDE DEF ps
    <3>1. ps \in Promos \X SIGNOFF /\ promo[ps[1]].st["full"].result = "legal" /\ promo[ps[1]].st[ps[2]].state = "none"
      BY <2>1 DEF pending_signoffs
    <3> QED
      BY <3>1
  <2>3. \/ at' = "end" /\ UNCHANGED <<job, todo, loop, env, sub>>
        \/ /\ sub' = [sub EXCEPT ![p] = prepare_sub(p)]
           /\ \/ /\ prepare_sub(p) = 0 /\ todo' = <<StageDone(p, s, "fail")>>
                 /\ at' = "signoff" /\ UNCHANGED <<job, env>>
              \/ /\ prepare_sub(p) # 0
                 /\ submit_stage(p, s, 1, OutDir(p, s, 1), loop, "signoff", "end")
    BY <1>2 DEF fill_signoff, Goto
  <2> HIDE DEF ps
  <2>4. SignoffFilled(p, s)
    BY <2>2, <2>3 DEF SignoffFilled
  <2> QED
    BY <2>2, <2>4
<1> QED
  BY <1>1, <1>2

\* What sub/ is filled with is a job or nothing.
LEMMA PreparedType ==
  ASSUME StoreOK, ClusterOK, NEW p \in Promos
  PROVE  prepare_sub(p) \in 0 .. NJobs
<1>1. DirOf(p) \in Dirs /\ p \in 1 .. MaxPromos
  BY TrialDir
<1> QED
  BY <1>1 DEF prepare_sub, ClusterOK

\* The event that ends a stage.
LEMMA StageDoneIs ==
  ASSUME StoreOK, NEW p \in Promos, NEW s \in STAGES, NEW r \in Results
  PROVE  \E e \in Effects :
           /\ e = StageDone(p, s, r)
           /\ e.op = "stage" /\ e.n = p /\ e.stage = s
           /\ e.rec.state = "done" /\ e.rec.result = r /\ e.rec.job = promo[p].st[s].job
           /\ e.rec.attempt = promo[p].st[s].attempt /\ e.rec.submits = promo[p].st[s].submits
<1> DEFINE t == [promo[p].st[s] EXCEPT !.state = "done", !.result = r]
<1>1. t \in StageRec
  BY DoneStageRec
<1>2. p \in Nat
  BY TrialDir
<1>3. promo[p].st[s] \in StageFields
  BY TrialDir DEF PromoRec, StageRec
<1>4. /\ t.state = "done" /\ t.result = r /\ t.job = promo[p].st[s].job
      /\ t.attempt = promo[p].st[s].attempt /\ t.submits = promo[p].st[s].submits
  BY <1>3 DEF StageFields
<1> HIDE DEF t
<1>5. StageDone(p, s, r) = EmitStage(p, s, t)
  BY DEF StageDone, t
<1>6. EmitStage(p, s, t) \in Effects /\ EmitStage(p, s, t).op = "stage" /\ EmitStage(p, s, t).n = p
      /\ EmitStage(p, s, t).stage = s /\ EmitStage(p, s, t).rec = t
  BY <1>1, <1>2, EmitStageIs
<1> QED
  BY <1>4, <1>5, <1>6

\* A handler that leaves one end of a stage, and maybe a deletion, to perform.
LEMMA StageDoneTodo ==
  ASSUME StoreOK, UNCHANGED store, NEW p \in Promos, NEW s \in STAGES, NEW r \in Results,
         \/ todo' = <<StageDone(p, s, r)>>
         \/ todo' = <<StageDone(p, s, r), RemoveSnap(DirOf(p))>>
  PROVE  TodoOK' /\ todo'[1] = StageDone(p, s, r) /\ \A i \in DOMAIN todo' : todo'[i].op = "stage" <=> i = 1
<1> DEFINE e == StageDone(p, s, r)
           x == RemoveSnap(DirOf(p))
<1>1. e \in Effects /\ e.op = "stage" /\ e.n = p
  BY StageDoneIs
<1>2. x \in Effects /\ x.op = "rmtree"
  BY TrialDir, RemoveSnapIs
<1>3. p \in Promos'
  BY StoreSame
<1>4. todo' = <<e>> \/ todo' = <<e, x>>
  OBVIOUS
<1> HIDE DEF e, x
<1>5. /\ todo' \in Seq(Effects) /\ todo'[1] = e
      /\ \A i \in DOMAIN todo' : i = 1 \/ todo'[i] = x
      /\ 1 \in DOMAIN todo'
  <2>1. CASE todo' = <<e>>
    BY <1>1, <2>1
  <2>2. CASE todo' = <<e, x>>
    BY <1>1, <1>2, <2>2
  <2> QED
    BY <1>4, <2>1, <2>2
<1>6. TodoOK'
  BY <1>1, <1>2, <1>3, <1>5 DEF TodoOK
<1> QED
  BY <1>1, <1>2, <1>5, <1>6 DEF e

\* Polling and filling stages keep the types.
LEMMA StageTypes ==
  ASSUME OptimizerTypeOK, StagesStand, poll_promos \/ fill_full \/ fill_signoff \/ promote_submit
  PROVE  OptimizerTypeOK'
<1> USE DEF OptimizerTypeOK
<1>1. UNCHANGED store /\ StoreOK' /\ UNCHANGED res
  BY StoreSame DEF poll_promos, fill_full, fill_signoff, promote_submit, disk
<1>2. 1 \in 1 .. MAX_ATTEMPTS /\ "full" \in STAGES /\ SIGNOFF \subseteq STAGES
  BY OptimizerAssumption DEF STAGES
<1>3. ClusterOK => sub \in [1 .. MaxPromos -> 0 .. NJobs]
  BY DEF ClusterOK
<1>4. CASE poll_promos
  <2>1. PICK p \in Promos, s \in STAGES : promo[p].st[s].state = "submitted" /\ PolledStage(p, s)
    BY <1>4, StagePolled
  <2>2. sub' = sub
    BY <1>4 DEF poll_promos, disk
  <2>3. CASE \E a \in 1 .. MAX_ATTEMPTS, d \in Dirs : \E l : submit_stage(p, s, a, d, l, "promos", "promos")
    BY <1>1, <1>3, <2>2, <2>3, SubmitStageTypes
  <2>4. CASE /\ UNCHANGED <<job, env>>
             /\ \/ todo' = << >>
                \/ /\ s = "full"
                   /\ todo' = <<StageDone(p, s, IF Evaluation(promo[p].st[s].job, DirOf(p)).legal
                                                THEN "legal" ELSE "illegal"), RemoveSnap(DirOf(p))>>
                \/ /\ s \in SIGNOFF
                   /\ todo' = <<StageDone(p, s, IF read_signoff(p, s) = "none" THEN "fail" ELSE read_signoff(p, s))>>
    <3>1. promo[p].st[s] \in StageRec
      BY TrialDir DEF PromoRec
    <3>2. promo[p].st[s].attempt # 0
      BY <2>1, <3>1 DEF StageRec
    <3>3. {"legal", "illegal", "fail"} \subseteq Results
      BY DEF Results, Statuses
    <3>4. s \in SIGNOFF => read_signoff(p, s) \in Results
      BY <3>2, SignoffType
    <3>5. TodoOK'
      BY <1>1, <2>4, <3>3, <3>4, StageDoneTodo, TodoEmpty
    <3> QED
      BY <1>1, <2>2, <2>4, <3>5, ClusterSame DEF env
  <2> QED
    BY <2>1, <2>3, <2>4 DEF PolledStage
<1>5. CASE fill_full
  <2>1. PICK p \in Promos : submit_stage(p, "full", 1, DirOf(p), loop, "full", "end")
    BY <1>5, StagesFilled
  <2>2. sub' = sub /\ DirOf(p) \in Dirs
    BY <1>5, TrialDir DEF fill_full, disk
  <2> QED
    BY <1>1, <1>2, <1>3, <2>1, <2>2, SubmitStageTypes
<1>6. CASE fill_signoff
  <2>1. PICK p \in Promos, s \in SIGNOFF : SignoffFilled(p, s)
    BY <1>6, StagesFilled
  <2>2. CASE at' = "end" /\ UNCHANGED <<job, todo, env, sub>>
    BY <1>1, <2>2, ClusterSame, TodoSame DEF env, store
  <2>3. CASE /\ sub' = [sub EXCEPT ![p] = prepare_sub(p)]
             /\ \/ /\ prepare_sub(p) = 0 /\ todo' = <<StageDone(p, s, "fail")>>
                   /\ at' = "signoff" /\ UNCHANGED <<job, env>>
                \/ /\ prepare_sub(p) # 0
                   /\ submit_stage(p, s, 1, OutDir(p, s, 1), loop, "signoff", "end")
    <3>1. prepare_sub(p) \in 0 .. NJobs
      BY PreparedType
    <3>2. sub' \in [1 .. MaxPromos -> 0 .. NJobs]
      BY <1>3, <2>3, <3>1
    <3>3. CASE submit_stage(p, s, 1, OutDir(p, s, 1), loop, "signoff", "end")
      <4>1. OutDir(p, s, 1) \in Dirs
        BY <1>2, TrialDir, OutDirs
      <4> QED
        BY <1>1, <1>2, <3>2, <3>3, <4>1, SubmitStageTypes
    <3>4. CASE todo' = <<StageDone(p, s, "fail")>> /\ UNCHANGED <<job, env>>
      <4>1. "fail" \in Results /\ s \in STAGES
        BY <1>2 DEF Results, Statuses
      <4>2. TodoOK'
        BY <1>1, <3>4, <4>1, StageDoneTodo
      <4>3. ClusterOK'
        BY <1>1, <3>2, <3>4 DEF ClusterOK
      <4> QED
        BY <1>1, <3>4, <4>2, <4>3 DEF env
    <3> QED
      BY <2>3, <3>3, <3>4
  <2> QED
    BY <2>1, <2>2, <2>3 DEF SignoffFilled
<1>7. CASE promote_submit
  <2>1. Len(promo) \in Promos
    BY <1>7 DEF promote_submit, StagesStand, StoreOK, Promos
  <2>2. sub' = sub /\ DirOf(Len(promo)) \in Dirs
    BY <1>7, <2>1, TrialDir DEF promote_submit, disk
  <2> QED
    BY <1>1, <1>2, <1>3, <1>7, <2>1, <2>2, SubmitStageTypes DEF promote_submit
<1> QED
  BY <1>4, <1>5, <1>6, <1>7

\* A job with another state is still a job.
LEMMA JobChanged ==
  ASSUME ClusterOK, NEW j \in Jobs, NEW st \in JobStates, NEW sh \in BOOLEAN,
         sh => st \in {"ended", "old"}, st \in Active => job[j].dir \in Dirs,
         job' = [job EXCEPT ![j] = [state |-> st, dir |-> job[j].dir, shown |-> sh]],
         res' \in [Dirs -> [job : 0 .. NJobs, status : Statuses]], sub' = sub
  PROVE  ClusterOK'
<1> DEFINE r == [state |-> st, dir |-> job[j].dir, shown |-> sh]
<1>1. /\ r.state = st /\ r.dir = job[j].dir /\ r.shown = sh
      /\ r = [state |-> r.state, dir |-> r.dir, shown |-> r.shown]
  OBVIOUS
<1> HIDE DEF r
<1>2. DOMAIN job' = Jobs /\ job'[j] = r /\ \A i \in Jobs \ {j} : job'[i] = job[i]
  BY DEF ClusterOK, r
<1> QED
  BY <1>1, <1>2 DEF ClusterOK

\* What the cluster makes of a job.
JobStep(j) == StartJob(j) \/ PreemptJob(j) \/ EndJob(j) \/ ShowResult(j) \/ GraceOver(j)

\* What a job leaves is a status.
LEMMA OutcomeTypes == \A d : Outcomes(d) \subseteq Statuses
BY DEF Outcomes, Statuses

\* The cluster's steps keep the types.
LEMMA JobStepTypes ==
  ASSUME ClusterOK, NEW j \in Jobs, JobStep(j)
  PROVE  ClusterOK'
<1> DEFINE d == job[j].dir
<1>1. /\ job[j] = [state |-> job[j].state, dir |-> d, shown |-> job[j].shown]
      /\ DOMAIN job = Jobs /\ job[j].shown \in BOOLEAN
      /\ job[j].shown => job[j].state \in {"ended", "old"}
      /\ job[j].state \in Active => d \in Dirs
      /\ res \in [Dirs -> [job : 0 .. NJobs, status : Statuses]]
  BY DEF ClusterOK
<1>2. \A x, y : /\ [job[j] EXCEPT !.state = x] = [state |-> x, dir |-> d, shown |-> job[j].shown]
                /\ [job[j] EXCEPT !.shown = x] = [state |-> job[j].state, dir |-> d, shown |-> x]
                /\ [job[j] EXCEPT !.state = x, !.shown = y] = [state |-> x, dir |-> d, shown |-> y]
  <2> SUFFICES ASSUME NEW x, NEW y
               PROVE  /\ [job[j] EXCEPT !.state = x] = [state |-> x, dir |-> d, shown |-> job[j].shown]
                      /\ [job[j] EXCEPT !.shown = x] = [state |-> job[j].state, dir |-> d, shown |-> x]
                      /\ [job[j] EXCEPT !.state = x, !.shown = y] = [state |-> x, dir |-> d, shown |-> y]
    OBVIOUS
  <2>1. [job[j] EXCEPT !.state = x] = [state |-> x, dir |-> d, shown |-> job[j].shown]
    BY <1>1
  <2>2. [job[j] EXCEPT !.shown = x] = [state |-> job[j].state, dir |-> d, shown |-> x]
    BY <1>1
  <2>3. [job[j] EXCEPT !.state = x, !.shown = y] = [state |-> x, dir |-> d, shown |-> y]
    <3>1. \A z : [[state |-> x, dir |-> d, shown |-> z] EXCEPT !.shown = y] =
                 [state |-> x, dir |-> d, shown |-> y]
      OBVIOUS
    <3> QED
      BY <2>1, <3>1
  <2> QED
    BY <2>1, <2>2, <2>3
<1>3. j \in 0 .. NJobs /\ 0 \in 0 .. NJobs
  BY OptimizerAssumption DEF Jobs
<1>4. /\ NoResult \in [job : 0 .. NJobs, status : Statuses]
      /\ \A o \in Statuses : [job |-> j, status |-> o] \in [job : 0 .. NJobs, status : Statuses]
      /\ "terminated" \in Statuses
  BY <1>3 DEF NoResult, Statuses
<1>5. \A r \in [job : 0 .. NJobs, status : Statuses] :
        [res EXCEPT ![d] = r] \in [Dirs -> [job : 0 .. NJobs, status : Statuses]]
  BY <1>1
<1>6. CASE StartJob(j)
  <2>1. job[j].state = "pending" /\ sub' = sub
    BY <1>6 DEF StartJob
  <2>2. PICK x \in {"ended", "running"} : job' = [job EXCEPT ![j].state = x]
    BY <1>6 DEF StartJob
  <2>3. res' = res \/ res' = [res EXCEPT ![d] = NoResult]
    BY <1>6 DEF StartJob
  <2>4. job' = [job EXCEPT ![j] = [state |-> x, dir |-> d, shown |-> job[j].shown]]
    BY <1>2, <2>2
  <2>5. res' \in [Dirs -> [job : 0 .. NJobs, status : Statuses]]
    BY <1>1, <1>4, <1>5, <2>3
  <2>6. ~job[j].shown /\ d \in Dirs /\ x \in JobStates
    BY <1>1, <2>1 DEF Active, JobStates
  <2> QED
    BY <1>1, <2>1, <2>4, <2>5, <2>6, JobChanged
<1>7. CASE PreemptJob(j)
  <2>1. job[j].state = "running" /\ sub' = sub /\ job' = [job EXCEPT ![j].state = "pending"]
    BY <1>7 DEF PreemptJob
  <2>2. res' = res \/ res' = [res EXCEPT ![d] = [job |-> j, status |-> "terminated"]]
    BY <1>7 DEF PreemptJob
  <2>4. job' = [job EXCEPT ![j] = [state |-> "pending", dir |-> d, shown |-> job[j].shown]]
    BY <1>2, <2>1
  <2>5. res' \in [Dirs -> [job : 0 .. NJobs, status : Statuses]]
    BY <1>1, <1>4, <1>5, <2>2
  <2>6. ~job[j].shown /\ d \in Dirs /\ "pending" \in JobStates
    BY <1>1, <2>1 DEF Active, JobStates
  <2> QED
    BY <1>1, <2>1, <2>4, <2>5, <2>6, JobChanged
<1>8. CASE EndJob(j)
  <2>1. job[j].state = "running" /\ sub' = sub
    BY <1>8 DEF EndJob
  <2>2. PICK o \in Outcomes(d), now \in BOOLEAN :
          /\ job' = [job EXCEPT ![j].state = "ended", ![j].shown = now]
          /\ res' = IF o = "none" THEN res ELSE [res EXCEPT ![d] = [job |-> j, status |-> o]]
    BY <1>8 DEF EndJob
  <2>4. job' = [job EXCEPT ![j] = [state |-> "ended", dir |-> d, shown |-> now]]
    BY <1>2, <2>2
  <2>5. res' \in [Dirs -> [job : 0 .. NJobs, status : Statuses]]
    BY <1>1, <1>4, <1>5, <2>2, OutcomeTypes
  <2>6. "ended" \in JobStates /\ "ended" \notin Active
    BY DEF Active, JobStates
  <2> QED
    BY <2>1, <2>4, <2>5, <2>6, JobChanged
<1>9. CASE ShowResult(j)
  <2>1. job[j].state \in {"ended", "old"} /\ UNCHANGED <<res, sub>>
    BY <1>9 DEF ShowResult, disk
  <2>2. job' = [job EXCEPT ![j] = [state |-> job[j].state, dir |-> d, shown |-> TRUE]]
    BY <1>2, <1>9 DEF ShowResult
  <2>3. job[j].state \in JobStates /\ job[j].state \notin Active
    BY <2>1 DEF Active, JobStates
  <2> QED
    BY <1>1, <2>1, <2>2, <2>3, JobChanged
<1>10. CASE GraceOver(j)
  <2>1. UNCHANGED <<res, sub>>
    BY <1>10 DEF GraceOver, disk
  <2>2. job' = [job EXCEPT ![j] = [state |-> "old", dir |-> d, shown |-> job[j].shown]]
    BY <1>2, <1>10 DEF GraceOver
  <2>3. "old" \in JobStates /\ "old" \notin Active
    BY DEF Active, JobStates
  <2> QED
    BY <1>1, <2>1, <2>2, <2>3, JobChanged
<1> QED
  BY <1>6, <1>7, <1>8, <1>9, <1>10 DEF JobStep

\* Steps that leave the store and the effects of the handler alone.
Aside ==
  /\ UNCHANGED <<study, trial, promo, todo, sub, crashes, torn>> /\ earlier' \in {earlier} \cup SUBSET Legacy
  /\ \/ UNCHANGED <<job, res>> /\ \/ at' = at
                                  \/ at = "down" /\ at' = "repair"
                                  \/ at' \in {"rescan", "trials", "finished"} /\ (Here("list") \/ Here("end"))
     \/ at' = at /\ \E j \in Jobs : JobStep(j)

\* Steps of the cluster and of the driver's loop that touch neither store nor effects.
LEMMA StepAside ==
  ASSUME StoreOK,
         \/ Start \/ ListJobs \/ Finish \/ StopFile \/ EarlierEnds \/ UNCHANGED vars
         \/ \E j \in Jobs : JobStep(j)
  PROVE  Aside
<1>1. CASE Start \/ ListJobs \/ Finish \/ StopFile \/ UNCHANGED vars
  BY <1>1 DEF Start, ListJobs, Finish, StopFile, Aside, Goto, store, disk, env, vars
<1>2. CASE EarlierEnds
  BY <1>2 DEF EarlierEnds, Aside, disk, env, StoreOK
<1>3. ASSUME NEW j \in Jobs, JobStep(j)
      PROVE  Aside
  BY <1>3 DEF JobStep, StartJob, PreemptJob, EndJob, ShowResult, GraceOver, Aside, store, disk, env
<1> QED
  BY <1>1, <1>2, <1>3

\* Every step, with the handlers named.
LEMMA StepCases ==
  ASSUME StoreOK, [Next]_vars
  PROVE  \/ Aside \/ Perform \/ Crash \/ LoopError
         \/ repair_imports \/ import_trials \/ reconcile
         \/ poll_trials \/ drain \/ fill_new \/ new_trial \/ maybe_promote
         \/ poll_promos \/ fill_full \/ fill_signoff \/ promote_submit
BY StepAside DEF Next, Driver, Cluster, JobStep

\* Filling new trials and promoting keep the types.
LEMMA FillTypes ==
  ASSUME OptimizerTypeOK, fill_new \/ maybe_promote
  PROVE  OptimizerTypeOK'
<1> USE DEF OptimizerTypeOK
<1>1. CASE fill_new
  <2>1. NewToSubmit \subseteq Nat /\ NewToSubmit # {} /\ NewToSubmit \subseteq Trials
    BY <1>1 DEF NewToSubmit, StoreOK, fill_new
  <2>2. Min(NewToSubmit) \in Trials
    BY <2>1, MinIsLeast
  <2>3. 1 \in 0 .. MAX_ATTEMPTS
    BY OptimizerAssumption
  <2> QED
    BY <1>1, <2>2, <2>3, SubmitTrialTypes DEF fill_new, disk
<1>2. CASE maybe_promote
  <2>1. PICK n \in Trials : todo' = <<EmitPromo(n)>>
    BY <1>2 DEF maybe_promote
  <2>2. UNCHANGED <<store, job, res, sub, env>> /\ Len(promo) < MaxPromos
    BY <1>2 DEF maybe_promote
  <2>3. n \in Nat
    BY DEF StoreOK
  <2>4. StoreOK' /\ Trials' = Trials /\ promo' = promo
    BY <2>2, StoreSame DEF store
  <2>5. EmitPromo(n) \in Effects /\ EmitPromo(n).op = "promo" /\ EmitPromo(n).n = n
    BY <2>3, EmitPromoIs
  <2>6. TodoOK'
    BY <2>1, <2>2, <2>4, <2>5, TodoOne
  <2> QED
    BY <2>2, <2>4, <2>6, ClusterSame DEF env
<1> QED
  BY <1>1, <1>2

\* Every step keeps the types.
LEMMA TypeStep ==
  ASSUME OptimizerTypeOK, StagesStand, [Next]_vars
  PROVE  OptimizerTypeOK'
<1> USE DEF OptimizerTypeOK
<1>1. CASE Aside
  <2>1. StoreOK' /\ TodoOK'
    BY <1>1, TodoSame DEF Aside, StoreOK, Trials, Promos
  <2>2. ClusterOK'
    BY <1>1, JobStepTypes, ClusterSame DEF Aside
  <2> QED
    BY <1>1, <2>1, <2>2 DEF Aside
<1>2. CASE Crash \/ LoopError
  <2>1. UNCHANGED <<store, job, disk>> /\ todo' = << >> /\ crashes' = crashes + 1
        /\ (torn' = torn \/ torn' = (torn \/ at \in {"rescanned", "reimport"}))
    BY <1>2 DEF Crash, LoopError
  <2>2. crashes' \in Nat
    <3>1. crashes' = crashes + 1 /\ crashes \in Nat
      BY <1>2 DEF Crash, LoopError
    <3> QED
      BY <3>1
  <2>3. torn' \in BOOLEAN
    <3>1. CASE at \in {"rescanned", "reimport"}
      BY <2>1, <3>1
    <3>2. CASE at \notin {"rescanned", "reimport"}
      BY <2>1, <3>2
    <3> QED
      BY <3>1, <3>2
  <2> QED
    BY <2>1, <2>2, <2>3, StoreSame, ClusterSame, TodoEmpty DEF disk
<1> QED
  BY <1>1, <1>2, StepCases, PerformTypes, AskTypes, ImportTypes, EndsTypes, StageTypes, FillTypes

\* A record after its submission as job j.
AsSubmitted(r, j, a) ==
  [r EXCEPT !.state = "submitted", !.job = j, !.attempt = a, !.submits = @ \cup {j}]

\* Handlers about trials leave no event of a stage, and only a promotion made
\* leads to its first submission.
LEMMA SubmittedTrialOnly ==
  ASSUME NEW n \in Trials, NEW a, NEW l, NEW done, NEW failed, todo = << >>,
         submit_trial(n, a, l, done, failed)
  PROVE  /\ at' \in {done, failed}
         /\ \/ todo' = << >>
            \/ \E j \in Unused :
                 /\ at' = done
                 /\ todo' = <<Emit(n, AsSubmitted(trial[n], j, a))>>
<1> DEFINE e(j) == Emit(n, AsSubmitted(trial[n], j, a))
           events == [j \in Jobs |-> <<e(j)>>]
           d == FlowDir("fast", trial[n].key)
<1>1. Submit(d, events, l, done, failed)
  BY DEF submit_trial, AsSubmitted
<1>2. \A j \in Unused : events[j] = <<e(j)>>
  BY DEF Unused
<1> HIDE DEF events, d, e
<1>3. /\ at' \in {done, failed}
      /\ todo' = << >> \/ \E j \in Unused : at' = done /\ todo' = events[j]
  BY <1>1, Submitted
<1>4. /\ at' \in {done, failed}
      /\ todo' = << >> \/ \E j \in Unused : at' = done /\ todo' = <<e(j)>>
  BY <1>2, <1>3
<1> QED
  BY <1>4 DEF e

\* Submitting a stage leaves its event or nothing, and goes on or stops filling.
LEMMA SubmittedStageOnly ==
  ASSUME NEW p \in Promos, NEW s \in STAGES, NEW a, NEW d, NEW l, NEW done, NEW failed, todo = << >>,
         submit_stage(p, s, a, d, l, done, failed)
  PROVE  /\ at' \in {done, failed}
         /\ job' = job \/ \E j \in Unused : job' = [job EXCEPT ![j] = Queued(d)]
         /\ \/ todo' = << >>
            \/ \E j \in Unused :
                 /\ job' = [job EXCEPT ![j] = Queued(d)]
                 /\ todo' = <<EmitStage(p, s, AsSubmitted(promo[p].st[s], j, a))>>
<1> DEFINE e(j) == EmitStage(p, s, AsSubmitted(promo[p].st[s], j, a))
           events == [j \in Jobs |-> <<e(j)>>]
<1>1. Submit(d, events, l, done, failed)
  BY DEF submit_stage, AsSubmitted
<1>2. \A j \in Unused : events[j] = <<e(j)>>
  BY DEF Unused
<1> HIDE DEF events, e
<1>3. /\ at' \in {done, failed}
      /\ job' = job \/ \E j \in Unused : job' = [job EXCEPT ![j] = Queued(d)]
      /\ todo' = << >> \/ \E j \in Unused : job' = [job EXCEPT ![j] = Queued(d)] /\ todo' = events[j]
  BY <1>1, Submitted
<1>4. /\ at' \in {done, failed}
      /\ job' = job \/ \E j \in Unused : job' = [job EXCEPT ![j] = Queued(d)]
      /\ todo' = << >> \/ \E j \in Unused : job' = [job EXCEPT ![j] = Queued(d)] /\ todo' = <<e(j)>>
  BY <1>2, <1>3
<1> QED
  BY <1>4 DEF e

\* The operation of each effect, and what it names.
LEMMA Ops ==
  /\ \A n, t : Emit(n, t).op = "trial" /\ Emit(n, t).n = n /\ Emit(n, t).rec = t
  /\ \A n, v : Tell(n, v).op = "tell" /\ Tell(n, v).n = n /\ Tell(n, v).value = v
  /\ \A d : RemoveSnap(d).op = "rmtree"
  /\ \A n : EmitPromo(n).op = "promo" /\ EmitPromo(n).n = n
BY DEF Emit, Tell, RemoveSnap, EmitPromo

\* The effects of the ends of trials, one by one.
LEMMA EndsOps ==
  ASSUME NEW k, NEW ns, NEW ev, EndsOf(todo', k, ns, ev), NEW i \in DOMAIN todo'
  PROVE  /\ todo'[i].op \in {"trial", "tell", "rmtree"}
         /\ \/ i = 2 * k + 1 /\ todo'[i].op = "rmtree"
            \/ \E m \in 1 .. k :
                 \/ /\ i = 2 * m - 1 /\ todo'[i].op = "trial" /\ todo'[i].n = ns[m]
                    /\ todo'[i].rec = Done(trial[ns[m]], ev)
                 \/ i = 2 * m /\ todo'[i].op = "tell" /\ todo'[i].n = ns[m] /\ todo'[i].value = ev.value
<1>1. i \in 1 .. Len(todo')
  BY DEF EndsOf
<1>2. CASE i = 2 * k + 1 /\ todo'[i].op = "rmtree"
  BY <1>2
<1>3. ASSUME NEW m \in 1 .. k, i = 2 * m - 1 \/ i = 2 * m
      PROVE  \/ /\ i = 2 * m - 1 /\ todo'[i].op = "trial" /\ todo'[i].n = ns[m]
                /\ todo'[i].rec = Done(trial[ns[m]], ev)
             \/ i = 2 * m /\ todo'[i].op = "tell" /\ todo'[i].n = ns[m] /\ todo'[i].value = ev.value
  BY <1>3 DEF EndsOf
<1>4. \/ i = 2 * k + 1 /\ todo'[i].op = "rmtree"
      \/ \E m \in 1 .. k : i = 2 * m - 1 \/ i = 2 * m
  BY <1>1 DEF EndsOf
<1> QED
  BY <1>2, <1>3, <1>4

\* A handler that leaves no event of a stage disturbs none.
LEMMA NoStageEvents ==
  ASSUME todo' \in Seq(Effects), \A i \in DOMAIN todo' : todo'[i].op # "stage", at' # "promoted"
  PROVE  StagesStand'
BY DEF StagesStand, StageEvents

\* The event of a stage that is to perform, with at most a deletion after it.
StageTodo(p, s) ==
  \E e, x : /\ e.op = "stage" /\ e.n = p /\ e.stage = s /\ x.op = "rmtree"
            /\ todo' = <<e>> \/ todo' = <<e, x>>

\* The handlers of stages leave one event, of a stage that is not done.
LEMMA StageHandlers ==
  ASSUME OptimizerTypeOK, StagesStand,
         poll_promos \/ fill_full \/ fill_signoff \/ promote_submit
  PROVE  \E p \in Promos, s \in STAGES :
           promo[p].st[s].state # "done" /\ at' # "promoted" /\ (todo' = << >> \/ StageTodo(p, s))
<1> USE DEF OptimizerTypeOK
<1>1. UNCHANGED store /\ promo' = promo /\ todo = << >> /\ Promos' = Promos
  BY DEF poll_promos, fill_full, fill_signoff, promote_submit, Here, store, Promos
<1>2. "full" \in STAGES /\ SIGNOFF \subseteq STAGES
  BY DEF STAGES
<1>4. ASSUME NEW p \in Promos, NEW s \in STAGES, NEW a, NEW d, NEW l, NEW done, NEW failed,
             submit_stage(p, s, a, d, l, done, failed)
      PROVE  /\ at' \in {done, failed}
             /\ todo' = << >> \/ StageTodo(p, s)
  <2> DEFINE rec(j) == AsSubmitted(promo[p].st[s], j, a)
  <2>1. /\ at' \in {done, failed}
        /\ \/ todo' = << >>
           \/ \E j \in Unused :
                 /\ job' = [job EXCEPT ![j] = Queued(d)]
                 /\ todo' = <<EmitStage(p, s, rec(j))>>
    BY <1>1, <1>4, SubmittedStageOnly
  <2>2. p \in Nat
    BY TrialDir
  <2> HIDE DEF rec
  <2>3. \A j \in Unused : EmitStage(p, s, rec(j)).op = "stage" /\ EmitStage(p, s, rec(j)).n = p
                          /\ EmitStage(p, s, rec(j)).stage = s
    BY <2>2, EmitStageIs
  <2>4. RemoveSnap(d).op = "rmtree"
    BY RemoveSnapIs
  <2> QED
    BY <2>1, <2>3, <2>4 DEF StageTodo
<1>5. ASSUME NEW p \in Promos, NEW s \in STAGES, NEW r,
             \/ todo' = <<StageDone(p, s, r)>>
             \/ todo' = <<StageDone(p, s, r), RemoveSnap(DirOf(p))>>
      PROVE  StageTodo(p, s)
  <2> DEFINE rec == [promo[p].st[s] EXCEPT !.state = "done", !.result = r]
  <2>1. p \in Nat
    BY TrialDir
  <2>2. StageDone(p, s, r) = EmitStage(p, s, rec)
    BY DEF StageDone
  <2> HIDE DEF rec
  <2>3. StageDone(p, s, r).op = "stage" /\ StageDone(p, s, r).n = p /\ StageDone(p, s, r).stage = s
    BY <2>1, <2>2, EmitStageIs
  <2>4. RemoveSnap(DirOf(p)).op = "rmtree"
    BY RemoveSnapIs
  <2> QED
    BY <1>5, <2>3, <2>4 DEF StageTodo
<1>6. CASE poll_promos
  <2>1. PICK p \in Promos, s \in STAGES : promo[p].st[s].state = "submitted" /\ PolledStage(p, s)
    BY <1>6, StagePolled
  <2>2. /\ at' # "promoted"
        /\ todo' = << >> \/ StageTodo(p, s)
    BY <1>4, <1>5, <2>1 DEF PolledStage
  <2> QED
    BY <2>1, <2>2
<1>7. CASE fill_full
  <2>1. PICK p \in Promos : /\ promo[p].st["full"].state = "none"
                            /\ submit_stage(p, "full", 1, DirOf(p), loop, "full", "end")
    BY <1>7, StagesFilled
  <2> QED
    BY <1>2, <1>4, <2>1
<1>8. CASE fill_signoff
  <2>1. PICK p \in Promos, s \in SIGNOFF : SignoffFilled(p, s)
    BY <1>8, StagesFilled
  <2>2. promo[p].st[s].state = "none" /\ s \in STAGES
    BY <1>2, <2>1 DEF SignoffFilled
  <2>3. /\ at' # "promoted"
        /\ todo' = << >> \/ StageTodo(p, s)
    BY <1>1, <1>4, <1>5, <2>1, <2>2 DEF SignoffFilled
  <2> QED
    BY <2>2, <2>3
<1>9. CASE promote_submit
  <2>1. Len(promo) \in Promos /\ promo[Len(promo)].st["full"].state = "none"
    BY <1>9 DEF promote_submit, StagesStand, StoreOK, Promos
  <2>2. submit_stage(Len(promo), "full", 1, DirOf(Len(promo)), loop, "new", "new")
    BY <1>9 DEF promote_submit
  <2> QED
    BY <1>2, <1>4, <2>1, <2>2
<1> QED
  BY <1>6, <1>7, <1>8, <1>9

\* ... and so keep that a done stage stands.
LEMMA StageStep ==
  ASSUME OptimizerTypeOK, OptimizerTypeOK', StagesStand,
         poll_promos \/ fill_full \/ fill_signoff \/ promote_submit
  PROVE  StagesStand'
<1>1. UNCHANGED promo
  BY DEF poll_promos, fill_full, fill_signoff, promote_submit, store
<1>2. PICK p \in Promos, s \in STAGES :
        promo[p].st[s].state # "done" /\ at' # "promoted" /\ (todo' = << >> \/ StageTodo(p, s))
  BY StageHandlers
<1>3. \A i \in StageEvents' : i = 1
  BY DEF StageEvents, TodoOK, OptimizerTypeOK
<1>4. \A i \in StageEvents' : todo'[i].n = p /\ todo'[i].stage = s
  BY <1>2, <1>3 DEF StageEvents, StageTodo
<1> QED
  BY <1>1, <1>2, <1>4 DEF StagesStand

\* Handlers of promotions leave no event of a trial and nothing to tell.
LEMMA PromotionHandlers ==
  ASSUME OptimizerTypeOK, StagesStand,
         poll_promos \/ fill_full \/ fill_signoff \/ promote_submit \/ maybe_promote
  PROVE  /\ UNCHANGED <<study, trial, promo, earlier, torn, crashes>>
         /\ \A i \in DOMAIN todo' : todo'[i].op \notin {"trial", "tell"}
         /\ at' \in {"promos", "full", "signoff", "end", "new", "promoted"}
<1>1. CASE maybe_promote
  BY <1>1, Ops DEF maybe_promote, store, env, Goto
<1>2. CASE poll_promos \/ fill_full \/ fill_signoff \/ promote_submit
  <2>1. UNCHANGED <<study, trial, promo, earlier>>
    BY <1>2 DEF poll_promos, fill_full, fill_signoff, promote_submit, store
  <2>2. PICK p \in Promos, s \in STAGES : todo' = << >> \/ StageTodo(p, s)
    BY <1>2, StageHandlers
  <2>3. \A i \in DOMAIN todo' : todo'[i].op \notin {"trial", "tell"}
    BY <2>2 DEF StageTodo
  <2>4. ASSUME NEW q, NEW r, NEW a, NEW d, NEW l, NEW done, NEW failed, submit_stage(q, r, a, d, l, done, failed)
        PROVE  at' \in {done, failed} /\ UNCHANGED <<torn, crashes>>
    BY <2>4, Submitted DEF submit_stage
  <2>5. UNCHANGED <<torn, crashes>> /\ at' \in {"promos", "full", "signoff", "end", "new"}
    <3>1. CASE poll_promos
      <4>1. PICK q \in Promos, r \in STAGES : PolledStage(q, r)
        BY <3>1, StagePolled DEF OptimizerTypeOK
      <4> QED
        BY <2>4, <4>1 DEF PolledStage, env
    <3>2. CASE fill_full \/ promote_submit
      BY <2>4, <3>2 DEF fill_full, promote_submit
    <3>3. CASE fill_signoff
      <4>1. PICK q \in Promos, r \in SIGNOFF : SignoffFilled(q, r)
        BY <3>3, StagesFilled DEF OptimizerTypeOK
      <4> QED
        BY <2>4, <4>1 DEF SignoffFilled, env
    <3> QED
      BY <1>2, <3>1, <3>2, <3>3
  <2> QED
    BY <2>1, <2>3, <2>5
<1> QED
  BY <1>1, <1>2

\* The handlers of trials and of imports leave no event of a stage.
LEMMA OtherHandlers ==
  ASSUME OptimizerTypeOK, OptimizerTypeOK',
         \/ repair_imports \/ import_trials \/ reconcile
         \/ poll_trials \/ drain \/ fill_new \/ new_trial
  PROVE  at' # "promoted" /\ \A i \in DOMAIN todo' : todo'[i].op # "stage"
<1> USE DEF OptimizerTypeOK
<1>1. CASE repair_imports \/ reconcile \/ import_trials
  <2>1. at' # "promoted"
    BY <1>1 DEF repair_imports, reconcile, import_trials, Goto
  <2>2. \A i \in DOMAIN todo' : todo'[i].op # "stage"
    <3>1. CASE repair_imports
      BY <3>1, Repaired, Ops
    <3>2. CASE reconcile
      BY <3>2, Reconciled, Ops
    <3>3. CASE import_trials
      <4>1. PICK r : todo' = <<Emit(Len(study) + 1, r)>>
        BY <3>3, Imported
      <4> DEFINE a == Emit(Len(study) + 1, r)
      <4>2. todo' = <<a>> /\ a.op = "trial"
        BY <4>1, Ops
      <4> HIDE DEF a
      <4> QED
        BY <4>2
    <3> QED
      BY <1>1, <3>1, <3>2, <3>3
  <2> QED
    BY <2>1, <2>2
<1>2. CASE poll_trials \/ drain
  <2>1. todo = << >> /\ InFlight \subseteq Trials
    BY <1>2 DEF poll_trials, drain, Here, InFlight
  <2>2. ASSUME NEW k, NEW ns, NEW ev, EndsOf(todo', k, ns, ev)
        PROVE  \A i \in DOMAIN todo' : todo'[i].op # "stage"
    BY <2>2, EndsOps
  <2>3. ASSUME NEW n \in Trials, NEW a, NEW l, submit_trial(n, a, l, "trials", "trials")
        PROVE  at' # "promoted" /\ \A i \in DOMAIN todo' : todo'[i].op # "stage"
    BY <2>1, <2>3, SubmittedTrialOnly, Ops
  <2>4. at' # "promoted" /\ \A i \in DOMAIN todo' : todo'[i].op # "stage"
    <3>1. CASE poll_trials
      BY <2>1, <2>2, <2>3, <3>1, PolledTrial DEF PolledEnds
    <3>2. CASE drain
      BY <2>2, <3>2, Drained
    <3> QED
      BY <1>2, <3>1, <3>2
  <2> QED
    BY <2>4
<1>3. CASE fill_new
  <2>1. todo = << >> /\ NewToSubmit \subseteq Nat /\ NewToSubmit # {} /\ NewToSubmit \subseteq Trials
    BY <1>3 DEF NewToSubmit, StoreOK, fill_new, Here
  <2>2. Min(NewToSubmit) \in Trials
    BY <2>1, MinIsLeast
  <2>3. PICK n \in Trials : submit_trial(n, 1, loop, "new", "end")
    BY <1>3, <2>2 DEF fill_new
  <2>4. at' # "promoted" /\ \A i \in DOMAIN todo' : todo'[i].op # "stage"
    BY <2>1, <2>3, SubmittedTrialOnly, Ops
  <2> QED
    BY <2>4
<1>4. CASE new_trial
  <2>1. PICK k \in Keys : Asked(k)
    BY <1>4, NewAsked
  <2>2. at' # "promoted" /\ \A i \in DOMAIN todo' : todo'[i].op # "stage"
    <3> DEFINE n == Len(study) + 1
               a == Emit(n, NewRec(k))
    <3>1. CASE \E o \in Original(k) :
                 /\ at' = "ask"
                 /\ todo' = IF trial[o].state = "done"
                    THEN <<a, Emit(n, DupRec(k, o)), Emit(n, Done(DupRec(k, o), Result(trial[o]))),
                           Tell(n, trial[o].value)>>
                    ELSE <<a, Emit(n, DupRec(k, o))>>
      <4>1. PICK b, c, e : /\ todo' = <<a, b, c, e>> \/ todo' = <<a, b>>
                           /\ b.op = "trial" /\ c.op = "trial" /\ e.op = "tell"
        <5>1. PICK o \in Original(k) :
                   todo' = IF trial[o].state = "done"
                    THEN <<a, Emit(n, DupRec(k, o)), Emit(n, Done(DupRec(k, o), Result(trial[o]))),
                           Tell(n, trial[o].value)>>
                    ELSE <<a, Emit(n, DupRec(k, o))>>
          BY <3>1
        <5> DEFINE b == Emit(n, DupRec(k, o))
                   c == Emit(n, Done(DupRec(k, o), Result(trial[o])))
                   e == Tell(n, trial[o].value)
        <5>2. b.op = "trial" /\ c.op = "trial" /\ e.op = "tell"
          BY Ops
        <5>3. todo' = <<a, b, c, e>> \/ todo' = <<a, b>>
          BY <5>1
        <5> HIDE DEF b, c, e
        <5> QED
          BY <5>2, <5>3
      <4>2. a.op = "trial"
        BY Ops
      <4> HIDE DEF a
      <4> QED
        BY <3>1, <4>1, <4>2
    <3>2. CASE /\ at' = "ask"
               /\ todo' = <<Emit(n, UnbuiltRec(k)), Emit(n, RefusedRec(k)),
                            Tell(n, FAIL_VALUE)>>
      <4> DEFINE b == Emit(n, UnbuiltRec(k))
                 c == Emit(n, RefusedRec(k))
                 e == Tell(n, FAIL_VALUE)
      <4>1. todo' = <<b, c, e>> /\ b.op = "trial" /\ c.op = "trial" /\ e.op = "tell"
        BY <3>2, Ops
      <4>2. at' # "promoted"
        BY <3>2
      <4> HIDE DEF b, c, e
      <4> QED
        BY <4>1, <4>2
    <3>3. CASE at' = "new" /\ todo' = <<a>>
      <4>1. a.op = "trial"
        BY Ops
      <4> HIDE DEF a
      <4> QED
        BY <3>3, <4>1
    <3> QED
      BY <2>1, <3>1, <3>2, <3>3 DEF Asked
  <2> QED
    BY <2>2
<1> QED
  BY <1>1, <1>2, <1>3, <1>4

\* Every step keeps it.
LEMMA StandStep ==
  ASSUME OptimizerTypeOK, OptimizerTypeOK', StagesStand, [Next]_vars
  PROVE  StagesStand'
<1> USE DEF OptimizerTypeOK
<1>1. CASE Aside
  <2>1. at' = at \/ at' # "promoted"
    BY <1>1 DEF Aside
  <2> QED
    BY <1>1, <2>1 DEF Aside, StagesStand, StageEvents, Promos
<1>2. CASE Perform
  <2> DEFINE e == Head(todo)
  <2>1. /\ todo # << >> /\ at' = at /\ e = todo[1] /\ 1 \in DOMAIN todo
        /\ StageEvents' = {} /\ Len(todo') = Len(todo) - 1
    BY <1>2 DEF Perform, TodoOK, StageEvents
  <2>2. at = "promoted" => todo' = << >> /\ e.op = "promo"
    BY <2>1 DEF StagesStand, TodoOK
  <2>3. e.op = "promo" => promo' = Append(promo, NewPromo(e.n))
    BY <1>2 DEF Perform
  <2>4. NewPromo(e.n).st["full"].state = "none"
    BY DEF NewPromo, STAGES, NoStage
  <2> HIDE DEF e
  <2>5. e.op = "promo" => Promos' # {} /\ promo'[Len(promo')].st["full"].state = "none"
    BY <2>3, <2>4 DEF StoreOK, Promos
  <2> QED
    BY <2>1, <2>2, <2>5 DEF StagesStand
<1>3. CASE Crash \/ LoopError
  <2>1. todo' = << >> /\ at' # "promoted"
    BY <1>3 DEF Crash, LoopError, Goto
  <2> QED
    BY <2>1, TodoEmpty DEF StagesStand
<1>4. CASE \/ repair_imports \/ import_trials \/ reconcile
           \/ poll_trials \/ drain \/ fill_new \/ new_trial
  BY <1>4, OtherHandlers, NoStageEvents DEF TodoOK
<1>8. CASE maybe_promote
  BY <1>8 DEF maybe_promote, StagesStand, StageEvents, EmitPromo, Goto
<1>9. CASE poll_promos \/ fill_full \/ fill_signoff \/ promote_submit
  BY <1>9, StageStep
<1> QED
  BY <1>1, <1>2, <1>3, <1>4, <1>8, <1>9, StepCases

\* The first state is typed.
LEMMA TypesInit ==
  ASSUME Init
  PROVE  OptimizerTypeOK /\ StagesStand
<1>1. StoreOK
  BY OptimizerAssumption DEF Init, StoreOK, Trials, Promos
<1>2. ClusterOK
  <2>1. 0 \in 0 .. NJobs /\ NoResult \in [job : 0 .. NJobs, status : Statuses]
    BY OptimizerAssumption DEF NoResult, Statuses
  <2>2. res \in [Dirs -> [job : 0 .. NJobs, status : Statuses]] /\ sub \in [1 .. MaxPromos -> 0 .. NJobs]
    BY <2>1 DEF Init
  <2>3. job = [j \in Jobs |-> [state |-> "unused", dir |-> << >>, shown |-> FALSE]]
    BY DEF Init
  <2> QED
    BY <2>2, <2>3 DEF ClusterOK, JobStates, Active
<1>3. TodoOK /\ StageEvents = {} /\ at = "down"
  BY DEF Init, TodoOK, StageEvents
<1>4. crashes \in Nat /\ torn \in BOOLEAN
  BY DEF Init
<1> QED
  BY <1>1, <1>2, <1>3, <1>4 DEF OptimizerTypeOK, StagesStand

TypeInv == OptimizerTypeOK /\ StagesStand

\* Types, and records of done stages, are kept by every step.
LEMMA TypeInvStep ==
  ASSUME TypeInv, [Next]_vars
  PROVE  TypeInv'
BY TypeStep, StandStep DEF TypeInv

\* Type correctness of the driver and the cluster: what a handler still has to
\* do is well formed, and concerns trials and promotions that exist.
THEOREM OptimizerTypes == Spec => []TypeInv
<1>1. Init => TypeInv
  BY TypesInit DEF TypeInv
<1>2. TypeInv /\ [Next]_vars => TypeInv'
  BY TypeInvStep
<1> QED
  BY <1>1, <1>2, PTL DEF Spec

-----------------------------------------------------------------------------
(***************************************************************************)
(* Verdicts.                                                               *)
(***************************************************************************)
\* A stage that was not done cannot revise a verdict that was given.
LEMMA VerdictStands ==
  ASSUME NEW st, NEW s \in STAGES, NEW r, st \in [STAGES -> StageRec], st[s].state # "done",
         promotion_verdict(st) \in {"PASS", "FAIL", "INCOMPLETE"}
  PROVE  promotion_verdict([st EXCEPT ![s] = r]) = promotion_verdict(st)
<1> DEFINE done(x) == {i \in SIGNOFF : x[i].state = "done"}
           notrun(x) == {i \in done(x) : i = "gl" /\ x[i].result = "not_run"}
           failed(x) == {i \in done(x) \ notrun(x) : ~StagePasses(i, x[i].result)}
           new == [st EXCEPT ![s] = r]
<1>1. st["full"].state = "done" /\ s # "full" /\ s \in SIGNOFF
  BY DEF promotion_verdict, STAGES
<1>2. new["full"] = st["full"] /\ \A i \in SIGNOFF \ {s} : new[i] = st[i]
  BY <1>1 DEF STAGES
<1> HIDE DEF new
<1>3. CASE ~StagePasses("full", st["full"].result)
  BY <1>1, <1>2, <1>3 DEF promotion_verdict
<1>4. CASE StagePasses("full", st["full"].result)
  <2>1. s \notin done(st) /\ done(st) # SIGNOFF
    BY <1>1
  <2>2. promotion_verdict(st) = IF failed(st) # {} THEN "FAIL" ELSE "in progress"
    BY <1>1, <1>4, <2>1 DEF promotion_verdict
  <2>3. failed(st) # {}
    BY <2>2
  <2>4. failed(st) \subseteq failed(new)
    BY <1>2, <2>1
  <2>5. promotion_verdict(new) = "FAIL"
    BY <1>1, <1>2, <1>4, <2>3, <2>4 DEF promotion_verdict
  <2> QED
    BY <2>2, <2>3, <2>5 DEF new
<1> QED
  BY <1>3, <1>4 DEF new

\* A verdict that was given stands.
THEOREM VerdictsAreFinal == Spec => VerdictFinal
<1> DEFINE Final1 == \A p \in Promos : LET v == promotion_verdict(promo[p].st) IN
                       v \in {"PASS", "FAIL", "INCOMPLETE"} => promotion_verdict(promo'[p].st) = v
<1>1. ASSUME TypeInv, [Next]_vars
      PROVE  [Final1]_vars
  <2>1. SUFFICES ASSUME NEW p \in Promos, promotion_verdict(promo[p].st) \in {"PASS", "FAIL", "INCOMPLETE"}
                 PROVE  promotion_verdict(promo'[p].st) = promotion_verdict(promo[p].st)
    OBVIOUS
  <2>2. StoreOK /\ promo \in Seq(PromoRec) /\ promo[p] \in PromoRec
    BY <1>1, TrialDir DEF TypeInv, OptimizerTypeOK, StoreOK
  <2>3. CASE Perform
    <3> DEFINE e == Head(todo)
    <3>1. e = todo[1] /\ 1 \in DOMAIN todo
      BY <1>1, <2>3 DEF Perform, TypeInv, OptimizerTypeOK, TodoOK
    <3>2. CASE e.op = "promo"
      <4>1. promo' = Append(promo, NewPromo(e.n))
        BY <2>3, <3>2 DEF Perform
      <4>2. promo'[p] = promo[p]
        BY <2>2, <4>1 DEF Promos
      <4> QED
        BY <4>2
    <3>3. CASE e.op = "stage"
      <4>1. promo' = [promo EXCEPT ![e.n].st[e.stage] = e.rec]
        BY <2>3, <3>3 DEF Perform
      <4>2. e \in StageEffects /\ e.n \in Promos /\ promo[e.n].st[e.stage].state # "done"
        BY <1>1, <3>1, <3>3 DEF TypeInv, OptimizerTypeOK, TodoOK, StagesStand, StageEvents,
                                Effects, TrialEffects, StageEffects, PromoEffects, TellEffects, RmEffects
      <4> HIDE DEF e
      <4>3. CASE e.n = p
        <5>1. promo[p].st \in [STAGES -> StageRec] /\ e.stage \in STAGES
          BY <2>2, <4>2 DEF PromoRec, StageEffects
        <5>2. promo'[p].st = [promo[p].st EXCEPT ![e.stage] = e.rec]
          BY <2>2, <4>1, <4>3 DEF Promos, PromoRec
        <5> QED
          BY <2>1, <4>2, <4>3, <5>1, <5>2, VerdictStands
      <4>4. CASE e.n # p
        <5>1. promo'[p] = promo[p]
          BY <2>2, <4>1, <4>2, <4>4 DEF Promos
        <5> QED
          BY <5>1
      <4> QED
        BY <4>3, <4>4
    <3>4. CASE e.op \notin {"promo", "stage"}
      BY <2>3, <3>4 DEF Perform
    <3> QED
      BY <3>2, <3>3, <3>4
  <2>4. CASE ~Perform
    <3>1. promo' = promo
      BY <1>1, <2>2, <2>4, StepCases DEF Aside, Crash, LoopError, repair_imports, import_trials, reconcile,
         poll_trials, drain, fill_new, new_trial, maybe_promote, poll_promos, fill_full, fill_signoff,
         promote_submit, store
    <3> QED
      BY <3>1
  <2> QED
    BY <2>3, <2>4
<1>2. Spec => [][Final1]_vars
  BY <1>1, OptimizerTypes, PTL DEF Spec
<1> QED
  BY <1>2 DEF VerdictFinal

-----------------------------------------------------------------------------
(***************************************************************************)
(* Results.                                                                *)
(***************************************************************************)
\* A job that is over stays so.
GoesOn(j) ==
  /\ Over(j) => Over(j)'
  /\ job[j].state # "unused" => job'[j].state # "unused" /\ job'[j].dir = job[j].dir

\* What a step of the cluster does to each job.
LEMMA JobStepIs ==
  ASSUME ClusterOK, NEW i \in Jobs, JobStep(i)
  PROVE  /\ \A j \in Jobs : j # i => job'[j] = job[j]
         /\ job'[i].dir = job[i].dir /\ job'[i].state # "unused"
         /\ job[i].state \in {"ended", "old"} => job'[i].state \in {"ended", "old"}
<1>1. DOMAIN job = Jobs /\ job[i] = [state |-> job[i].state, dir |-> job[i].dir, shown |-> job[i].shown]
  BY DEF ClusterOK
<1>2. CASE StartJob(i)
  BY <1>1, <1>2 DEF StartJob
<1>3. CASE PreemptJob(i)
  BY <1>1, <1>3 DEF PreemptJob
<1>4. CASE EndJob(i)
  BY <1>1, <1>4 DEF EndJob
<1>5. CASE ShowResult(i)
  BY <1>1, <1>5 DEF ShowResult
<1>6. CASE GraceOver(i)
  BY <1>1, <1>6 DEF GraceOver
<1> QED
  BY <1>2, <1>3, <1>4, <1>5, <1>6 DEF JobStep

\* A job that is over stays over, in its directory, whatever the driver does.
LEMMA JobsGoOn ==
  ASSUME OptimizerTypeOK, StagesStand, [Next]_vars, NEW j \in Jobs
  PROVE  GoesOn(j)
<1> USE DEF OptimizerTypeOK
<1>1. CASE job' = job
  BY <1>1 DEF GoesOn, Over
<1>2. ASSUME NEW i \in Jobs, JobStep(i)
      PROVE  GoesOn(j)
  BY <1>2, JobStepIs DEF GoesOn, Over
<1>3. ASSUME NEW i \in Unused, NEW d, job' = [job EXCEPT ![i] = Queued(d)]
      PROVE  GoesOn(j)
  BY <1>3 DEF Unused, Queued, GoesOn, Over, ClusterOK
<1>4. CASE drain
  BY <1>4, Drained DEF GoesOn, Over, ClusterOK
<1>5. ASSUME NEW n, NEW a, NEW l, NEW done, NEW failed, submit_trial(n, a, l, done, failed)
      PROVE  GoesOn(j)
  <2>1. PICK d, events : Submit(d, events, l, done, failed)
    BY <1>5, Zenon DEF submit_trial
  <2> QED
    BY <1>1, <1>3, <2>1, Submitted
<1>6. ASSUME NEW p, NEW s, NEW a, NEW d, NEW l, NEW done, NEW failed, submit_stage(p, s, a, d, l, done, failed)
      PROVE  GoesOn(j)
  <2>1. PICK events : Submit(d, events, l, done, failed)
    BY <1>6, Zenon DEF submit_stage
  <2> QED
    BY <1>1, <1>3, <2>1, Submitted
<1>7. CASE poll_trials
  BY <1>1, <1>5, <1>7, PolledTrial
<1>8. CASE fill_new
  BY <1>5, <1>8 DEF fill_new
<1>9. CASE poll_promos
  BY <1>1, <1>6, <1>9, StagePolled DEF PolledStage
<1>10. CASE fill_full \/ promote_submit
  BY <1>6, <1>10 DEF fill_full, promote_submit
<1>11. CASE fill_signoff
  BY <1>1, <1>6, <1>11, StagesFilled DEF SignoffFilled
<1>12. CASE Aside
  BY <1>1, <1>2, <1>12 DEF Aside
<1>13. CASE Perform \/ Crash \/ LoopError \/ repair_imports \/ import_trials \/ reconcile \/ new_trial \/ maybe_promote
  BY <1>1, <1>13 DEF Perform, Crash, LoopError, repair_imports, import_trials, reconcile, new_trial, maybe_promote
<1> QED
  BY <1>4, <1>7, <1>8, <1>9, <1>10, <1>11, <1>12, <1>13, StepCases

\* What the first effect leaves to do.
LEMMA Rest ==
  ASSUME OptimizerTypeOK, Perform
  PROVE  /\ todo # << >> /\ 1 \in DOMAIN todo /\ Head(todo) = todo[1]
         /\ \A i \in DOMAIN todo' : i \in Nat \ {0} /\ i + 1 \in DOMAIN todo /\ i + 1 # 1 /\ todo'[i] = todo[i + 1]
         /\ \A i \in TrialEvents' : i + 1 \in TrialEvents /\ i + 1 # 1 /\ todo'[i] = todo[i + 1] /\ i \in Nat \ {0}
         /\ \A i \in DOMAIN todo : i # 1 => i - 1 \in DOMAIN todo' /\ todo'[i - 1] = todo[i]
BY DEF Perform, TrialEvents, OptimizerTypeOK, TodoOK

\* The first effect, when it is an event of a trial, and when it is not.
LEMMA RecordKept ==
  ASSUME OptimizerTypeOK, Perform, todo[1].op = "trial"
  PROVE  /\ 1 \in TrialEvents /\ todo[1].n \in Nat \ {0} /\ todo[1].rec \in TrialRec
         /\ Trials' = Trials \cup {todo[1].n} /\ trial'[todo[1].n] = todo[1].rec
         /\ \A m \in Trials : m # todo[1].n => trial'[m] = trial[m]
<1>1. todo[1] \in TrialEffects /\ 1 \in TrialEvents /\ todo[1].n \in DOMAIN study
  BY Rest DEF TrialEvents, OptimizerTypeOK, TodoOK, Effects, TrialEffects, StageEffects, PromoEffects,
              TellEffects, RmEffects
<1>2. trial' = [n \in Trials \cup {todo[1].n} |-> IF n = todo[1].n THEN todo[1].rec ELSE trial[n]]
  BY Rest DEF Perform
<1>3. todo[1].n \in Nat \ {0} /\ todo[1].rec \in TrialRec
  BY <1>1 DEF TrialEffects, OptimizerTypeOK, StoreOK
<1> QED
  BY <1>1, <1>2, <1>3 DEF Trials

\* A value stays one of a job that is over when more jobs are.
LEMMA OwnValueKept ==
  ASSUME NEW t, NEW J, NEW K, OwnValue(t, J), J \subseteq K
  PROVE  OwnValue(t, K)
BY DEF OwnValue

\* An event of a trial is typed and about a number of the study.
LEMMA EventRec ==
  ASSUME OptimizerTypeOK, NEW i \in TrialEvents
  PROVE  todo[i].rec \in TrialRec /\ todo[i].n \in DOMAIN study /\ todo[i].n \in Nat \ {0} /\ i \in DOMAIN todo /\ i \in Nat \ {0}
BY DEF TrialEvents, OptimizerTypeOK, TodoOK, Effects, TrialEffects, StageEffects, PromoEffects,
       TellEffects, RmEffects, StoreOK

\* Performing an event keeps what the trial invariants say of records.
LEMMA PerformTrials ==
  ASSUME OptimizerTypeOK, OptimizerTypeOK', TrialInv, Perform
  PROVE  TrialInv'
<1> DEFINE e == todo[1]
           n == e.n
<1>1. OverJobs' = OverJobs
  BY DEF Perform, Over, OverJobs
<1>2. CASE e.op # "trial"
  <2>1. trial' = trial /\ Trials' = Trials
    BY <1>2, Rest DEF Perform, Trials
  <2>2. TrialsStand'
    BY <2>1, Rest DEF TrialsStand, TrialInv
  <2>3. ValuesOwn'
    BY <1>1, <2>1, Rest DEF ValuesOwn, TrialInv
  <2>4. DupsFollow'
    <3>1. \A i \in TrialEvents : todo[i].rec.of # 0 =>
            OriginalOf(todo[i].rec, trial) /\ (todo[i].rec.state = "done" => Follows(todo[i].rec, trial))
      BY <1>2 DEF TrialInv, DupsFollow
    <3>2. \A i \in TrialEvents' : todo'[i].rec.of # 0 =>
            /\ OriginalOf(todo'[i].rec, trial')
            /\ todo'[i].rec.state = "done" => Follows(todo'[i].rec, trial')
      BY <2>1, <3>1, Rest
    <3>3. \A m \in Trials' : trial'[m].of # 0 =>
            /\ OriginalOf(trial'[m], trial')
            /\ trial'[m].state = "done" => Follows(trial'[m], trial')
      BY <2>1 DEF TrialInv, DupsFollow
    <3> QED
      BY <3>2, <3>3 DEF DupsFollow
  <2> QED
    BY <2>2, <2>3, <2>4 DEF TrialInv
<1>3. CASE e.op = "trial"
  <2> DEFINE r == e.rec
  <2>1. /\ 1 \in TrialEvents /\ n \in Nat \ {0} /\ r \in TrialRec
        /\ Trials' = Trials \cup {n} /\ trial'[n] = r
        /\ \A m \in Trials : m # n => trial'[m] = trial[m]
    BY <1>3, RecordKept
  <2>2. \A i \in TrialEvents' : /\ i + 1 \in TrialEvents /\ i + 1 # 1 /\ i \in Nat \ {0} /\ todo'[i] = todo[i + 1]
                                /\ 1 < i + 1
    BY Rest
  \* what the event says of the record it replaces
  <2>3. n \in Trials => /\ trial[n].state \notin Final /\ r.key = trial[n].key /\ r.from = trial[n].from
                        /\ trial[n].state = "submitted" => r.of = 0 /\ r.state \in {"submitted", "done"}
    BY <2>1 DEF TrialInv, TrialsStand
  <2>4. \A j \in TrialEvents : 1 < j /\ todo[j].n = n =>
          r.state \in {"new", "dup"} /\ r.key = todo[j].rec.key /\ r.from = todo[j].rec.from
    BY <2>1 DEF TrialInv, TrialsStand
  <2>5. TrialsStand'
    <3> SUFFICES ASSUME NEW i \in TrialEvents'
                 PROVE  LET m == todo'[i].n  t == todo'[i].rec IN
                        /\ m \in Trials' => /\ trial'[m].state \notin Final
                                            /\ t.key = trial'[m].key /\ t.from = trial'[m].from
                                            /\ trial'[m].state = "submitted" => t.of = 0 /\ t.state \in {"submitted", "done"}
                        /\ \A j \in TrialEvents' : i < j /\ todo'[j].n = m =>
                             t.state \in {"new", "dup"} /\ t.key = todo'[j].rec.key /\ t.from = todo'[j].rec.from
      BY Zenon DEF TrialsStand
    <3> DEFINE m == todo'[i].n
               t == todo'[i].rec
    <3>1. i + 1 \in TrialEvents /\ 1 < i + 1 /\ i \in Nat /\ m = todo[i + 1].n /\ t = todo[i + 1].rec
      BY <2>2
    <3>2. \A j \in TrialEvents' : i < j /\ todo'[j].n = m =>
            t.state \in {"new", "dup"} /\ t.key = todo'[j].rec.key /\ t.from = todo'[j].rec.from
      <4>1. \A j \in TrialEvents : i + 1 < j /\ todo[j].n = m =>
              t.state \in {"new", "dup"} /\ t.key = todo[j].rec.key /\ t.from = todo[j].rec.from
        BY <3>1 DEF TrialInv, TrialsStand
      <4> HIDE DEF m, t
      <4> QED
        BY <2>2, <3>1, <4>1
    <3>3. m = n => /\ trial'[m].state \notin Final
                   /\ t.key = trial'[m].key /\ t.from = trial'[m].from
                   /\ trial'[m].state # "submitted"
      BY <2>1, <2>4, <3>1 DEF Final
    <3>4. m # n /\ m \in Trials =>
            /\ trial[m].state \notin Final /\ t.key = trial[m].key /\ t.from = trial[m].from
            /\ trial[m].state = "submitted" => t.of = 0 /\ t.state \in {"submitted", "done"}
      BY <3>1 DEF TrialInv, TrialsStand
    <3>6. m \in Trials' => m = n \/ (m \in Trials /\ trial'[m] = trial[m])
      BY <2>1
    <3> HIDE DEF m, t, n, r
    <3>5. m \in Trials' => /\ trial'[m].state \notin Final
                           /\ t.key = trial'[m].key /\ t.from = trial'[m].from
                           /\ trial'[m].state = "submitted" => t.of = 0 /\ t.state \in {"submitted", "done"}
      BY <3>3, <3>4, <3>6
    <3> QED
      BY <3>2, <3>5 DEF m, t
  <2>6. ValuesOwn'
    <3>1. \A i \in TrialEvents : OwnValue(todo[i].rec, OverJobs)
      BY DEF ValuesOwn, TrialInv
    <3>2. \A m \in Trials : OwnValue(trial[m], OverJobs)
      BY DEF ValuesOwn, TrialInv
    <3>3. \A m \in Trials' : trial'[m] = r \/ (m \in Trials /\ trial'[m] = trial[m])
      BY <2>1
    <3>4. OwnValue(r, OverJobs)
      BY <2>1, <3>1
    <3> HIDE DEF r, e
    <3> QED
      BY <1>1, <2>2, <3>1, <3>2, <3>3, <3>4 DEF ValuesOwn
  <2>7. ASSUME NEW t, OriginalOf(t, trial)
        PROVE  OriginalOf(t, trial') /\ (t.of = n => trial[n].state # "done") /\ t.of \in Trials
    <3>1. t.of \in Trials /\ trial[t.of].of = 0 /\ trial[t.of].state \in {"submitted", "done"}
      BY <2>7 DEF OriginalOf, Trials
    <3>2. t.of = n => trial[n].state = "submitted" /\ r.of = 0 /\ r.state \in {"submitted", "done"}
      BY <2>3, <3>1 DEF Final
    <3>3. t.of \in DOMAIN trial'
      BY <2>1, <3>1 DEF Trials
    <3> HIDE DEF r, n
    <3> QED
      BY <2>1, <3>1, <3>2, <3>3 DEF OriginalOf
  <2>8. r.of # 0 => OriginalOf(r, trial) /\ (r.state = "done" => Follows(r, trial))
    BY <2>1 DEF TrialInv, DupsFollow
  <2>9. r.of # 0 => r.of # n /\ r.of \in Trials
    BY <2>3, <2>8 DEF OriginalOf, Final, Trials
  <2>10. DupsFollow'
    <3>1. ASSUME NEW m \in Trials', trial'[m].of # 0
          PROVE  OriginalOf(trial'[m], trial') /\ (trial'[m].state = "done" => Follows(trial'[m], trial'))
      <4>1. CASE m = n
        <5>1. trial'[m] = r
          BY <2>1, <4>1
        <5>2. OriginalOf(r, trial') /\ trial'[r.of] = trial[r.of]
          BY <2>1, <2>7, <2>8, <2>9, <3>1, <5>1
        <5> QED
          BY <2>8, <3>1, <5>1, <5>2 DEF Follows
      <4>2. CASE m # n
        <5>1. trial'[m] = trial[m] /\ m \in Trials
          BY <2>1, <4>2
        <5>2. OriginalOf(trial[m], trial) /\ (trial[m].state = "done" => Follows(trial[m], trial))
          BY <3>1, <5>1 DEF TrialInv, DupsFollow
        <5>3. OriginalOf(trial[m], trial') /\ trial[m].of \in Trials /\ (trial[m].of = n => trial[n].state # "done")
          BY <2>7, <5>2
        <5>4. trial[m].state = "done" => trial[m].of # n
          BY <5>2, <5>3 DEF Follows
        <5>5. trial[m].state = "done" => trial'[trial[m].of] = trial[trial[m].of]
          BY <2>1, <5>3, <5>4
        <5> QED
          BY <5>1, <5>2, <5>3, <5>5 DEF Follows
      <4> QED
        BY <4>1, <4>2
    <3>2. ASSUME NEW i \in TrialEvents', todo'[i].rec.of # 0
          PROVE  OriginalOf(todo'[i].rec, trial') /\ (todo'[i].rec.state = "done" => Follows(todo'[i].rec, trial'))
      <4> DEFINE t == todo'[i].rec
      <4>1. i + 1 \in TrialEvents /\ t = todo[i + 1].rec
        BY <2>2
      <4>2. /\ OriginalOf(t, trial)
            /\ t.state = "done" => \/ Follows(t, trial)
                                   \/ n = t.of /\ r.state = "done" /\ r.value = t.value
        BY <3>2, <4>1 DEF TrialInv, DupsFollow
      <4>3. t.of \in Trials /\ OriginalOf(t, trial') /\ (t.of = n => trial[n].state # "done")
        BY <2>7, <4>2
      <4> HIDE DEF t, r, n
      <4>4. t.state = "done" => Follows(t, trial')
        <5>1. CASE t.of = n
          BY <2>1, <4>2, <4>3, <5>1 DEF Follows
        <5>2. CASE t.of # n
          BY <2>1, <4>2, <4>3, <5>2 DEF Follows
        <5> QED
          BY <5>1, <5>2
      <4> QED
        BY <4>3, <4>4 DEF t
    <3> QED
      BY <3>1, <3>2 DEF DupsFollow
  <2> QED
    BY <2>5, <2>6, <2>10 DEF TrialInv
<1> QED
  BY <1>2, <1>3

\* Jobs that are over are so after any step.
LEMMA OverGrows ==
  ASSUME TypeInv, [Next]_vars
  PROVE  OverJobs \subseteq OverJobs'
BY JobsGoOn DEF GoesOn, OverJobs, TypeInv

\* Steps that leave the trials alone and have nothing new to record of them.
LEMMA TrialsKept ==
  ASSUME TrialInv, trial' = trial, OverJobs \subseteq OverJobs', TrialEvents' = {} \/ todo' = todo
  PROVE  TrialInv'
<1>1. Trials' = Trials /\ (TrialEvents' = {} \/ (TrialEvents' = TrialEvents /\ todo' = todo))
  BY DEF Trials, TrialEvents
<1>2. TrialsStand'
  BY <1>1 DEF TrialInv, TrialsStand
<1>3. ValuesOwn'
  BY <1>1, OwnValueKept DEF TrialInv, ValuesOwn
<1>4. DupsFollow'
  BY <1>1 DEF TrialInv, DupsFollow
<1> QED
  BY <1>2, <1>3, <1>4 DEF TrialInv

\* ... and those that have, once each event is shown to fit its trial.
LEMMA TrialsRecorded ==
  ASSUME TrialInv, trial' = trial, OverJobs \subseteq OverJobs', TrialsStand',
         \A i \in TrialEvents' :
            /\ OwnValue(todo'[i].rec, OverJobs')
            /\ todo'[i].rec.of # 0 =>
                 /\ OriginalOf(todo'[i].rec, trial)
                 /\ todo'[i].rec.state = "done" =>
                      \/ Follows(todo'[i].rec, trial)
                      \/ /\ i # 1 /\ todo'[1].op = "trial" /\ todo'[1].n = todo'[i].rec.of
                         /\ todo'[1].rec.state = "done" /\ todo'[1].rec.value = todo'[i].rec.value
  PROVE  TrialInv'
<1>1. Trials' = Trials
  BY DEF Trials
<1>2. ValuesOwn'
  BY <1>1, OwnValueKept DEF TrialInv, ValuesOwn
<1>3. DupsFollow'
  BY <1>1 DEF TrialInv, DupsFollow
<1> QED
  BY <1>2, <1>3 DEF TrialInv

\* The submission of a trial, its first or another.
LEMMA SubmitTrialInv ==
  ASSUME TypeInv, TrialInv, OptimizerTypeOK', OverJobs \subseteq OverJobs', trial' = trial, todo = << >>,
         NEW n \in Trials, NEW a, NEW l, NEW done, NEW failed,
         trial[n].state \in {"new", "submitted"}, submit_trial(n, a, l, done, failed)
  PROVE  TrialInv'
<1>1. CASE todo' = << >>
  BY <1>1, TodoEmpty, TrialsKept
<1>2. ASSUME NEW j \in Unused, todo' = <<Emit(n, AsSubmitted(trial[n], j, a))>>
      PROVE  TrialInv'
  <2>1. trial[n] \in TrialRec /\ OwnValue(trial[n], OverJobs) /\ j \in Jobs
    BY DEF TypeInv, OptimizerTypeOK, StoreOK, TrialInv, ValuesOwn, Unused
  <2>2. /\ AsSubmitted(trial[n], j, a).state = "submitted" /\ AsSubmitted(trial[n], j, a).of = 0
        /\ AsSubmitted(trial[n], j, a).key = trial[n].key /\ AsSubmitted(trial[n], j, a).from = trial[n].from
        /\ AsSubmitted(trial[n], j, a).job = j /\ j \in AsSubmitted(trial[n], j, a).submits
        /\ ~AsSubmitted(trial[n], j, a).lost
    <3>1. trial[n].of = 0 /\ ~trial[n].lost
      BY <2>1 DEF OwnValue, TrialRec
    <3> QED
      BY <2>1, <3>1 DEF AsSubmitted, TrialRec
  <2> DEFINE r == AsSubmitted(trial[n], j, a)
             e == Emit(n, r)
  <2>3. e.op = "trial" /\ e.n = n /\ e.rec = r /\ todo' = <<e>>
    BY <1>2 DEF Emit
  <2> HIDE DEF r, e
  <2>4. TrialEvents' = {1} /\ todo'[1] = e
    BY <2>3 DEF TrialEvents
  <2>5. TrialsStand'
    BY <2>2, <2>3, <2>4 DEF r, TrialsStand, Final, Trials
  <2>6. OwnValue(r, OverJobs')
    BY <2>2 DEF OwnValue, r
  <2> QED
    BY <2>2, <2>3, <2>4, <2>5, <2>6, TrialsRecorded DEF r
<1> QED
  BY <1>1, <1>2, SubmittedTrialOnly

\* The end of a trial fits the record it is an end of.
LEMMA DoneFits ==
  ASSUME NEW t \in TrialRec, NEW ev \in Evaluations
  PROVE  /\ Done(t, ev).state = "done" /\ Done(t, ev).of = t.of /\ Done(t, ev).key = t.key
         /\ Done(t, ev).from = t.from /\ Done(t, ev).value = ev.value /\ Done(t, ev).submits = t.submits
         /\ Done(t, ev).lost = ev.lost /\ Done(t, ev).built = t.built
<1>1. ev.value \in Int /\ ev.legal \in BOOLEAN /\ ev.lost \in BOOLEAN
  BY OptimizerAssumption DEF Evaluations
<1> QED
  BY <1>1 DEF Done, TrialRec

\* The ends of trials that are in flight or duplicates of the first of them.
LEMMA EndsInv ==
  ASSUME TypeInv, TrialInv, OverJobs \subseteq OverJobs', trial' = trial,
         NEW k, NEW ns, NEW ev \in Evaluations, EndsOf(todo', k, ns, ev),
         \A m \in 1 .. k : \/ trial[ns[m]].state = "submitted" /\ (ev.value > 0 => ev.value \in trial[ns[m]].submits \cap OverJobs)
                           \/ /\ m # 1 /\ trial[ns[m]].state = "dup" /\ trial[ns[m]].of = ns[1]
                              /\ trial[ns[1]].state = "submitted"
  PROVE  TrialInv'
<1>1. /\ k \in Nat /\ \A m \in 1 .. k : ns[m] \in Trials /\ ns[m] \in Nat \ {0} /\ trial[ns[m]] \in TrialRec
      /\ \A b, c \in 1 .. k : ns[b] = ns[c] => b = c
  BY DEF EndsOf, TypeInv, OptimizerTypeOK, StoreOK
<1>2. \A m \in 1 .. k : OwnValue(trial[ns[m]], OverJobs)
  BY <1>1 DEF TrialInv, ValuesOwn
<1>3. \A i \in TrialEvents' : \E m \in 1 .. k : i = 2 * m - 1 /\ todo'[i].n = ns[m] /\ todo'[i].rec = Done(trial[ns[m]], ev)
  <2> SUFFICES ASSUME NEW i \in TrialEvents'
               PROVE  \E m \in 1 .. k : i = 2 * m - 1 /\ todo'[i].n = ns[m] /\ todo'[i].rec = Done(trial[ns[m]], ev)
    OBVIOUS
  <2>1. i \in DOMAIN todo' /\ todo'[i].op = "trial"
    BY DEF TrialEvents
  <2> QED
    BY <2>1, EndsOps
<1>4. \A m \in 1 .. k : LET r == Done(trial[ns[m]], ev) IN
        /\ r.state = "done" /\ r.of = trial[ns[m]].of /\ r.key = trial[ns[m]].key /\ r.from = trial[ns[m]].from
        /\ r.value = ev.value /\ r.submits = trial[ns[m]].submits
  BY <1>1, DoneFits
<1>5. TrialsStand'
  <2> SUFFICES ASSUME NEW i \in TrialEvents'
               PROVE  LET n == todo'[i].n  t == todo'[i].rec IN
                      /\ n \in Trials => /\ trial[n].state \notin Final
                                         /\ t.key = trial[n].key /\ t.from = trial[n].from
                                         /\ trial[n].state = "submitted" => t.of = 0 /\ t.state \in {"submitted", "done"}
                      /\ \A j \in TrialEvents' : ~(i < j /\ todo'[j].n = n)
    BY DEF TrialsStand, Trials
  <2>1. PICK m \in 1 .. k : i = 2 * m - 1 /\ todo'[i].n = ns[m] /\ todo'[i].rec = Done(trial[ns[m]], ev)
    BY <1>3
  <2>2. trial[ns[m]].state \in {"submitted", "dup"}
    OBVIOUS
  <2>3. trial[ns[m]].state = "submitted" => trial[ns[m]].of = 0
    BY <1>2 DEF OwnValue
  <2>4. ASSUME NEW j \in TrialEvents', i < j, todo'[j].n = todo'[i].n
        PROVE  FALSE
    <3>1. PICK q \in 1 .. k : j = 2 * q - 1 /\ todo'[j].n = ns[q]
      BY <1>3
    <3>2. m = q
      BY <1>1, <2>1, <2>4, <3>1
    <3> QED
      BY <2>1, <2>4, <3>1, <3>2
  <2> QED
    BY <1>4, <2>1, <2>2, <2>3, <2>4 DEF Final
<1>6. ASSUME NEW i \in TrialEvents'
      PROVE  /\ OwnValue(todo'[i].rec, OverJobs')
             /\ todo'[i].rec.of # 0 =>
                 /\ OriginalOf(todo'[i].rec, trial)
                 /\ i # 1 /\ todo'[1].op = "trial" /\ todo'[1].n = todo'[i].rec.of
                 /\ todo'[1].rec.state = "done" /\ todo'[1].rec.value = todo'[i].rec.value
  <2>1. PICK m \in 1 .. k : i = 2 * m - 1 /\ todo'[i].rec = Done(trial[ns[m]], ev)
    BY <1>3
  <2> DEFINE r == Done(trial[ns[m]], ev)
  <2>2. /\ r.state = "done" /\ r.of = trial[ns[m]].of /\ r.value = ev.value /\ r.submits = trial[ns[m]].submits
    BY <1>4
  <2> HIDE DEF r
  <2>3. CASE trial[ns[m]].state = "submitted" /\ (ev.value > 0 => ev.value \in trial[ns[m]].submits \cap OverJobs)
    <3>1. trial[ns[m]].of = 0
      BY <1>2, <2>3 DEF OwnValue
    <3>2. OwnValue(r, OverJobs')
      BY <2>2, <2>3, <3>1 DEF OwnValue
    <3> QED
      BY <2>1, <2>2, <3>1, <3>2 DEF r
  <2>4. CASE /\ m # 1 /\ trial[ns[m]].state = "dup" /\ trial[ns[m]].of = ns[1] /\ trial[ns[1]].state = "submitted"
    <3>1. 1 \in 1 .. k /\ ns[1] # 0 /\ ns[1] \in Trials
      BY <1>1
    <3>2. trial[ns[1]].of = 0
      BY <1>2, <2>4, <3>1 DEF OwnValue
    <3>3. OwnValue(r, OverJobs') /\ OriginalOf(r, trial)
      BY <2>2, <2>4, <3>1, <3>2 DEF OwnValue, OriginalOf, Trials
    <3>4. todo'[1].op = "trial" /\ todo'[1].n = ns[1] /\ todo'[1].rec = Done(trial[ns[1]], ev)
      <4>1. 2 * 1 - 1 = 1
        OBVIOUS
      <4> QED
        BY <3>1, <4>1 DEF EndsOf
    <3>5. todo'[1].rec.state = "done" /\ todo'[1].rec.value = ev.value
      BY <1>4, <3>1, <3>4
    <3>6. i # 1
      BY <2>1, <2>4
    <3> QED
      BY <2>1, <2>2, <2>4, <3>3, <3>4, <3>5, <3>6 DEF r
  <2> QED
    BY <2>3, <2>4
<1> QED
  BY <1>5, <1>6, TrialsRecorded

\* Polling a trial, and the drain of a hard stop.
LEMMA PolledInv ==
  ASSUME TypeInv, TypeInv', TrialInv, OverJobs \subseteq OverJobs', poll_trials
  PROVE  TrialInv'
<1>1. trial' = trial /\ todo = << >>
  BY DEF poll_trials, Here, store
<1>2. ASSUME NEW n \in InFlight, NEW a, NEW l, submit_trial(n, a, l, "trials", "trials")
      PROVE  TrialInv'
  BY <1>1, <1>2, SubmitTrialInv DEF InFlight, TypeInv
<1>3. ASSUME todo' = << >>
      PROVE  TrialInv'
  BY <1>1, <1>3, TodoEmpty, TrialsKept
<1>4. ASSUME NEW n, NEW k, NEW ns, NEW ev, PolledEnds(n, k, ns, ev)
      PROVE  TrialInv'
  <2>1. n \in Trials /\ trial[n].state = "submitted" /\ OwnValue(trial[n], OverJobs)
    BY <1>4 DEF PolledEnds, InFlight, TrialInv, ValuesOwn
  <2>2. ev.value > 0 => ev.value \in trial[n].submits \cap OverJobs
    <3> SUFFICES ASSUME ev.value > 0
                 PROVE  ev.value \in trial[n].submits \cap OverJobs
      OBVIOUS
    <3>1. ev.value = trial[n].job /\ job[ev.value].shown /\ ev.value \in Jobs
      BY <1>4 DEF PolledEnds, Evaluations, Jobs
    <3>2. ev.value \in OverJobs
      BY <3>1 DEF TypeInv, OptimizerTypeOK, ClusterOK, OverJobs, Over
    <3> QED
      BY <2>1, <3>1, <3>2 DEF OwnValue
  <2>3. k \in Nat /\ ns[1] = n /\ EndsOf(todo', k, ns, ev) /\ ev \in Evaluations
    BY <1>4 DEF PolledEnds, EndsOf
  <2>4. \A m \in 1 .. k : \/ trial[ns[m]].state = "submitted" /\ (ev.value > 0 => ev.value \in trial[ns[m]].submits \cap OverJobs)
                          \/ /\ m # 1 /\ trial[ns[m]].state = "dup" /\ trial[ns[m]].of = ns[1]
                             /\ trial[ns[1]].state = "submitted"
    <3> SUFFICES ASSUME NEW m \in 1 .. k
                 PROVE  \/ trial[ns[m]].state = "submitted" /\ (ev.value > 0 => ev.value \in trial[ns[m]].submits \cap OverJobs)
                        \/ /\ m # 1 /\ trial[ns[m]].state = "dup" /\ trial[ns[m]].of = ns[1]
                           /\ trial[ns[1]].state = "submitted"
      OBVIOUS
    <3>1. CASE m = 1
      BY <2>1, <2>2, <2>3, <3>1
    <3>2. CASE m # 1
      <4>1. m \in 2 .. k
        BY <2>3, <3>2
      <4> QED
        BY <1>4, <2>1, <2>3, <3>2, <4>1 DEF PolledEnds
    <3> QED
      BY <3>1, <3>2
  <2> QED
    BY <1>1, <2>3, <2>4, EndsInv
<1> QED
  BY <1>2, <1>3, <1>4, PolledTrial DEF TypeInv, OptimizerTypeOK

\* Cancelling at a hard stop keeps the trial invariants.
LEMMA DrainInv ==
  ASSUME TypeInv, TrialInv, OverJobs \subseteq OverJobs', drain
  PROVE  TrialInv'
<1>1. trial' = trial
  BY DEF drain, store
<1>2. PICK k, ns : EndsOf(todo', k, ns, NoMetrics) /\ \A m \in 1 .. k : trial[ns[m]].state = "submitted"
  BY Drained DEF TypeInv, OptimizerTypeOK
<1>3. ~(NoMetrics.value > 0) /\ NoMetrics \in Evaluations
  BY NoMetricsType DEF NoMetrics, FAIL_VALUE
<1> HIDE DEF NoMetrics
<1> QED
  BY <1>1, <1>2, <1>3, EndsInv

\* The events that answer a number of the study, asked for configuration k.
AskedRec(k, i, t) ==
  /\ t.key = k /\ t.from = NoKey
  /\ \/ i = 1 /\ t.state = "new" /\ t.of = 0 /\ ~t.lost
     \/ i = 2 /\ t.state = "rejected" /\ t.of = 0 /\ ~t.lost /\ t.value = FAIL_VALUE /\ Original(k) = {}
     \/ i = 2 /\ t.state = "dup" /\ t.of \in Original(k) /\ ~t.lost
     \/ /\ i = 3 /\ t.state = "done" /\ t.of \in Original(k)
        /\ trial[t.of].state = "done" /\ t.value = trial[t.of].value

AskedEvents(k) ==
  /\ \A i \in DOMAIN todo' :
       /\ todo'[i].n = Len(study) + 1
       /\ \/ todo'[i].op = "trial" /\ AskedRec(k, i, todo'[i].rec)
          \/ /\ todo'[i].op = "tell" /\ i # 1 /\ i = Len(todo') /\ todo'[i - 1].op = "trial"
             /\ todo'[i - 1].rec.state \in Final /\ todo'[i - 1].rec.value = todo'[i].value
       /\ todo'[i].op = "trial" /\ todo'[i].rec.state \in Final => \A j \in TrialEvents' : ~(i < j)
  /\ Original(k) # {} => 2 \in TrialEvents' /\ todo'[2].rec.of # 0 /\ at' = "ask"
  /\ Original(k) = {} => \/ at' = "new" /\ Len(todo') = 1
                         \/ /\ at' = "ask" /\ 1 \in TrialEvents' /\ ~todo'[1].rec.built
                            /\ \A i \in TrialEvents' : i = 1 \/ todo'[i].rec.state = "rejected"

\* What new_trial leaves fits the numbers before it.
LEMMA AskedFits ==
  ASSUME StoreOK, new_trial
  PROVE  \E k \in Keys : AskedEvents(k)
<1> DEFINE n == Len(study) + 1
<1>1. PICK k \in Keys : Asked(k)
  BY NewAsked
<1>2. /\ NewRec(k).key = k /\ NewRec(k).from = NoKey /\ NewRec(k).state = "new" /\ NewRec(k).of = 0 /\ ~NewRec(k).lost
      /\ UnbuiltRec(k).key = k /\ UnbuiltRec(k).from = NoKey /\ UnbuiltRec(k).state = "new" /\ UnbuiltRec(k).of = 0
      /\ ~UnbuiltRec(k).lost /\ ~UnbuiltRec(k).built
      /\ RefusedRec(k).key = k /\ RefusedRec(k).from = NoKey /\ RefusedRec(k).state = "rejected" /\ RefusedRec(k).of = 0
      /\ ~RefusedRec(k).lost /\ RefusedRec(k).value = FAIL_VALUE
  BY DEF NewRec, UnbuiltRec, RefusedRec, NewTrial
<1>3. ASSUME NEW o \in Original(k),
             todo' = IF trial[o].state = "done"
                     THEN <<Emit(n, NewRec(k)), Emit(n, DupRec(k, o)),
                            Emit(n, Done(DupRec(k, o), Result(trial[o]))), Tell(n, trial[o].value)>>
                     ELSE <<Emit(n, NewRec(k)), Emit(n, DupRec(k, o))>>,
             at' = "ask"
      PROVE  AskedEvents(k)
  <2>1. o \in Nat /\ o # 0 /\ trial[o] \in TrialRec
    BY DEF Original, StoreOK
  <2>2. DupRec(k, o) \in TrialRec /\ DupRec(k, o).key = k /\ DupRec(k, o).of = o
        /\ DupRec(k, o).state = "dup" /\ DupRec(k, o).from = NoKey /\ ~DupRec(k, o).lost
    BY <2>1, DupRecType
  <2> DEFINE a == Emit(n, NewRec(k))
             b == Emit(n, DupRec(k, o))
             d == Done(DupRec(k, o), Result(trial[o]))
             c == Emit(n, d)
             e == Tell(n, trial[o].value)
  <2>3. d.key = k /\ d.of = o /\ d.state = "done" /\ d.from = NoKey /\ d.value = trial[o].value
    BY <2>2 DEF Done, Result, TrialRec
  <2>4. /\ a.op = "trial" /\ a.n = n /\ a.rec = NewRec(k) /\ b.op = "trial" /\ b.n = n /\ b.rec = DupRec(k, o)
        /\ c.op = "trial" /\ c.n = n /\ c.rec = d /\ e.op = "tell" /\ e.n = n /\ e.value = trial[o].value
    BY DEF Emit, Tell
  <2>5. \/ trial[o].state = "done" /\ todo' = <<a, b, c, e>>
        \/ todo' = <<a, b>>
    BY <1>3
  <2> HIDE DEF a, b, c, d, e, n
  <2>6. CASE trial[o].state = "done" /\ todo' = <<a, b, c, e>>
    <3>1. /\ DOMAIN todo' = {1, 2, 3, 4} /\ todo'[1] = a /\ todo'[2] = b /\ todo'[3] = c /\ todo'[4] = e
          /\ Len(todo') = 4
      BY <2>6
    <3>2. TrialEvents' = {1, 2, 3}
      BY <2>4, <3>1 DEF TrialEvents
    <3>3. /\ AskedRec(k, 1, a.rec) /\ AskedRec(k, 2, b.rec) /\ AskedRec(k, 3, c.rec)
      BY <1>2, <2>2, <2>3, <2>4, <2>6 DEF AskedRec
    <3>4. a.rec.state \notin Final /\ b.rec.state \notin Final /\ c.rec.state \in Final
      BY <1>2, <2>2, <2>3, <2>4 DEF Final
    <3>5. ASSUME NEW i \in DOMAIN todo'
          PROVE  /\ todo'[i].n = n
                 /\ \/ todo'[i].op = "trial" /\ AskedRec(k, i, todo'[i].rec)
                    \/ /\ todo'[i].op = "tell" /\ i # 1 /\ i = Len(todo') /\ todo'[i - 1].op = "trial"
                       /\ todo'[i - 1].rec.state \in Final /\ todo'[i - 1].rec.value = todo'[i].value
                 /\ todo'[i].op = "trial" /\ todo'[i].rec.state \in Final => \A j \in TrialEvents' : ~(i < j)
      <4>1. 4 - 1 = 3
        OBVIOUS
      <4>2. CASE i \in {1, 2}
        BY <2>4, <3>1, <3>3, <3>4, <4>2
      <4>3. CASE i = 3
        BY <2>4, <3>1, <3>2, <3>3, <3>4, <4>3
      <4>4. CASE i = 4
        BY <2>3, <2>4, <3>1, <3>4, <4>1, <4>4
      <4> QED
        BY <3>1, <4>2, <4>3, <4>4
    <3> QED
      BY <1>3, <2>1, <2>2, <2>4, <3>1, <3>2, <3>5 DEF AskedEvents, n
  <2>7. CASE todo' = <<a, b>>
    <3>1. DOMAIN todo' = {1, 2} /\ todo'[1] = a /\ todo'[2] = b /\ Len(todo') = 2
      BY <2>7
    <3>2. TrialEvents' = {1, 2}
      BY <2>4, <3>1 DEF TrialEvents
    <3>3. AskedRec(k, 1, a.rec) /\ AskedRec(k, 2, b.rec)
      BY <1>2, <2>2, <2>4 DEF AskedRec
    <3>4. a.rec.state \notin Final /\ b.rec.state \notin Final
      BY <1>2, <2>2, <2>4 DEF Final
    <3> QED
      BY <1>3, <2>1, <2>2, <2>4, <3>1, <3>2, <3>3, <3>4 DEF AskedEvents, n
  <2> QED
    BY <2>5, <2>6, <2>7
<1>4. CASE /\ Original(k) = {} /\ at' = "ask"
           /\ todo' = <<Emit(n, UnbuiltRec(k)), Emit(n, RefusedRec(k)), Tell(n, FAIL_VALUE)>>
  <2> DEFINE a == Emit(n, UnbuiltRec(k))
             b == Emit(n, RefusedRec(k))
             e == Tell(n, FAIL_VALUE)
  <2>1. /\ a.op = "trial" /\ a.n = n /\ a.rec = UnbuiltRec(k) /\ b.op = "trial" /\ b.n = n /\ b.rec = RefusedRec(k)
        /\ e.op = "tell" /\ e.n = n /\ e.value = FAIL_VALUE
    BY DEF Emit, Tell
  <2>2. todo' = <<a, b, e>>
    BY <1>4
  <2> HIDE DEF a, b, e, n
  <2>3. DOMAIN todo' = {1, 2, 3} /\ todo'[1] = a /\ todo'[2] = b /\ todo'[3] = e /\ Len(todo') = 3
    BY <2>2
  <2>4. TrialEvents' = {1, 2}
    BY <2>1, <2>3 DEF TrialEvents
  <2>5. AskedRec(k, 1, a.rec) /\ AskedRec(k, 2, b.rec)
    BY <1>2, <1>4, <2>1 DEF AskedRec
  <2>6. a.rec.state \notin Final /\ b.rec.state \in Final
    BY <1>2, <2>1 DEF Final
  <2>7. ASSUME NEW i \in DOMAIN todo'
        PROVE  /\ todo'[i].n = n
               /\ \/ todo'[i].op = "trial" /\ AskedRec(k, i, todo'[i].rec)
                  \/ /\ todo'[i].op = "tell" /\ i # 1 /\ i = Len(todo') /\ todo'[i - 1].op = "trial"
                     /\ todo'[i - 1].rec.state \in Final /\ todo'[i - 1].rec.value = todo'[i].value
               /\ todo'[i].op = "trial" /\ todo'[i].rec.state \in Final => \A j \in TrialEvents' : ~(i < j)
    <3>1. 3 - 1 = 2
      OBVIOUS
    <3>2. CASE i \in {1, 2}
      BY <2>1, <2>3, <2>4, <2>5, <2>6, <3>2
    <3>3. CASE i = 3
      BY <1>2, <2>1, <2>3, <2>6, <3>1, <3>3
    <3> QED
      BY <2>3, <3>2, <3>3
  <2> QED
    BY <1>2, <1>4, <2>1, <2>3, <2>4, <2>7 DEF AskedEvents, n
<1>5. CASE Original(k) = {} /\ at' = "new" /\ todo' = <<Emit(n, NewRec(k))>>
  <2> DEFINE a == Emit(n, NewRec(k))
  <2>1. a.op = "trial" /\ a.n = n /\ a.rec = NewRec(k) /\ todo' = <<a>>
    BY <1>5 DEF Emit
  <2> HIDE DEF a, n
  <2>2. AskedRec(k, 1, a.rec) /\ a.rec.state \notin Final
    BY <1>2, <2>1 DEF AskedRec, Final
  <2> QED
    BY <1>5, <2>1, <2>2 DEF AskedEvents, n
<1> QED
  BY <1>1, <1>3, <1>4, <1>5 DEF Asked

\* A new number is a trial of its own, or the duplicate of one.
LEMMA AskInv ==
  ASSUME TypeInv, TypeInv', TrialInv, OverJobs \subseteq OverJobs', new_trial
  PROVE  TrialInv'
<1>1. trial' = trial /\ Trials' = Trials /\ Len(study) + 1 \notin Trials
  BY NewAsked DEF TypeInv, OptimizerTypeOK, StoreOK, Trials
<1>2. PICK k \in Keys : AskedEvents(k)
  BY AskedFits DEF TypeInv, OptimizerTypeOK
<1>3. \A i \in TrialEvents' : todo'[i].n = Len(study) + 1 /\ AskedRec(k, i, todo'[i].rec)
  BY <1>2 DEF AskedEvents, TrialEvents
<1>4. \A o \in Original(k) : o \in Trials /\ o # 0 /\ trial[o].of = 0 /\ trial[o].state \in {"submitted", "done"}
  BY DEF Original, Dup, TypeInv, OptimizerTypeOK, StoreOK
<1>5. TrialsStand'
  <2> SUFFICES ASSUME NEW i \in TrialEvents', NEW j \in TrialEvents', i < j
               PROVE  /\ todo'[i].rec.state \in {"new", "dup"}
                      /\ todo'[i].rec.key = todo'[j].rec.key /\ todo'[i].rec.from = todo'[j].rec.from
    BY <1>1, <1>3 DEF TrialsStand
  <2>1. todo'[i].rec.state \notin Final
    BY <1>2 DEF AskedEvents, TrialEvents
  <2> QED
    BY <1>3, <2>1 DEF AskedRec, Final
<1>6. ASSUME NEW i \in TrialEvents'
      PROVE  /\ OwnValue(todo'[i].rec, OverJobs')
             /\ todo'[i].rec.of # 0 =>
                  /\ OriginalOf(todo'[i].rec, trial)
                  /\ todo'[i].rec.state = "done" => Follows(todo'[i].rec, trial)
  <2> DEFINE t == todo'[i].rec
  <2>1. AskedRec(k, i, t)
    BY <1>3
  <2> HIDE DEF t
  <2>2. OwnValue(t, OverJobs')
    BY <1>4, <2>1 DEF AskedRec, OwnValue
  <2>3. t.of # 0 => OriginalOf(t, trial)
    BY <1>4, <2>1 DEF AskedRec, OriginalOf, Trials
  <2>4. t.of # 0 /\ t.state = "done" => Follows(t, trial)
    BY <1>4, <2>1 DEF AskedRec, Follows
  <2> QED
    BY <2>2, <2>3, <2>4 DEF t
<1> QED
  BY <1>1, <1>5, <1>6, TrialsRecorded

\* The events of imports: numbers of the study that the store does not know.
LEMMA ImportedEvents ==
  ASSUME StoreOK, repair_imports \/ import_trials
  PROVE  /\ trial' = trial
         /\ \A i \in DOMAIN todo' :
              /\ todo'[i].op = "trial" /\ todo'[i].n \notin Trials /\ todo'[i].n \in DOMAIN study'
              /\ study'[todo'[i].n].from \in Legacy /\ todo'[i].rec = ImportRec(study'[todo'[i].n].from)
              /\ \A j \in DOMAIN todo' : todo'[j].n = todo'[i].n => j = i
<1>1. CASE repair_imports
  <2>1. PICK k \in Nat : \E s \in [1 .. k -> UnknownImports] :
          /\ \A i, j \in 1 .. k : s[i] = s[j] => i = j
          /\ todo' = [i \in 1 .. k |-> Emit(s[i], ImportRec(study[s[i]].from))]
    BY <1>1, Repaired
  <2>2. PICK s \in [1 .. k -> UnknownImports] :
          /\ \A i, j \in 1 .. k : s[i] = s[j] => i = j
          /\ todo' = [i \in 1 .. k |-> Emit(s[i], ImportRec(study[s[i]].from))]
    BY <2>1
  <2>3. study' = study /\ trial' = trial
    BY <1>1 DEF repair_imports, store
  <2>4. \A n \in UnknownImports : n \in DOMAIN study /\ n \notin Trials /\ study[n].from \in Legacy
    <3>1. \A n \in DOMAIN study : study[n] \in StudyRec
      BY DEF StoreOK
    <3> QED
      BY <3>1 DEF UnknownImports, StudyRec
  <2>5. \A i \in 1 .. k : todo'[i].op = "trial" /\ todo'[i].n = s[i] /\ todo'[i].rec = ImportRec(study[s[i]].from)
    BY <2>2, Ops
  <2> QED
    BY <2>2, <2>3, <2>4, <2>5
<1>2. CASE import_trials
  <2>1. PICK k \in ToImport :
          /\ study' = Append(study, [state |-> "complete", value |-> LegacyValue, from |-> k])
          /\ todo' = <<Emit(Len(study) + 1, ImportRec(k))>>
          /\ UNCHANGED <<trial, promo, earlier, job, disk, loop, env>>
    BY <1>2, Imported, Zenon
  <2>2. k \in Legacy /\ trial' = trial /\ Trials \subseteq DOMAIN study /\ study \in Seq(StudyRec)
    BY <2>1 DEF ToImport, StoreOK
  <2> DEFINE r == [state |-> "complete", value |-> LegacyValue, from |-> k]
             n == Len(study) + 1
             e == Emit(n, ImportRec(k))
  <2>3. r.from = k /\ r \in StudyRec /\ study' = Append(study, r)
    BY <2>1, <2>2 DEF StudyRec, LegacyValue
  <2>4. e.op = "trial" /\ e.n = n /\ e.rec = ImportRec(k) /\ todo' = <<e>>
    BY <2>1, Ops
  <2> HIDE DEF r, e
  <2>5. n \in DOMAIN study' /\ study'[n] = r /\ n \notin Trials
    BY <2>2, <2>3
  <2> QED
    BY <2>2, <2>3, <2>4, <2>5
<1> QED
  BY <1>1, <1>2

\* Imports keep the trial invariants.
LEMMA ImportsInv ==
  ASSUME TypeInv, TypeInv', TrialInv, OverJobs \subseteq OverJobs', repair_imports \/ import_trials
  PROVE  TrialInv'
<1>1. /\ trial' = trial /\ Trials' = Trials
      /\ \A i \in DOMAIN todo' :
           /\ todo'[i].n \notin Trials
           /\ study'[todo'[i].n].from \in Legacy /\ todo'[i].rec = ImportRec(study'[todo'[i].n].from)
           /\ \A j \in DOMAIN todo' : todo'[j].n = todo'[i].n => j = i
  BY ImportedEvents DEF TypeInv, OptimizerTypeOK, Trials
<1>2. TrialsStand'
  <2>1. \A i \in TrialEvents' : i \in Nat /\ i \in DOMAIN todo'
    <3>1. todo' \in Seq(Effects)
      BY DEF TypeInv, OptimizerTypeOK, TodoOK
    <3> QED
      BY <3>1 DEF TrialEvents
  <2>2. \A i \in TrialEvents' : todo'[i].n \notin Trials' /\ \A j \in TrialEvents' : i < j => todo'[j].n # todo'[i].n
    BY <1>1, <2>1
  <2> QED
    BY <2>2 DEF TrialsStand
<1>3. ASSUME NEW i \in TrialEvents'
      PROVE  OwnValue(todo'[i].rec, OverJobs') /\ todo'[i].rec.of = 0
  <2> DEFINE t == todo'[i].rec
             k == study'[todo'[i].n].from
  <2>0. k \in Legacy /\ t = ImportRec(k)
    BY <1>1 DEF TrialEvents
  <2> HIDE DEF k, t
  <2>1. t.of = 0 /\ t.state = "done" /\ ~t.lost /\ t.value = LegacyValue
    BY <2>0, ImportRecType
  <2>2. OwnValue(t, OverJobs')
    BY <2>1 DEF OwnValue, LegacyValue
  <2> QED
    BY <2>1, <2>2 DEF t
<1> QED
  BY <1>1, <1>2, <1>3, TrialsRecorded

\* Every step keeps what is known of the trials.
LEMMA TrialStep ==
  ASSUME TypeInv, TypeInv', TrialInv, [Next]_vars
  PROVE  TrialInv'
<1>1. OverJobs \subseteq OverJobs' /\ StoreOK
  BY OverGrows DEF TypeInv, OptimizerTypeOK
<1>2. CASE Aside
  BY <1>1, <1>2, TrialsKept DEF Aside
<1>3. CASE Crash \/ LoopError
  <2>3. UNCHANGED store /\ todo' = << >>
    BY <1>3, Zenon DEF Crash, LoopError
  <2>1. trial' = trial /\ todo' = << >>
    BY <2>3 DEF store
  <2>2. TrialEvents' = {}
    BY <2>1, TodoEmpty
  <2> QED
    BY <1>1, <2>1, <2>2, TrialsKept
<1>4. CASE reconcile
  <2>1. trial' = trial
    BY <1>4 DEF reconcile, store
  <2>2. TrialEvents' = {}
    BY <1>1, <1>4, Reconciled, Ops DEF TrialEvents
  <2> QED
    BY <1>1, <2>1, <2>2, TrialsKept
<1>5. CASE poll_promos \/ fill_full \/ fill_signoff \/ promote_submit \/ maybe_promote
  <2>1. trial' = trial /\ TrialEvents' = {}
    BY <1>5, PromotionHandlers DEF TrialEvents, TypeInv
  <2> QED
    BY <1>1, <2>1, TrialsKept
<1>6. CASE fill_new
  <2>1. NewToSubmit \subseteq Nat /\ NewToSubmit # {} /\ NewToSubmit \subseteq Trials
    BY <1>1, <1>6 DEF NewToSubmit, StoreOK, fill_new
  <2>2. Min(NewToSubmit) \in NewToSubmit
    BY <2>1, MinIsLeast
  <2>3. Min(NewToSubmit) \in Trials /\ trial[Min(NewToSubmit)].state = "new"
    BY <2>2 DEF NewToSubmit
  <2>4. trial' = trial /\ todo = << >> /\ submit_trial(Min(NewToSubmit), 1, loop, "new", "end")
    BY <1>6 DEF fill_new, Here, store
  <2> QED
    BY <1>1, <2>3, <2>4, SubmitTrialInv DEF TypeInv
<1> QED
  BY <1>1, <1>2, <1>3, <1>4, <1>5, <1>6, StepCases, PerformTrials, PolledInv, DrainInv, AskInv, ImportsInv
     DEF TypeInv

\* A value belongs to a run recorded for its trial: what TrialInv says of the
\* trials alone, once the events still to perform are left out.
LEMMA ValuesBelong ==
  ASSUME TypeInv, TrialInv
  PROVE  ResultOfItsJob
<1> SUFFICES ASSUME NEW n \in Trials, trial[n].state = "done", trial[n].value > 0,
                    NEW o, o = IF Dup(n) THEN trial[n].of ELSE n
             PROVE  /\ trial[n].value \in trial[o].submits
                    /\ trial[n].value = trial[o].value
                    /\ job[trial[n].value].state \notin Active
  BY DEF ResultOfItsJob
<1>1. o \in Trials /\ trial[o].of = 0 /\ trial[o].state = "done" /\ trial[o].value = trial[n].value
  <2>1. CASE Dup(n)
    BY <2>1 DEF Dup, TrialInv, DupsFollow, OriginalOf, Follows, Trials
  <2>2. CASE ~Dup(n)
    BY <2>2 DEF Dup
  <2> QED
    BY <2>1, <2>2
<1>2. trial[o].value \in trial[o].submits \cap OverJobs
  BY <1>1 DEF TrialInv, ValuesOwn, OwnValue
<1> QED
  BY <1>1, <1>2 DEF OverJobs, Over, Active

\* There is no trial at first.
LEMMA TrialsInit == Init => TrialInv
<1> SUFFICES ASSUME Init PROVE TrialInv
  OBVIOUS
<1>1. Trials = {} /\ TrialEvents = {}
  BY DEF Init, Trials, TrialEvents
<1> QED
  BY <1>1 DEF TrialInv, TrialsStand, ValuesOwn, DupsFollow

\* What the store says of trials, and what is left to record of them, fits
\* together at every moment, across stops, preemptions and late results.
THEOREM TrialsConsistent == Spec => [](TypeInv /\ TrialInv)
<1>1. Init => TrialInv
  BY TrialsInit
<1>2. TypeInv /\ TypeInv' /\ TrialInv /\ [Next]_vars => TrialInv'
  BY TrialStep
<1> QED
  BY <1>1, <1>2, OptimizerTypes, PTL DEF Spec

\* A trial's value comes from the metrics of a job that was recorded for it, or
\* for the trial it duplicates, and that is over (evaluate_run compares job ids):
\* for any number of jobs, trials, faults and restarts.
THEOREM ResultsBelong == Spec => []ResultOfItsJob
<1>1. TypeInv /\ TrialInv => ResultOfItsJob
  BY ValuesBelong
<1> QED
  BY <1>1, TrialsConsistent, PTL

-----------------------------------------------------------------------------
(***************************************************************************)
(* The study and the store tell one story.                                 *)
(***************************************************************************)
\* A value is told of a number that the store has done with, or never knew.
LEMMA PerformStudy ==
  ASSUME TypeInv, TypeInv', TrialInv, StudyInv, Perform
  PROVE  StudyInv'
<1> USE DEF TypeInv
<1> DEFINE e == todo[1]
           n == e.n
<1>1. e.op = Head(todo).op /\ e = Head(todo) /\ 1 \in DOMAIN todo
  BY Rest
<1>2. \A i \in DOMAIN todo' : i \in Nat \ {0} /\ i + 1 \in DOMAIN todo /\ todo'[i] = todo[i + 1] /\ i + 1 # 1
  BY Rest
<1>3. \A i \in TrialEvents' : i + 1 \in TrialEvents /\ todo'[i] = todo[i + 1] /\ i \in Nat \ {0}
  BY Rest
<1>4. \A i \in DOMAIN todo : i \in Nat \ {0}
  BY DEF OptimizerTypeOK, TodoOK
\* a value still to tell that is told after its record, or of a record not in question
<1>5. ASSUME NEW i \in DOMAIN todo', todo'[i].op = "tell", todo[i + 1].n \in Trials => todo[i + 1].n \in Trials',
             NEW m, m = todo[i + 1].n,
             \/ /\ i # 1 /\ todo[i].op = "trial" /\ todo[i].n = m
                /\ todo[i].rec.state \in Final /\ todo[i].rec.value = todo[i + 1].value
             \/ m \in Trials' /\ trial'[m].state \in Final /\ trial'[m].value = todo[i + 1].value
             \/ m \notin Trials' /\ \A j \in TrialEvents : todo[j].n # m
      PROVE  TellOK(i)'
  <2>1. todo'[i] = todo[i + 1] /\ i + 1 \in DOMAIN todo /\ i \in Nat \ {0}
    BY <1>2
  <2>2. \A j \in TrialEvents : i + 1 < j => todo[j].n # m
    BY <1>5, <2>1 DEF StudyInv, TellsFollow, TellOK
  <2>3. \A j \in TrialEvents' : i < j => todo'[j].n # m
    <3> SUFFICES ASSUME NEW j \in TrialEvents', i < j
                 PROVE  todo'[j].n # m
      OBVIOUS
    <3>1. j + 1 \in TrialEvents /\ todo'[j] = todo[j + 1] /\ j \in Nat /\ i + 1 < j + 1
      BY <1>3, <2>1
    <3> QED
      BY <2>2, <3>1
  <2>4. i # 1 => i - 1 \in DOMAIN todo' /\ todo'[i - 1] = todo[i]
    BY <2>1, Rest
  <2>5. (\A j \in TrialEvents : todo[j].n # m) => \A j \in TrialEvents' : todo'[j].n # m
    BY <1>3
  <2> QED
    BY <1>5, <2>1, <2>3, <2>4, <2>5 DEF TellOK
<1>6. ASSUME NEW i \in DOMAIN todo', todo'[i].op = "tell", NEW m, m = todo[i + 1].n
      PROVE  \/ /\ i # 1 /\ todo[i].op = "trial" /\ todo[i].n = m
                /\ todo[i].rec.state \in Final /\ todo[i].rec.value = todo[i + 1].value
             \/ /\ i = 1 /\ e.op = "trial" /\ n = m /\ e.rec.state \in Final /\ e.rec.value = todo[i + 1].value
             \/ m \in Trials /\ trial[m].state \in Final /\ trial[m].value = todo[i + 1].value
             \/ m \notin Trials /\ \A j \in TrialEvents : todo[j].n # m
  <2>1. todo'[i] = todo[i + 1] /\ i + 1 \in DOMAIN todo /\ i \in Nat \ {0} /\ (i + 1) - 1 = i
    BY <1>2
  <2> QED
    BY <1>6, <2>1 DEF StudyInv, TellsFollow, TellOK
<1>7. CASE e.op = "trial"
  <2>1. /\ 1 \in TrialEvents /\ Trials' = Trials \cup {n} /\ trial'[n] = e.rec
        /\ \A m \in Trials : m # n => trial'[m] = trial[m]
    BY <1>7, RecordKept
  <2>2. study' = study
    BY <1>1, <1>7 DEF Perform
  <2>3. n \in Trials => trial[n].state \notin Final
    BY <2>1 DEF TrialInv, TrialsStand
  <2>4. StudyTold'
    <3>1. study[n].state = "complete" => e.rec.state \in Final /\ study[n].value = e.rec.value
      BY <2>1 DEF StudyInv, EventsTold
    <3> HIDE DEF n
    <3> QED
      BY <2>1, <2>2, <3>1 DEF StudyInv, StudyTold
  <2>5. EventsTold' /\ ImportsTold'
    BY <1>3, <2>2 DEF StudyInv, EventsTold, ImportsTold
  <2>6. TellsFollow'
    <3> SUFFICES ASSUME NEW i \in DOMAIN todo', todo'[i].op = "tell"
                 PROVE  TellOK(i)'
      BY DEF TellsFollow
    <3> DEFINE m == todo[i + 1].n
    <3>1. \/ /\ i # 1 /\ todo[i].op = "trial" /\ todo[i].n = m
             /\ todo[i].rec.state \in Final /\ todo[i].rec.value = todo[i + 1].value
          \/ n = m /\ e.rec.state \in Final /\ e.rec.value = todo[i + 1].value
          \/ m \in Trials /\ trial[m].state \in Final /\ trial[m].value = todo[i + 1].value
          \/ m \notin Trials /\ \A j \in TrialEvents : todo[j].n # m
      BY <1>6
    <3> HIDE DEF m, n
    <3>2. \/ /\ i # 1 /\ todo[i].op = "trial" /\ todo[i].n = m
             /\ todo[i].rec.state \in Final /\ todo[i].rec.value = todo[i + 1].value
          \/ m \in Trials' /\ trial'[m].state \in Final /\ trial'[m].value = todo[i + 1].value
          \/ m \notin Trials' /\ \A j \in TrialEvents : todo[j].n # m
      BY <2>1, <2>3, <3>1 DEF n
    <3> QED
      BY <1>5, <2>1, <3>2 DEF m
  <2> QED
    BY <2>4, <2>5, <2>6 DEF StudyInv
<1>8. CASE e.op # "trial"
  <2>1. trial' = trial /\ Trials' = Trials
    BY <1>1, <1>8 DEF Perform, Trials
  <2>2. TellsFollow'
    <3> SUFFICES ASSUME NEW i \in DOMAIN todo', todo'[i].op = "tell"
                 PROVE  TellOK(i)'
      BY DEF TellsFollow
    <3> QED
      BY <1>5, <1>6, <1>8, <2>1
  <2>3. CASE e.op # "tell"
    <3>1. study' = study
      BY <1>1, <2>3 DEF Perform
    <3> QED
      BY <1>3, <2>1, <2>2, <3>1 DEF StudyInv, StudyTold, EventsTold, ImportsTold
  <2>4. CASE e.op = "tell"
    <3>1. n \in DOMAIN study /\ study[n] \in StudyRec
      BY <1>1, <2>4 DEF OptimizerTypeOK, TodoOK, StoreOK
    <3>2. /\ \A m \in DOMAIN study : m # n => study'[m] = study[m]
          /\ DOMAIN study' = DOMAIN study /\ study'[n].from = study[n].from
          /\ study[n].state = "complete" => study'[n] = study[n]
          /\ study'[n] = study[n] \/ study'[n].value = e.value
      <4>1. study' = IF study[n].state = "running"
                     THEN [study EXCEPT ![n].state = "complete", ![n].value = e.value] ELSE study
        BY <1>1, <2>4 DEF Perform, TellStudy
      <4> HIDE DEF n, e
      <4>2. CASE study[n].state = "running"
        <5>1. study' = [study EXCEPT ![n] = [study[n] EXCEPT !.state = "complete", !.value = e.value]]
          BY <4>1, <4>2
        <5>2. [study[n] EXCEPT !.state = "complete", !.value = e.value].value = e.value
              /\ [study[n] EXCEPT !.state = "complete", !.value = e.value].from = study[n].from
          BY <3>1 DEF StudyRec
        <5>3. study \in Seq(StudyRec)
          BY DEF OptimizerTypeOK, StoreOK
        <5> QED
          BY <3>1, <4>2, <5>1, <5>2, <5>3
      <4>3. CASE study[n].state # "running"
        BY <4>1, <4>3
      <4> QED
        BY <4>2, <4>3
    <3>3. /\ \A j \in TrialEvents : 1 < j => todo[j].n # n
          /\ \/ n \in Trials /\ trial[n].state \in Final /\ trial[n].value = e.value
             \/ n \notin Trials
      BY <1>1, <2>4 DEF StudyInv, TellsFollow, TellOK
    <3>4. StudyTold'
      <4> SUFFICES ASSUME NEW m \in Trials, study'[m].state = "complete"
                   PROVE  trial[m].state \in Final /\ study'[m].value = trial[m].value
        BY <2>1 DEF StudyTold
      <4>1. CASE m = n /\ study'[n] # study[n]
        BY <3>2, <3>3, <4>1
      <4>2. CASE study'[m] = study[m]
        BY <4>2 DEF StudyInv, StudyTold
      <4>3. m \in DOMAIN study
        BY DEF OptimizerTypeOK, StoreOK
      <4> QED
        BY <3>2, <4>1, <4>2, <4>3
    <3>5. EventsTold'
      <4> SUFFICES ASSUME NEW i \in TrialEvents', study'[todo'[i].n].state = "complete"
                   PROVE  todo'[i].rec.state \in Final /\ todo'[i].rec.value = study'[todo'[i].n].value
        BY DEF EventsTold
      <4>1. i + 1 \in TrialEvents /\ todo'[i] = todo[i + 1] /\ 1 < i + 1
        BY <1>3
      <4>2. todo[i + 1].n \in DOMAIN study /\ todo[i + 1].n # n
        BY <3>3, <4>1 DEF OptimizerTypeOK, TodoOK, TrialEvents
      <4> QED
        BY <3>2, <4>1, <4>2 DEF StudyInv, EventsTold
    <3>6. ImportsTold'
      BY <3>1, <3>2 DEF StudyInv, ImportsTold
    <3> QED
      BY <2>2, <3>4, <3>5, <3>6 DEF StudyInv
  <2> QED
    BY <2>3, <2>4
<1> QED
  BY <1>7, <1>8

\* Handlers that leave the study as it is, and no event of a number that is over.
LEMMA StudyKept ==
  ASSUME TypeInv, TypeInv', StudyInv, trial' = trial, study' = study,
         \A i \in TrialEvents' : todo'[i].n \in Trials /\ trial[todo'[i].n].state \notin Final,
         TellsFollow'
  PROVE  StudyInv'
<1>1. Trials' = Trials
  BY DEF Trials
<1>2. StudyTold' /\ ImportsTold'
  BY <1>1 DEF StudyInv, StudyTold, ImportsTold
<1>3. EventsTold'
  BY DEF StudyInv, StudyTold, EventsTold
<1> QED
  BY <1>2, <1>3 DEF StudyInv

\* Nothing to record and nothing to tell.
LEMMA StudyQuiet ==
  ASSUME TypeInv, TypeInv', StudyInv, trial' = trial, study' = study,
         \A i \in DOMAIN todo' : todo'[i].op \notin {"trial", "tell"}
  PROVE  StudyInv'
<1>1. TrialEvents' = {} /\ TellsFollow'
  BY DEF TrialEvents, TellsFollow
<1> QED
  BY <1>1, StudyKept

\* Submitting a trial keeps what the study was told.
LEMMA SubmitTrialStudy ==
  ASSUME TypeInv, TypeInv', StudyInv, trial' = trial, study' = study, todo = << >>,
         NEW n \in Trials, NEW a, NEW l, NEW done, NEW failed,
         trial[n].state \in {"new", "submitted"}, submit_trial(n, a, l, done, failed)
  PROVE  StudyInv'
<1>1. CASE todo' = << >>
  BY <1>1, StudyQuiet
<1>2. ASSUME NEW j \in Unused, todo' = <<Emit(n, AsSubmitted(trial[n], j, a))>>
      PROVE  StudyInv'
  <2> DEFINE e == Emit(n, AsSubmitted(trial[n], j, a))
  <2>1. e.op = "trial" /\ e.n = n /\ todo' = <<e>>
    BY <1>2 DEF Emit
  <2> HIDE DEF e
  <2>2. TrialEvents' = {1} /\ todo'[1] = e /\ DOMAIN todo' = {1}
    BY <2>1 DEF TrialEvents
  <2>3. TellsFollow'
    BY <2>1, <2>2 DEF TellsFollow
  <2> QED
    BY <2>1, <2>2, <2>3, StudyKept DEF Final
<1> QED
  BY <1>1, <1>2, SubmittedTrialOnly

\* An end and its word agree.
LEMMA EndsStudy ==
  ASSUME TypeInv, TypeInv', StudyInv, trial' = trial, study' = study,
         NEW k, NEW ns, NEW ev, EndsOf(todo', k, ns, ev),
         \A m \in 1 .. k : trial[ns[m]].state \in {"submitted", "dup"}
  PROVE  StudyInv'
<1>1. /\ k \in Nat /\ \A m \in 1 .. k : ns[m] \in Trials /\ trial[ns[m]] \in TrialRec
      /\ \A b, c \in 1 .. k : ns[b] = ns[c] => b = c
  BY DEF EndsOf, TypeInv, OptimizerTypeOK, StoreOK
<1>2. \A i \in TrialEvents' : \E m \in 1 .. k : i = 2 * m - 1 /\ todo'[i].n = ns[m]
  <2> SUFFICES ASSUME NEW i \in TrialEvents'
               PROVE  \E m \in 1 .. k : i = 2 * m - 1 /\ todo'[i].n = ns[m]
    OBVIOUS
  <2>1. i \in DOMAIN todo' /\ todo'[i].op = "trial"
    BY DEF TrialEvents
  <2> QED
    BY <2>1, EndsOps
<1>3. ASSUME NEW i \in DOMAIN todo', todo'[i].op = "tell"
      PROVE  TellOK(i)'
  <2>1. PICK m \in 1 .. k : i = 2 * m /\ todo'[i].n = ns[m] /\ todo'[i].value = ev.value
    BY <1>3, EndsOps
  <2>2. /\ i - 1 = 2 * m - 1 /\ i # 1
        /\ todo'[i - 1].op = "trial" /\ todo'[i - 1].n = ns[m] /\ todo'[i - 1].rec = Done(trial[ns[m]], ev)
    BY <2>1 DEF EndsOf
  <2>3. Done(trial[ns[m]], ev).state = "done" /\ Done(trial[ns[m]], ev).value = ev.value
    BY <1>1 DEF Done, TrialRec
  <2>4. ASSUME NEW j \in TrialEvents', i < j, todo'[j].n = ns[m]
        PROVE  FALSE
    <3>1. PICK q \in 1 .. k : j = 2 * q - 1 /\ todo'[j].n = ns[q]
      BY <1>2
    <3>2. q = m
      BY <1>1, <2>4, <3>1
    <3> QED
      BY <1>1, <2>1, <2>4, <3>1, <3>2
  <2> QED
    BY <2>1, <2>2, <2>3, <2>4 DEF TellOK, Final
<1> QED
  BY <1>1, <1>2, <1>3, StudyKept DEF TellsFollow, Final

\* A number appended to the study, for an import or for a new trial.
LEMMA StudyGrows ==
  ASSUME StoreOK, NEW r \in StudyRec, study' = Append(study, r)
  PROVE  /\ Len(study) + 1 \notin DOMAIN study /\ DOMAIN study' = DOMAIN study \cup {Len(study) + 1}
         /\ study'[Len(study) + 1] = r /\ \A n \in DOMAIN study : study'[n] = study[n]
BY DEF StoreOK

\* An import agrees with the study that has it.
LEMMA ImportsStudy ==
  ASSUME TypeInv, TypeInv', StudyInv, repair_imports \/ import_trials
  PROVE  StudyInv'
<1> USE DEF TypeInv, OptimizerTypeOK
<1>1. /\ trial' = trial /\ Trials' = Trials
      /\ \A i \in DOMAIN todo' :
           /\ todo'[i].op = "trial" /\ todo'[i].n \in DOMAIN study'
           /\ study'[todo'[i].n].from \in Legacy /\ todo'[i].rec = ImportRec(study'[todo'[i].n].from)
  BY ImportedEvents DEF Trials
<1>2. /\ \A n \in DOMAIN study : study'[n] = study[n]
      /\ ImportsTold'
  <2>1. CASE repair_imports
    <3>1. study' = study
      BY <2>1 DEF repair_imports, store
    <3> QED
      BY <3>1 DEF StudyInv, ImportsTold
  <2>2. CASE import_trials
    <3>1. PICK k \in ToImport : study' = Append(study, [state |-> "complete", value |-> LegacyValue, from |-> k])
      BY <2>2, Imported, Zenon
    <3> DEFINE r == [state |-> "complete", value |-> LegacyValue, from |-> k]
    <3>2. r \in StudyRec /\ r.state = "complete" /\ r.value = LegacyValue /\ study' = Append(study, r)
      BY <3>1 DEF ToImport, StoreOK, StudyRec, LegacyValue
    <3> HIDE DEF r
    <3> QED
      BY <3>2, StudyGrows DEF StudyInv, ImportsTold
  <2> QED
    BY <2>1, <2>2
<1>3. StudyTold'
  BY <1>1, <1>2 DEF StudyInv, StudyTold, StoreOK
<1>4. TellsFollow'
  BY <1>1 DEF TellsFollow
<1>5. EventsTold'
  <2> SUFFICES ASSUME NEW i \in TrialEvents'
               PROVE  todo'[i].rec.state \in Final /\ todo'[i].rec.value = study'[todo'[i].n].value
    BY DEF EventsTold
  <2> DEFINE n == todo'[i].n
             k == study'[n].from
  <2>1. n \in DOMAIN study' /\ k \in Legacy /\ todo'[i].rec = ImportRec(k)
    BY <1>1 DEF TrialEvents
  <2>2. study'[n].value = LegacyValue
    <3>1. k # NoKey
      BY <2>1, OptimizerAssumption
    <3> QED
      BY <1>2, <2>1, <3>1 DEF ImportsTold
  <2> HIDE DEF n, k
  <2>3. ImportRec(k).state = "done" /\ ImportRec(k).value = LegacyValue
    BY <2>1, ImportRecType
  <2> QED
    BY <2>1, <2>2, <2>3 DEF Final, n
<1> QED
  BY <1>2, <1>3, <1>4, <1>5 DEF StudyInv

\* A number that was just asked for has been told nothing.
LEMMA AskStudy ==
  ASSUME TypeInv, TypeInv', StudyInv, new_trial
  PROVE  StudyInv'
<1> USE DEF TypeInv, OptimizerTypeOK
<1> DEFINE n == Len(study) + 1
           r == [state |-> "running", value |-> FAIL_VALUE, from |-> NoKey]
<1>1. study' = Append(study, r) /\ trial' = trial /\ Trials' = Trials
  BY NewAsked DEF Trials
<1>2. r \in StudyRec /\ r.state = "running" /\ r.from = NoKey
  BY DEF StudyRec, FAIL_VALUE
<1>3. PICK k \in Keys : AskedEvents(k)
  BY AskedFits
<1> HIDE DEF r
<1>4. /\ n \notin DOMAIN study /\ DOMAIN study' = DOMAIN study \cup {n} /\ study'[n] = r
      /\ \A m \in DOMAIN study : study'[m] = study[m]
  BY <1>1, <1>2, StudyGrows
<1>5. n \notin Trials
  BY <1>4 DEF StoreOK
<1>6. \A i \in DOMAIN todo' : todo'[i].n = n
  BY <1>3 DEF AskedEvents
<1> HIDE DEF n
<1>7. StudyTold' /\ ImportsTold'
  BY <1>1, <1>2, <1>4 DEF StudyInv, StudyTold, ImportsTold, StoreOK
<1>8. EventsTold'
  BY <1>2, <1>4, <1>6 DEF EventsTold, TrialEvents
<1>9. ASSUME NEW i \in DOMAIN todo', todo'[i].op = "tell"
      PROVE  TellOK(i)'
  <2>1. /\ i # 1 /\ i = Len(todo') /\ todo'[i - 1].op = "trial"
        /\ todo'[i - 1].rec.state \in Final /\ todo'[i - 1].rec.value = todo'[i].value
    BY <1>3, <1>9 DEF AskedEvents
  <2>2. todo' \in Seq(Effects)
    BY DEF TodoOK
  <2>3. \A j \in TrialEvents' : ~(i < j)
    BY <2>1, <2>2 DEF TrialEvents
  <2>4. i - 1 \in DOMAIN todo'
    BY <1>9, <2>1, <2>2
  <2> QED
    BY <1>6, <1>9, <2>1, <2>3, <2>4 DEF TellOK
<1> QED
  BY <1>7, <1>8, <1>9 DEF StudyInv, TellsFollow

\* What the study believes to be running, and the store has done with or lost.
LEMMA ReconcileStudy ==
  ASSUME TypeInv, TypeInv', StudyInv, reconcile
  PROVE  StudyInv'
<1> USE DEF TypeInv, OptimizerTypeOK
<1>1. trial' = trial /\ study' = study /\ Trials' = Trials
  BY DEF reconcile, store, Trials
<1>2. PICK k \in Nat : \E s \in [1 .. k -> ToReconcile] :
        todo' = [i \in 1 .. k |-> Tell(s[i], IF s[i] \in Trials THEN trial[s[i]].value ELSE FAIL_VALUE)]
  BY Reconciled
<1>3. PICK s \in [1 .. k -> ToReconcile] :
        todo' = [i \in 1 .. k |-> Tell(s[i], IF s[i] \in Trials THEN trial[s[i]].value ELSE FAIL_VALUE)]
  BY <1>2
<1>4. \A i \in DOMAIN todo' : /\ todo'[i].op = "tell" /\ todo'[i].n \in ToReconcile
                              /\ todo'[i].n \in Trials => todo'[i].value = trial[todo'[i].n].value
  <2> SUFFICES ASSUME NEW i \in 1 .. k
               PROVE  /\ todo'[i].op = "tell" /\ todo'[i].n \in ToReconcile
                      /\ todo'[i].n \in Trials => todo'[i].value = trial[todo'[i].n].value
    BY <1>3
  <2> DEFINE v == IF s[i] \in Trials THEN trial[s[i]].value ELSE FAIL_VALUE
  <2>1. todo'[i] = Tell(s[i], v) /\ (s[i] \in Trials => v = trial[s[i]].value)
    BY <1>3
  <2> HIDE DEF v
  <2> QED
    BY <2>1, Ops
<1>5. TrialEvents' = {}
  BY <1>4 DEF TrialEvents
<1>6. \A n \in ToReconcile : n \in Trials => trial[n].state \in Final
  BY DEF ToReconcile, Final
<1>7. TellsFollow'
  BY <1>1, <1>4, <1>5, <1>6 DEF TellsFollow, TellOK
<1> QED
  BY <1>1, <1>5, <1>7, StudyKept

\* Every step keeps the agreement of study and store.
LEMMA StudyStep ==
  ASSUME TypeInv, TypeInv', TrialInv, StudyInv, [Next]_vars
  PROVE  StudyInv'
<1>1. StoreOK
  BY DEF TypeInv, OptimizerTypeOK
<1>2. CASE Aside
  <2>1. trial' = trial /\ study' = study /\ todo' = todo
    BY <1>2 DEF Aside
  <2>2. Trials' = Trials /\ TrialEvents' = TrialEvents
    BY <2>1 DEF Trials, TrialEvents
  <2>3. StudyTold' /\ EventsTold' /\ ImportsTold'
    BY <2>1, <2>2 DEF StudyInv, StudyTold, EventsTold, ImportsTold
  <2>4. TellsFollow'
    BY <2>1, <2>2 DEF StudyInv, TellsFollow, TellOK
  <2> QED
    BY <2>3, <2>4 DEF StudyInv
<1>3. CASE Crash \/ LoopError
  <2>1. UNCHANGED store /\ todo' = << >>
    BY <1>3, Zenon DEF Crash, LoopError
  <2>2. trial' = trial /\ study' = study /\ DOMAIN todo' = {}
    BY <2>1 DEF store
  <2> QED
    BY <2>2, StudyQuiet
<1>4. CASE poll_promos \/ fill_full \/ fill_signoff \/ promote_submit \/ maybe_promote
  BY <1>4, PromotionHandlers, StudyQuiet DEF TypeInv
<1>5. CASE fill_new
  <2>1. NewToSubmit \subseteq Nat /\ NewToSubmit # {} /\ NewToSubmit \subseteq Trials
    BY <1>1, <1>5 DEF NewToSubmit, StoreOK, fill_new
  <2>2. Min(NewToSubmit) \in NewToSubmit
    BY <2>1, MinIsLeast
  <2>3. Min(NewToSubmit) \in Trials /\ trial[Min(NewToSubmit)].state = "new"
    BY <2>2 DEF NewToSubmit
  <2>4. trial' = trial /\ study' = study /\ todo = << >> /\ submit_trial(Min(NewToSubmit), 1, loop, "new", "end")
    BY <1>5 DEF fill_new, Here, store
  <2> QED
    BY <2>3, <2>4, SubmitTrialStudy
<1>6. CASE poll_trials
  <2>1. trial' = trial /\ study' = study /\ todo = << >>
    BY <1>6 DEF poll_trials, Here, store
  <2>2. ASSUME NEW n \in InFlight, NEW a, NEW l, submit_trial(n, a, l, "trials", "trials")
        PROVE  StudyInv'
    BY <2>1, <2>2, SubmitTrialStudy DEF InFlight
  <2>3. ASSUME NEW n, NEW k, NEW ns, NEW ev, PolledEnds(n, k, ns, ev)
        PROVE  StudyInv'
    <3>1. EndsOf(todo', k, ns, ev) /\ k \in Nat /\ trial[ns[1]].state = "submitted"
      BY <2>3 DEF PolledEnds, EndsOf, InFlight
    <3>2. \A m \in 1 .. k : m # 1 => m \in 2 .. k
      BY <3>1
    <3>3. \A m \in 1 .. k : trial[ns[m]].state \in {"submitted", "dup"}
      BY <2>3, <3>1, <3>2 DEF PolledEnds
    <3> QED
      BY <2>1, <3>1, <3>3, EndsStudy
  <2> QED
    BY <1>6, <2>1, <2>2, <2>3, PolledTrial, StudyQuiet DEF TypeInv, OptimizerTypeOK
<1>7. CASE drain
  <2>1. trial' = trial /\ study' = study
    BY <1>7 DEF drain, store
  <2>2. PICK k, ns : EndsOf(todo', k, ns, NoMetrics) /\ \A m \in 1 .. k : trial[ns[m]].state = "submitted"
    BY <1>7, Drained DEF TypeInv, OptimizerTypeOK
  <2> HIDE DEF NoMetrics
  <2> QED
    BY <2>1, <2>2, EndsStudy
<1> QED
  BY <1>1, <1>2, <1>3, <1>4, <1>5, <1>6, <1>7, StepCases, PerformStudy, ImportsStudy, AskStudy, ReconcileStudy

\* The study is empty at first.
LEMMA StudyInit == Init => StudyInv
<1> SUFFICES ASSUME Init PROVE StudyInv
  OBVIOUS
<1>1. Trials = {} /\ TrialEvents = {} /\ DOMAIN todo = {} /\ DOMAIN study = {}
  BY DEF Init, Trials, TrialEvents
<1> QED
  BY <1>1 DEF StudyInv, StudyTold, EventsTold, TellsFollow, ImportsTold

\* What the study was told, and what is left to tell it, is what the store says.
THEOREM StudyFollows == Spec => [](TypeInv /\ TrialInv /\ StudyInv)
<1>1. Init => StudyInv
  BY StudyInit
<1>2. TypeInv /\ TypeInv' /\ TrialInv /\ StudyInv /\ [Next]_vars => StudyInv'
  BY StudyStep
<1> QED
  BY <1>1, <1>2, TrialsConsistent, PTL DEF Spec

\* What the study calls complete is over in the store, with the value the study
\* was told: the driver may stop between the store and the study, and between
\* any two of the values it tells (reconcile).
THEOREM StudyAndStoreAgree == Spec => []StudyAgrees
<1>1. TypeInv /\ StudyInv => StudyAgrees
  BY DEF StudyInv, StudyTold, StudyAgrees, Final
<1> QED
  BY <1>1, StudyFollows, PTL

-----------------------------------------------------------------------------
(***************************************************************************)
(* The places of the driver's loop, in order.                              *)
(***************************************************************************)
LEMMA PlacesInOrder ==
  /\ DOMAIN Places = 1 .. 17
  /\ Places[1] = "repair" /\ Places[2] = "import" /\ Places[3] = "reconcile" /\ Places[4] = "list"
  /\ Places[5] = "rescan" /\ Places[6] = "rescanned" /\ Places[7] = "trials" /\ Places[8] = "promos"
  /\ Places[9] = "reimport" /\ Places[10] = "stop" /\ Places[11] = "full" /\ Places[12] = "signoff"
  /\ Places[13] = "promote" /\ Places[14] = "promoted" /\ Places[15] = "new" /\ Places[16] = "ask"
  /\ Places[17] = "end"
BY DEF Places

\* Every place has one number; those that matter here, and what comes where.
LEMMA PlaceNumbers ==
  /\ PlaceNumber("repair") = 1 /\ PlaceNumber("rescan") = 5 /\ PlaceNumber("trials") = 7 /\ PlaceNumber("new") = 15
  /\ PlaceNumber("ask") = 16 /\ PlaceNumber("end") = 17
  /\ \A i \in 1 .. 17 : Places[i] \notin {"down", "finished"}
  /\ \A i \in 5 .. 16 : Places[i] \notin {"repair", "import"}
<1>1. \A i \in DOMAIN Places : i \in {1, 2, 3, 4, 5, 6, 7, 8, 9, 10, 11, 12, 13, 14, 15, 16, 17}
  <2>1. DOMAIN Places = 1 .. 17
    BY PlacesInOrder, Zenon
  <2>2. \A i \in 1 .. 17 : i \in {1, 2, 3, 4, 5, 6, 7, 8, 9, 10, 11, 12, 13, 14, 15, 16, 17}
    OBVIOUS
  <2> QED
    BY <2>1, <2>2
<1>2. \A i \in DOMAIN Places :
        /\ Places[i] = "repair" => i = 1
        /\ Places[i] = "rescan" => i = 5
        /\ Places[i] = "trials" => i = 7
        /\ Places[i] = "new" => i = 15
        /\ Places[i] = "ask" => i = 16
        /\ Places[i] = "end" => i = 17
        /\ Places[i] = "import" => i = 2
        /\ Places[i] \notin {"down", "finished"}
  BY <1>1, PlacesInOrder, Zenon
<1>3. DOMAIN Places = 1 .. 17
  BY PlacesInOrder, Zenon
<1>4. ASSUME NEW x, NEW n \in DOMAIN Places, Places[n] = x, \A i \in DOMAIN Places : Places[i] = x => i = n
      PROVE  PlaceNumber(x) = n
  BY <1>4 DEF PlaceNumber
<1>5. PlaceNumber("repair") = 1
  <2>1. Places[1] = "repair"
    BY PlacesInOrder, Zenon
  <2>2. \A i \in DOMAIN Places : Places[i] = "repair" => i = 1
    BY <1>2, Zenon
  <2>3. 1 \in DOMAIN Places
    BY <1>3
  <2> QED
    BY <1>4, <2>1, <2>2, <2>3
<1>13. PlaceNumber("rescan") = 5
  <2>1. Places[5] = "rescan"
    BY PlacesInOrder, Zenon
  <2>2. \A i \in DOMAIN Places : Places[i] = "rescan" => i = 5
    BY <1>2, Zenon
  <2>3. 5 \in DOMAIN Places
    BY <1>3
  <2> QED
    BY <1>4, <2>1, <2>2, <2>3
<1>6. PlaceNumber("trials") = 7
  <2>1. Places[7] = "trials"
    BY PlacesInOrder, Zenon
  <2>2. \A i \in DOMAIN Places : Places[i] = "trials" => i = 7
    BY <1>2, Zenon
  <2>3. 7 \in DOMAIN Places
    BY <1>3
  <2> QED
    BY <1>4, <2>1, <2>2, <2>3
<1>7. PlaceNumber("new") = 15
  <2>1. Places[15] = "new"
    BY PlacesInOrder, Zenon
  <2>2. \A i \in DOMAIN Places : Places[i] = "new" => i = 15
    BY <1>2, Zenon
  <2>3. 15 \in DOMAIN Places
    BY <1>3
  <2> QED
    BY <1>4, <2>1, <2>2, <2>3
<1>8. PlaceNumber("ask") = 16
  <2>1. Places[16] = "ask"
    BY PlacesInOrder, Zenon
  <2>2. \A i \in DOMAIN Places : Places[i] = "ask" => i = 16
    BY <1>2, Zenon
  <2>3. 16 \in DOMAIN Places
    BY <1>3
  <2> QED
    BY <1>4, <2>1, <2>2, <2>3
<1>9. PlaceNumber("end") = 17
  <2>1. Places[17] = "end"
    BY PlacesInOrder, Zenon
  <2>2. \A i \in DOMAIN Places : Places[i] = "end" => i = 17
    BY <1>2, Zenon
  <2>3. 17 \in DOMAIN Places
    BY <1>3
  <2> QED
    BY <1>4, <2>1, <2>2, <2>3
<1>10. \A i \in 1 .. 17 : Places[i] \notin {"down", "finished"}
  BY <1>2, <1>3, Zenon
<1>11. \A i \in 5 .. 16 : i \in DOMAIN Places /\ i # 1 /\ i # 2
  BY <1>3
<1>12. \A i \in 5 .. 16 : Places[i] \notin {"repair", "import"}
  BY <1>2, <1>11, Zenon
<1> QED
  BY <1>5, <1>6, <1>7, <1>8, <1>9, <1>10, <1>12, <1>13, Zenon

\* A place has one number.
LEMMA NumberOfPlace ==
  ASSUME NEW i \in 1 .. 17
  PROVE  PlaceNumber(Places[i]) \in 1 .. 17 /\ Places[PlaceNumber(Places[i])] = Places[i]
<1>1. DOMAIN Places = 1 .. 17
  BY PlacesInOrder, Zenon
<1> QED
  BY <1>1 DEF PlaceNumber

\* A handler is at work with nothing left to do, and past the repair of imports.
LEMMA HereIs ==
  ASSUME NEW i \in 1 .. 17, Here(Places[i])
  PROVE  /\ todo = << >> /\ at \notin {"down", "finished"}
         /\ at = "repair" /\ Places[i] # "repair" => UnknownImports = {}
<1>1. PlaceNumber(Places[i]) \in 1 .. 17 /\ Places[PlaceNumber(Places[i])] = Places[i]
  BY NumberOfPlace
<1>2. PICK j \in 1 .. PlaceNumber(Places[i]) : at = Places[j]
  BY DEF Here
<1>3. at \notin {"down", "finished"}
  BY <1>1, <1>2, PlaceNumbers
<1>4. ASSUME at = "repair", Places[i] # "repair"
      PROVE  UnknownImports = {}
  <2>1. Places[1] = "repair"
    BY PlacesInOrder, Zenon
  <2>2. PlaceNumber(Places[i]) # 1 /\ PlaceNumber(at) = 1
    BY <1>1, <1>4, <2>1, PlaceNumbers, Zenon
  <2>3. 1 \in PlaceNumber(at) .. PlaceNumber(Places[i]) - 1
    BY <1>1, <2>2
  <2>4. Nothing("repair")
    BY <2>1, <2>3, Zenon DEF Here
  <2> QED
    BY <2>4 DEF Nothing
<1> QED
  BY <1>3, <1>4 DEF Here

\* A handler begins with no effects left, and not before imports were repaired.
LEMMA HandlersPast ==
  ASSUME \/ reconcile \/ poll_trials \/ poll_promos \/ drain \/ fill_full \/ fill_signoff
         \/ maybe_promote \/ promote_submit \/ fill_new \/ new_trial \/ import_trials
         \/ Here("rescan") \/ Here("list") \/ Here("end")
  PROVE  todo = << >> /\ at # "down" /\ (at = "repair" => UnknownImports = {})
<1>1. CASE promote_submit
  BY <1>1 DEF promote_submit
<1>2. ASSUME NEW i \in 2 .. 17, Here(Places[i])
      PROVE  todo = << >> /\ at # "down" /\ (at = "repair" => UnknownImports = {})
  <2>1. i \in 1 .. 17 /\ Places[i] # "repair"
    <3>1. i \in 1 .. 17 /\ i # 1
      OBVIOUS
    <3>2. PlaceNumber(Places[i]) \in 1 .. 17 /\ Places[PlaceNumber(Places[i])] = Places[i]
      BY <3>1, NumberOfPlace
    <3>3. \A j \in 5 .. 16 : Places[j] # "repair"
      BY PlaceNumbers
    <3>4. i \in 5 .. 16 \/ i = 2 \/ i = 3 \/ i = 4 \/ i = 17
      OBVIOUS
    <3>5. Places[2] # "repair" /\ Places[3] # "repair" /\ Places[4] # "repair" /\ Places[17] # "repair"
      BY PlacesInOrder, Zenon
    <3> QED
      BY <3>1, <3>3, <3>4, <3>5, Zenon
  <2> QED
    BY <1>2, <2>1, HereIs
<1>3. ASSUME NEW p, \E i \in {2, 3, 4, 5, 6, 7, 8, 9, 10, 11, 12, 13, 14, 15, 16, 17} : p = Places[i], Here(p)
      PROVE  todo = << >> /\ at # "down" /\ (at = "repair" => UnknownImports = {})
  <2>1. \A i \in {2, 3, 4, 5, 6, 7, 8, 9, 10, 11, 12, 13, 14, 15, 16, 17} : i \in 2 .. 17
    OBVIOUS
  <2> QED
    BY <1>2, <1>3, <2>1
<1>4. CASE reconcile
  <2>1. Here("reconcile")
    BY <1>4 DEF reconcile
  <2> QED
    BY <1>3, <2>1, PlacesInOrder, Zenon
<1>5. CASE poll_trials
  <2>1. Here("trials")
    BY <1>5 DEF poll_trials
  <2> QED
    BY <1>3, <2>1, PlacesInOrder, Zenon
<1>6. CASE poll_promos
  <2>1. Here("promos")
    BY <1>6 DEF poll_promos
  <2> QED
    BY <1>3, <2>1, PlacesInOrder, Zenon
<1>7. CASE drain
  <2>1. Here("stop")
    BY <1>7 DEF drain
  <2> QED
    BY <1>3, <2>1, PlacesInOrder, Zenon
<1>8. CASE fill_full
  <2>1. Here("full")
    BY <1>8 DEF fill_full
  <2> QED
    BY <1>3, <2>1, PlacesInOrder, Zenon
<1>9. CASE fill_signoff
  <2>1. Here("signoff")
    BY <1>9 DEF fill_signoff
  <2> QED
    BY <1>3, <2>1, PlacesInOrder, Zenon
<1>10. CASE maybe_promote
  <2>1. Here("promote")
    BY <1>10 DEF maybe_promote
  <2> QED
    BY <1>3, <2>1, PlacesInOrder, Zenon
<1>11. CASE fill_new
  <2>1. Here("new")
    BY <1>11 DEF fill_new
  <2> QED
    BY <1>3, <2>1, PlacesInOrder, Zenon
<1>12. CASE new_trial
  <2>1. Here("ask")
    BY <1>12 DEF new_trial
  <2> QED
    BY <1>3, <2>1, PlacesInOrder, Zenon
<1>13. CASE import_trials
  <2>1. Here("import") \/ Here("rescanned") \/ Here("reimport")
    BY <1>13, Zenon DEF import_trials
  <2> QED
    BY <1>3, <2>1, PlacesInOrder, Zenon
<1>14. CASE Here("rescan") \/ Here("list") \/ Here("end")
  BY <1>3, <1>14, PlacesInOrder, Zenon
<1> QED
  BY <1>1, <1>4, <1>5, <1>6, <1>7, <1>8, <1>9, <1>10, <1>11, <1>12, <1>13, <1>14

-----------------------------------------------------------------------------
(***************************************************************************)
(* Imports.                                                                *)
(***************************************************************************)
\* Only a stop and an exception are counted, and only an exception between an
\* import's study and its store tears it.
LEMMA StopsCounted ==
  ASSUME TypeInv, [Next]_vars
  PROVE  \/ torn' = torn /\ crashes' = crashes
         \/ Crash /\ torn' = torn /\ crashes' = crashes + 1
         \/ LoopError /\ torn' = (torn \/ at \in {"rescanned", "reimport"}) /\ crashes' = crashes + 1
<1> USE DEF TypeInv, OptimizerTypeOK
<1>1. ASSUME Aside
      PROVE  torn' = torn /\ crashes' = crashes
  BY <1>1 DEF Aside
<1>2. ASSUME Perform \/ repair_imports \/ import_trials \/ reconcile \/ drain \/ maybe_promote
      PROVE  torn' = torn /\ crashes' = crashes
  <2>1. CASE Perform
    BY <2>1 DEF Perform, env
  <2>3. CASE repair_imports
    BY <2>3 DEF repair_imports, env
  <2>4. CASE import_trials
    BY <2>4, Imported, Zenon DEF env
  <2>5. CASE reconcile
    BY <2>5 DEF reconcile, env
  <2>6. CASE drain
    BY <2>6 DEF drain, env
  <2>7. CASE maybe_promote
    BY <2>7, PromotionHandlers
  <2> QED
    BY <1>2, <2>1, <2>3, <2>4, <2>5, <2>6, <2>7, Zenon
<1>9. CASE Crash
  BY <1>9, Zenon DEF Crash
<1>3. CASE LoopError
  BY <1>3, Zenon DEF LoopError
<1>4. ASSUME poll_promos \/ fill_full \/ fill_signoff \/ promote_submit
      PROVE  torn' = torn /\ crashes' = crashes
  BY <1>4, PromotionHandlers
<1>5. ASSUME NEW n, NEW a, NEW l, NEW done, NEW failed, submit_trial(n, a, l, done, failed)
      PROVE  torn' = torn /\ crashes' = crashes
  <2> DEFINE d == FlowDir("fast", trial[n].key)
             events == [j \in Jobs |-> <<Emit(n, [trial[n] EXCEPT !.state = "submitted", !.job = j, !.attempt = a,
                                                                  !.submits = @ \cup {j}])>>]
  <2>1. Submit(d, events, l, done, failed)
    BY <1>5, Zenon DEF submit_trial
  <2> HIDE DEF d, events
  <2> QED
    BY <2>1, Submitted
<1>6. ASSUME poll_trials
      PROVE  torn' = torn /\ crashes' = crashes
  BY <1>5, <1>6, PolledTrial DEF env
<1>7. ASSUME fill_new
      PROVE  torn' = torn /\ crashes' = crashes
  BY <1>5, <1>7 DEF fill_new
<1>8. ASSUME new_trial
      PROVE  torn' = torn /\ crashes' = crashes
  BY <1>8, NewAsked DEF env
<1> QED
  BY <1>1, <1>2, <1>9, <1>3, <1>4, <1>6, <1>7, <1>8, StepCases, Zenon

\* What the study is told leaves where its numbers come from.
LEMMA PerformFrom ==
  ASSUME TypeInv, Perform
  PROVE  DOMAIN study' = DOMAIN study /\ \A n \in DOMAIN study : study'[n].from = study[n].from
<1> USE DEF TypeInv, OptimizerTypeOK
<1> DEFINE e == todo[1]
<1>1. e = Head(todo) /\ 1 \in DOMAIN todo
  BY Rest
<1>2. CASE e.op # "tell"
  BY <1>1, <1>2 DEF Perform
<1>3. CASE e.op = "tell"
  <2>1. e.n \in DOMAIN study /\ study[e.n] \in StudyRec /\ study \in Seq(StudyRec)
    BY <1>1, <1>3 DEF TodoOK, StoreOK
  <2>2. study' = IF study[e.n].state = "running"
                 THEN [study EXCEPT ![e.n].state = "complete", ![e.n].value = e.value] ELSE study
    BY <1>1, <1>3 DEF Perform, TellStudy
  <2> HIDE DEF e
  <2>3. CASE study[e.n].state = "running"
    <3>1. study' = [study EXCEPT ![e.n] = [study[e.n] EXCEPT !.state = "complete", !.value = e.value]]
      BY <2>2, <2>3
    <3>2. [study[e.n] EXCEPT !.state = "complete", !.value = e.value].from = study[e.n].from
      BY <2>1 DEF StudyRec
    <3> QED
      BY <2>1, <3>1, <3>2
  <2>4. CASE study[e.n].state # "running"
    BY <2>2, <2>4
  <2> QED
    BY <2>3, <2>4
<1> QED
  BY <1>2, <1>3

\* Without new numbers and events, records and study name the same imports.
LEMMA FromKept ==
  ASSUME StoreOK, FromSame, trial' = trial, \A n \in DOMAIN study : study'[n].from = study[n].from,
         \A i \in TrialEvents' : todo'[i].rec.from = study'[todo'[i].n].from
  PROVE  FromSame'
BY DEF FromSame, StoreOK, Trials

\* A submission keeps where a trial comes from.
LEMMA SubmitTrialFrom ==
  ASSUME TypeInv, FromSame, trial' = trial, study' = study, todo = << >>,
         NEW n \in Trials, NEW a, NEW l, NEW done, NEW failed, submit_trial(n, a, l, done, failed)
  PROVE  FromSame'
<1>1. CASE todo' = << >>
  BY <1>1, TodoEmpty, FromKept DEF TypeInv, OptimizerTypeOK
<1>2. ASSUME NEW j \in Unused, todo' = <<Emit(n, AsSubmitted(trial[n], j, a))>>
      PROVE  FromSame'
  <2>1. AsSubmitted(trial[n], j, a).from = trial[n].from
    BY DEF AsSubmitted, TrialRec, TypeInv, OptimizerTypeOK, StoreOK
  <2> DEFINE e == Emit(n, AsSubmitted(trial[n], j, a))
  <2>2. e.op = "trial" /\ e.n = n /\ e.rec.from = trial[n].from /\ todo' = <<e>>
    BY <1>2, <2>1 DEF Emit
  <2> HIDE DEF e
  <2>3. TrialEvents' = {1} /\ todo'[1] = e
    BY <2>2 DEF TrialEvents
  <2> QED
    BY <2>2, <2>3, FromKept DEF FromSame, TypeInv, OptimizerTypeOK
<1> QED
  BY <1>1, <1>2, SubmittedTrialOnly

\* So do the ends of trials.
LEMMA EndsFrom ==
  ASSUME TypeInv, FromSame, trial' = trial, study' = study, NEW k, NEW ns, NEW ev, EndsOf(todo', k, ns, ev)
  PROVE  FromSame'
<1>1. k \in Nat /\ \A m \in 1 .. k : ns[m] \in Trials /\ trial[ns[m]] \in TrialRec
  BY DEF EndsOf, TypeInv, OptimizerTypeOK, StoreOK
<1>2. \A m \in 1 .. k : Done(trial[ns[m]], ev).from = trial[ns[m]].from
  BY <1>1 DEF Done, TrialRec
<1>3. \A i \in TrialEvents' : \E m \in 1 .. k : todo'[i].n = ns[m] /\ todo'[i].rec = Done(trial[ns[m]], ev)
  <2> SUFFICES ASSUME NEW i \in TrialEvents'
               PROVE  \E m \in 1 .. k : todo'[i].n = ns[m] /\ todo'[i].rec = Done(trial[ns[m]], ev)
    OBVIOUS
  <2>1. i \in DOMAIN todo' /\ todo'[i].op = "trial"
    BY DEF TrialEvents
  <2> QED
    BY <2>1, EndsOps
<1>4. \A i \in TrialEvents' : todo'[i].rec.from = study'[todo'[i].n].from
  BY <1>1, <1>2, <1>3 DEF FromSame
<1> QED
  BY <1>4, FromKept DEF TypeInv, OptimizerTypeOK

\* A trial comes from where the study says it does.
LEMMA FromStep ==
  ASSUME TypeInv, TypeInv', FromSame, [Next]_vars
  PROVE  FromSame'
<1> USE DEF TypeInv, OptimizerTypeOK
<1>1. CASE Aside
  <2>1. trial' = trial /\ study' = study /\ todo' = todo
    BY <1>1 DEF Aside
  <2> QED
    BY <2>1 DEF FromSame, Trials, TrialEvents
<1>2. CASE Perform
  <2>1. \A n \in DOMAIN study : study'[n].from = study[n].from
    BY <1>2, PerformFrom
  <2>2. \A i \in TrialEvents' : i + 1 \in TrialEvents /\ todo'[i] = todo[i + 1] /\ todo[i + 1].n \in DOMAIN study
    BY <1>2, Rest DEF TodoOK, TrialEvents
  <2>3. \A i \in TrialEvents' : todo'[i].rec.from = study'[todo'[i].n].from
    BY <2>1, <2>2 DEF FromSame
  <2>4. CASE todo[1].op # "trial"
    <3>1. trial' = trial
      BY <1>2, <2>4, Rest DEF Perform
    <3> QED
      BY <2>1, <2>3, <3>1, FromKept
  <2>5. CASE todo[1].op = "trial"
    <3> DEFINE n == todo[1].n
    <3>1. /\ 1 \in TrialEvents /\ n \in DOMAIN study
          /\ Trials' = Trials \cup {n} /\ trial'[n] = todo[1].rec
          /\ \A m \in Trials : m # n => trial'[m] = trial[m]
      BY <1>2, <2>5, RecordKept DEF TodoOK, TrialEvents
    <3>2. todo[1].rec.from = study'[n].from
      BY <2>1, <3>1 DEF FromSame
    <3> HIDE DEF n
    <3>3. \A m \in Trials' : trial'[m].from = study'[m].from
      BY <2>1, <3>1, <3>2 DEF FromSame, StoreOK
    <3> QED
      BY <2>3, <3>3 DEF FromSame
  <2> QED
    BY <2>4, <2>5
<1>3. ASSUME trial' = trial, study' = study, TrialEvents' = {}
      PROVE  FromSame'
  BY <1>3, FromKept
<1>4. CASE Crash \/ LoopError
  <2>1. UNCHANGED store /\ todo' = << >>
    BY <1>4, Zenon DEF Crash, LoopError
  <2>2. trial' = trial /\ study' = study /\ TrialEvents' = {}
    BY <2>1 DEF store, TrialEvents
  <2> QED
    BY <1>3, <2>2
<1>5. CASE reconcile
  <2>1. trial' = trial /\ study' = study
    BY <1>5 DEF reconcile, store
  <2>2. TrialEvents' = {}
    BY <1>5, Reconciled, Ops DEF TrialEvents
  <2> QED
    BY <1>3, <2>1, <2>2
<1>6. CASE poll_promos \/ fill_full \/ fill_signoff \/ promote_submit \/ maybe_promote
  <2>1. trial' = trial /\ study' = study /\ TrialEvents' = {}
    BY <1>6, PromotionHandlers DEF TrialEvents
  <2> QED
    BY <1>3, <2>1
<1>7. CASE fill_new
  <2>1. NewToSubmit \subseteq Nat /\ NewToSubmit # {} /\ NewToSubmit \subseteq Trials
    BY <1>7 DEF NewToSubmit, StoreOK, fill_new
  <2>2. Min(NewToSubmit) \in Trials
    BY <2>1, MinIsLeast
  <2>3. trial' = trial /\ study' = study /\ todo = << >> /\ submit_trial(Min(NewToSubmit), 1, loop, "new", "end")
    BY <1>7 DEF fill_new, Here, store
  <2> QED
    BY <2>2, <2>3, SubmitTrialFrom
<1>8. CASE poll_trials
  <2>1. trial' = trial /\ study' = study /\ todo = << >>
    BY <1>8 DEF poll_trials, Here, store
  <2>2. ASSUME NEW n \in InFlight, NEW a, NEW l, submit_trial(n, a, l, "trials", "trials")
        PROVE  FromSame'
    BY <2>1, <2>2, SubmitTrialFrom DEF InFlight
  <2>3. ASSUME NEW n, NEW k, NEW ns, NEW ev, PolledEnds(n, k, ns, ev)
        PROVE  FromSame'
    BY <2>1, <2>3, EndsFrom DEF PolledEnds
  <2>4. ASSUME todo' = << >>
        PROVE  FromSame'
    BY <1>3, <2>1, <2>4, TodoEmpty
  <2> QED
    BY <1>8, <2>2, <2>3, <2>4, PolledTrial
<1>9. CASE drain
  <2>1. trial' = trial /\ study' = study
    BY <1>9 DEF drain, store
  <2>2. PICK k, ns : EndsOf(todo', k, ns, NoMetrics)
    BY <1>9, Drained
  <2> HIDE DEF NoMetrics
  <2> QED
    BY <2>1, <2>2, EndsFrom
<1>10. CASE repair_imports \/ import_trials
  <2>1. /\ trial' = trial
        /\ \A i \in DOMAIN todo' :
             study'[todo'[i].n].from \in Legacy /\ todo'[i].rec = ImportRec(study'[todo'[i].n].from)
    BY <1>10, ImportedEvents
  <2>2. \A k \in Legacy : ImportRec(k).from = k
    BY ImportRecType
  <2>3. \A i \in TrialEvents' : todo'[i].rec.from = study'[todo'[i].n].from
    BY <2>1, <2>2 DEF TrialEvents
  <2>4. \A n \in DOMAIN study : study'[n].from = study[n].from
    <3>1. CASE repair_imports
      BY <3>1 DEF repair_imports, store
    <3>2. CASE import_trials
      <4>1. PICK k \in ToImport : study' = Append(study, [state |-> "complete", value |-> LegacyValue, from |-> k])
        BY <3>2, Imported, Zenon
      <4> QED
        BY <4>1 DEF StoreOK
    <3> QED
      BY <1>10, <3>1, <3>2
  <2> QED
    BY <2>1, <2>3, <2>4, FromKept
<1>11. CASE new_trial
  <2> DEFINE r == [state |-> "running", value |-> FAIL_VALUE, from |-> NoKey]
  <2>1. study' = Append(study, r) /\ trial' = trial /\ r \in StudyRec /\ r.from = NoKey
    BY <1>11, NewAsked DEF StudyRec, FAIL_VALUE
  <2> HIDE DEF r
  <2>2. PICK k \in Keys : AskedEvents(k)
    BY <1>11, AskedFits
  <2>3. study'[Len(study) + 1] = r /\ \A n \in DOMAIN study : study'[n] = study[n]
    BY <2>1, StudyGrows
  <2>4. \A i \in TrialEvents' : todo'[i].n = Len(study) + 1 /\ todo'[i].rec.from = NoKey
    BY <2>2 DEF AskedEvents, AskedRec, TrialEvents
  <2>5. \A i \in TrialEvents' : todo'[i].rec.from = study'[todo'[i].n].from
    BY <2>1, <2>3, <2>4
  <2> QED
    BY <2>1, <2>3, <2>5, FromKept
<1> QED
  BY <1>1, <1>2, <1>4, <1>5, <1>6, <1>7, <1>8, <1>9, <1>10, <1>11, StepCases

\* A finished trial of an earlier track enters the study once: its number is
\* known to the store, or about to be, whenever another could be made.
LEMMA ImportsStep ==
  ASSUME TypeInv, TypeInv', FromSame, ImportsUnique, ImportsKnown,
         \/ Aside \/ Perform \/ Crash \/ repair_imports \/ import_trials \/ new_trial
         \/ reconcile \/ poll_trials \/ poll_promos \/ drain \/ fill_full \/ fill_signoff
         \/ maybe_promote \/ promote_submit \/ fill_new
  PROVE  ImportsUnique' /\ ImportsKnown'
<1> USE DEF TypeInv, OptimizerTypeOK
<1>1. ImportsUnique /\ ImportsKnown /\ FromSame
  OBVIOUS
<1>2. ASSUME study' = study
      PROVE  ImportsUnique'
  BY <1>1, <1>2 DEF ImportsUnique
<1>3. ASSUME UnknownImports' = {}
      PROVE  ImportsKnown'
  BY <1>3 DEF ImportsKnown
<1>4. ASSUME study' = study, trial' = trial
      PROVE  UnknownImports' = UnknownImports
  BY <1>4 DEF UnknownImports, Trials
<1>5. ASSUME \/ reconcile \/ poll_trials \/ poll_promos \/ drain \/ fill_full \/ fill_signoff
             \/ maybe_promote \/ promote_submit \/ fill_new \/ new_trial \/ import_trials
             \/ Here("rescan") \/ Here("list") \/ Here("end")
      PROVE  UnknownImports = {}
  <2>1. todo = << >> /\ at # "down" /\ (at = "repair" => UnknownImports = {})
    BY <1>5, HandlersPast
  <2>2. TrialEvents = {}
    BY <2>1 DEF TrialEvents
  <2> QED
    BY <1>1, <2>1, <2>2 DEF ImportsKnown
<1>6. CASE Aside
  <2>1. study' = study /\ trial' = trial /\ todo' = todo
    BY <1>6 DEF Aside
  <2>2. TrialEvents' = TrialEvents /\ UnknownImports' = UnknownImports
    BY <1>4, <2>1 DEF TrialEvents
  <2>3. CASE at' = at
    BY <1>1, <1>2, <2>1, <2>2, <2>3 DEF ImportsKnown
  <2>4. CASE at' = "repair"
    BY <1>2, <2>1, <2>4 DEF ImportsKnown
  <2>5. CASE Here("list") \/ Here("end")
    BY <1>2, <1>3, <1>5, <2>1, <2>2, <2>5
  <2> QED
    BY <1>6, <2>3, <2>4, <2>5 DEF Aside
<1>7. CASE Perform
  <2>1. DOMAIN study' = DOMAIN study /\ \A n \in DOMAIN study : study'[n].from = study[n].from
    BY <1>7, PerformFrom
  <2>2. ImportsUnique'
    BY <1>1, <2>1 DEF ImportsUnique
  <2>3. at' = at
    BY <1>7 DEF Perform
  <2>4. Trials \subseteq Trials' /\ (todo[1].op = "trial" => todo[1].n \in Trials')
    <3>1. CASE todo[1].op = "trial"
      BY <1>7, <3>1, RecordKept
    <3>2. CASE todo[1].op # "trial"
      <4>1. trial' = trial
        BY <1>7, <3>2, Rest DEF Perform
      <4> QED
        BY <3>2, <4>1 DEF Trials
    <3> QED
      BY <3>1, <3>2
  <2>5. UnknownImports' \subseteq UnknownImports
    BY <2>1, <2>4 DEF UnknownImports
  <2>6. ASSUME NEW n \in UnknownImports', at \notin {"down", "repair"}
        PROVE  \E i \in TrialEvents' : todo'[i].n = n
    <3>1. PICK i \in TrialEvents : todo[i].n = n
      BY <1>1, <2>5, <2>6 DEF ImportsKnown
    <3>2. i # 1
      BY <2>4, <2>6, <3>1 DEF UnknownImports, TrialEvents
    <3>3. i - 1 \in DOMAIN todo' /\ todo'[i - 1] = todo[i]
      BY <1>7, <3>2, Rest DEF TrialEvents
    <3> QED
      BY <3>1, <3>3 DEF TrialEvents
  <2>7. ImportsKnown'
    BY <1>1, <2>3, <2>5, <2>6 DEF ImportsKnown
  <2> QED
    BY <2>2, <2>7
<1>8. CASE Crash
  <2>1. study' = study /\ at' = "down"
    BY <1>8 DEF Crash, store, Goto
  <2> QED
    BY <1>2, <2>1 DEF ImportsKnown
<1>10. CASE \/ reconcile \/ poll_trials \/ poll_promos \/ drain \/ fill_full \/ fill_signoff
            \/ maybe_promote \/ promote_submit \/ fill_new
  <2>1. study' = study /\ trial' = trial
    <3>1. CASE \/ poll_promos \/ fill_full \/ fill_signoff \/ maybe_promote \/ promote_submit
      BY <3>1, PromotionHandlers
    <3>2. CASE reconcile \/ poll_trials \/ drain \/ fill_new
      BY <3>2 DEF reconcile, poll_trials, drain, fill_new, store
    <3> QED
      BY <1>10, <3>1, <3>2
  <2> QED
    BY <1>2, <1>3, <1>4, <1>5, <1>10, <2>1
<1>11. CASE new_trial
  <2> DEFINE r == [state |-> "running", value |-> FAIL_VALUE, from |-> NoKey]
  <2>1. study' = Append(study, r) /\ trial' = trial /\ r \in StudyRec /\ r.from = NoKey
    BY <1>11, NewAsked DEF StudyRec, FAIL_VALUE
  <2> HIDE DEF r
  <2>2. /\ DOMAIN study' = DOMAIN study \cup {Len(study) + 1} /\ study'[Len(study) + 1] = r
        /\ \A n \in DOMAIN study : study'[n] = study[n]
    BY <2>1, StudyGrows
  <2>3. ImportsUnique'
    BY <1>1, <2>1, <2>2 DEF ImportsUnique
  <2>4. UnknownImports = {}
    BY <1>5, <1>11
  <2>5. UnknownImports' = {}
    BY <2>1, <2>2, <2>4 DEF UnknownImports, Trials
  <2> QED
    BY <1>3, <2>3, <2>5
<1>12. CASE import_trials
  <2>1. PICK k \in ToImport :
          /\ study' = Append(study, [state |-> "complete", value |-> LegacyValue, from |-> k])
          /\ todo' = <<Emit(Len(study) + 1, ImportRec(k))>>
    BY <1>12, Imported, Zenon
  <2> DEFINE r == [state |-> "complete", value |-> LegacyValue, from |-> k]
             e == Emit(Len(study) + 1, ImportRec(k))
  <2>2. study' = Append(study, r) /\ r \in StudyRec /\ r.from = k /\ e.op = "trial" /\ e.n = Len(study) + 1 /\ todo' = <<e>>
    BY <2>1, Ops DEF StudyRec, LegacyValue, ToImport, StoreOK
  <2>3. trial' = trial /\ at' \in {"import", "rescanned", "reimport"}
    BY <1>12, Zenon DEF import_trials, Goto
  <2> HIDE DEF r, e
  <2>4. /\ DOMAIN study' = DOMAIN study \cup {Len(study) + 1} /\ study'[Len(study) + 1] = r
        /\ \A n \in DOMAIN study : study'[n] = study[n]
    BY <2>2, StudyGrows
  <2>5. \A n \in DOMAIN study : study[n].from # k
    <3> SUFFICES ASSUME NEW n \in DOMAIN study, study[n].from = k
                 PROVE  FALSE
      OBVIOUS
    <3>1. k # NoKey /\ \A m \in Trials : trial[m].from # k
      BY OptimizerAssumption DEF ToImport, StoreOK
    <3>2. n \notin Trials
      BY <1>1, <3>1 DEF FromSame
    <3>3. n \in UnknownImports
      BY <3>1, <3>2 DEF UnknownImports
    <3> QED
      BY <1>5, <1>12, <3>3
  <2>6. ImportsUnique'
    BY <1>1, <2>2, <2>4, <2>5 DEF ImportsUnique
  <2>7. UnknownImports = {}
    BY <1>5, <1>12
  <2>8. UnknownImports' \subseteq {Len(study) + 1}
    BY <2>3, <2>4, <2>7 DEF UnknownImports, Trials
  <2>9. 1 \in TrialEvents' /\ todo'[1].n = Len(study) + 1
    BY <2>2 DEF TrialEvents
  <2>10. ImportsKnown'
    BY <2>3, <2>8, <2>9 DEF ImportsKnown
  <2> QED
    BY <2>6, <2>10
<1>13. CASE repair_imports
  <2>1. PICK k \in Nat : \E s \in [1 .. k -> UnknownImports] :
          /\ \A n \in UnknownImports : \E i \in 1 .. k : s[i] = n
          /\ todo' = [i \in 1 .. k |-> Emit(s[i], ImportRec(study[s[i]].from))]
    BY <1>13, Repaired
  <2>2. PICK s \in [1 .. k -> UnknownImports] :
          /\ \A n \in UnknownImports : \E i \in 1 .. k : s[i] = n
          /\ todo' = [i \in 1 .. k |-> Emit(s[i], ImportRec(study[s[i]].from))]
    BY <2>1
  <2>0. Here("repair") /\ at' = "import"
    <3>1. UnknownImports # {}
      BY <1>13 DEF repair_imports
    <3>2. ~Here("rescan")
      BY <1>5, <3>1
    <3> QED
      BY <1>13, <3>2 DEF repair_imports, Goto
  <2>3. study' = study /\ trial' = trial /\ at' = "import"
    BY <1>13, <2>0 DEF repair_imports, store
  <2>4. \A i \in 1 .. k : i \in TrialEvents' /\ todo'[i].n = s[i]
    BY <2>2, Ops DEF TrialEvents
  <2>6. UnknownImports' = UnknownImports
    BY <2>3 DEF UnknownImports, Trials
  <2>7. \A n \in UnknownImports : \E i \in 1 .. k : s[i] = n
    BY <2>2
  <2>5. \A n \in UnknownImports' : \E i \in TrialEvents' : todo'[i].n = n
    BY <2>4, <2>6, <2>7
  <2> QED
    BY <1>2, <2>3, <2>5 DEF ImportsKnown
<1> QED
  BY <1>6, <1>7, <1>8, <1>10, <1>11, <1>12, <1>13

\* An exception outside the imports tears none.
LEMMA ImportsError ==
  ASSUME ImportsUnique, ImportsKnown, LoopError, at \notin {"rescanned", "reimport"}
  PROVE  ImportsUnique' /\ ImportsKnown'
<1>1. UNCHANGED store /\ at \in {Places[i] : i \in PlaceNumber("rescan") .. PlaceNumber("ask")}
  BY Zenon DEF LoopError
<1>2. study' = study /\ trial' = trial
  BY <1>1 DEF store
<1>3. PICK i \in PlaceNumber("rescan") .. PlaceNumber("ask") : at = Places[i]
  BY <1>1
<1>4. i \in 5 .. 16 /\ i \in 1 .. 17
  BY PlaceNumbers
<1>5. at \notin {"down", "repair", "import", "rescanned", "reimport"}
  BY <1>3, <1>4, PlaceNumbers, Zenon
<1>6. UnknownImports = {}
  BY <1>5 DEF ImportsKnown
<1>7. UnknownImports' = {}
  BY <1>2, <1>6 DEF UnknownImports, Trials
<1> QED
  BY <1>2, <1>7 DEF ImportsUnique, ImportsKnown

\* There is no import at first.
LEMMA ImportInit == Init => ImportInv
<1> SUFFICES ASSUME Init PROVE ImportInv
  OBVIOUS
<1>1. Trials = {} /\ TrialEvents = {} /\ DOMAIN study = {} /\ at = "down"
  BY DEF Init, Trials, TrialEvents
<1> QED
  BY <1>1 DEF ImportInv, FromSame, ImportsUnique, ImportsKnown, TornByError, Init

\* Imports are in the study once, and in the store or on their way there.
THEOREM ImportsTracked == Spec => [](TypeInv /\ TrialInv /\ ImportInv)
<1>1. Init => ImportInv
  BY ImportInit
<1>2. TypeInv /\ TypeInv' /\ TrialInv /\ ImportInv /\ [Next]_vars => ImportInv'
  <2> SUFFICES ASSUME TypeInv, TypeInv', TrialInv, ImportInv, [Next]_vars
               PROVE  ImportInv'
    OBVIOUS
  <2>1. FromSame'
    BY FromStep DEF ImportInv
  <2>2. ASSUME ~torn'
        PROVE  ImportsUnique' /\ ImportsKnown'
    <3>1. torn' = torn \/ (LoopError /\ torn' = (torn \/ at \in {"rescanned", "reimport"}))
      BY StopsCounted, Zenon
    <3>2. ~torn
      BY <2>2, <3>1, Zenon
    <3>3. FromSame /\ ImportsUnique /\ ImportsKnown
      BY <3>2, Zenon DEF ImportInv
    <3>4. CASE LoopError
      <4>1. at \notin {"rescanned", "reimport"}
        BY <2>2, <3>4, Zenon DEF LoopError
      <4> QED
        BY <3>3, <3>4, <4>1, ImportsError, Zenon
    <3>5. CASE ~LoopError
      <4>1. \/ Aside \/ Perform \/ Crash \/ repair_imports \/ import_trials \/ new_trial
            \/ reconcile \/ poll_trials \/ poll_promos \/ drain \/ fill_full \/ fill_signoff
            \/ maybe_promote \/ promote_submit \/ fill_new
        <5>1. StoreOK
          BY DEF TypeInv, OptimizerTypeOK
        <5> QED
          BY <3>5, <5>1, StepCases, Zenon
      <4> QED
        BY <3>3, <4>1, ImportsStep, Zenon
    <3> QED
      BY <3>4, <3>5, Zenon
  <2>3. TornByError'
    <3>1. crashes \in Nat /\ (torn => crashes > 0)
      BY DEF TypeInv, OptimizerTypeOK, ImportInv, TornByError
    <3>2. (torn' = torn /\ crashes' = crashes) \/ crashes' = crashes + 1
      BY StopsCounted, Zenon
    <3>3. CASE torn' = torn /\ crashes' = crashes
      BY <3>1, <3>3, Zenon DEF TornByError
    <3>4. CASE crashes' = crashes + 1
      BY <3>1, <3>4 DEF TornByError
    <3> QED
      BY <3>2, <3>3, <3>4
  <2> QED
    BY <2>1, <2>2, <2>3, Zenon DEF ImportInv
<1> QED
  BY <1>1, <1>2, TrialsConsistent, PTL DEF Spec

\* A finished run of an earlier track enters the study once, although the
\* driver may stop between the study and the store (repair_imports), as long as
\* no exception falls there.
THEOREM ImportsHappenOnce == Spec => []ImportedOnce
<1>1. TypeInv /\ ImportInv => ImportedOnce
  <2> SUFFICES ASSUME TypeInv, ImportInv, ~torn, NEW k \in Legacy
               PROVE  Cardinality({n \in DOMAIN study : study[n].from = k}) <= 1
    BY DEF ImportedOnce
  <2> DEFINE S == {n \in DOMAIN study : study[n].from = k}
  <2>1. \A m, n \in S : m = n
    BY OptimizerAssumption DEF ImportInv, ImportsUnique
  <2>2. CASE S = {}
    BY <2>2, FS_EmptySet
  <2>3. ASSUME NEW n \in S
        PROVE  Cardinality(S) <= 1
    <3>1. S = {n}
      BY <2>1, <2>3
    <3> HIDE DEF S
    <3>2. Cardinality(S) = 1
      BY <3>1, FS_Singleton
    <3> QED
      BY <3>2
  <2> QED
    BY <2>2, <2>3
<1> QED
  BY <1>1, ImportsTracked, PTL

-----------------------------------------------------------------------------
(***************************************************************************)
(* One run per configuration, as long as the driver is never stopped.      *)
(***************************************************************************)
\* A handler that leaves the trials alone: its events are about trials that
\* claim their configuration already.
LEMMA RunRecorded ==
  ASSUME TypeInv, OneClaim, todo = << >>, trial' = trial, at' \notin {"down", "repair", "ask"},
         \A i \in TrialEvents' : Claims(todo'[i].rec) =>
            /\ \A j \in TrialEvents' : j < i => todo'[j].n # todo'[i].n
            /\ todo'[i].n \in Trials /\ Claims(trial[todo'[i].n])
  PROVE  BlankStart' /\ OneClaim' /\ ClaimsOK' /\ AskOK'
<1>1. TrialEvents = {} /\ Trials' = Trials
  BY DEF TrialEvents, Trials
<1>2. OneClaim'
  BY <1>1 DEF OneClaim, BecomesDup
<1>3. ClaimsOK'
  BY <1>1 DEF ClaimsOK
<1> QED
  BY <1>2, <1>3 DEF BlankStart, AskOK

\* ... as the submission of a trial,
LEMMA SubmitTrialRun ==
  ASSUME TypeInv, TrialInv, OneClaim, todo = << >>, trial' = trial,
         NEW n \in Trials, NEW a, NEW l, NEW done, NEW failed,
         {done, failed} \cap {"down", "repair", "ask"} = {}, Claims(trial[n]),
         submit_trial(n, a, l, done, failed)
  PROVE  BlankStart' /\ OneClaim' /\ ClaimsOK' /\ AskOK'
<1>1. at' \notin {"down", "repair", "ask"}
  BY SubmittedTrialOnly
<1>2. CASE todo' = << >>
  <2>1. TrialEvents' = {}
    BY <1>2 DEF TrialEvents
  <2> QED
    BY <1>1, <2>1, RunRecorded
<1>3. ASSUME NEW j \in Unused, todo' = <<Emit(n, AsSubmitted(trial[n], j, a))>>
      PROVE  BlankStart' /\ OneClaim' /\ ClaimsOK' /\ AskOK'
  <2> DEFINE e == Emit(n, AsSubmitted(trial[n], j, a))
  <2>1. e.op = "trial" /\ e.n = n /\ todo' = <<e>>
    BY <1>3 DEF Emit
  <2> HIDE DEF e
  <2>2. TrialEvents' = {1} /\ todo'[1] = e
    BY <2>1 DEF TrialEvents
  <2> QED
    BY <1>1, <2>1, <2>2, RunRecorded
<1> QED
  BY <1>2, <1>3, SubmittedTrialOnly

\* ... and the ends of trials that were submitted, with those of their duplicates.
LEMMA EndsRun ==
  ASSUME TypeInv, TrialInv, OneClaim, todo = << >>, trial' = trial, at' \notin {"down", "repair", "ask"},
         NEW k, NEW ns, NEW ev, EndsOf(todo', k, ns, ev),
         \A m \in 1 .. k : trial[ns[m]].state = "submitted" \/ trial[ns[m]].of # 0
  PROVE  BlankStart' /\ OneClaim' /\ ClaimsOK' /\ AskOK'
<1>1. \A m \in 1 .. k : ns[m] \in Trials /\ trial[ns[m]] \in TrialRec /\ OwnValue(trial[ns[m]], OverJobs)
  BY DEF EndsOf, TypeInv, OptimizerTypeOK, StoreOK, TrialInv, ValuesOwn
<1>2. \A m \in 1 .. k : Done(trial[ns[m]], ev).of = trial[ns[m]].of
  BY <1>1 DEF Done, TrialRec
<1>3. \A m \in 1 .. k : trial[ns[m]].state = "submitted" => Claims(trial[ns[m]])
  BY <1>1 DEF Claims, OwnValue
<1>4. \A i \in TrialEvents' : \E m \in 1 .. k : /\ i = 2 * m - 1 /\ todo'[i].n = ns[m]
                                               /\ todo'[i].rec = Done(trial[ns[m]], ev)
  <2> SUFFICES ASSUME NEW i \in TrialEvents'
               PROVE  \E m \in 1 .. k : /\ i = 2 * m - 1 /\ todo'[i].n = ns[m]
                                        /\ todo'[i].rec = Done(trial[ns[m]], ev)
    OBVIOUS
  <2>1. i \in DOMAIN todo' /\ todo'[i].op = "trial"
    BY DEF TrialEvents
  <2> QED
    BY <2>1, EndsOps
<1>5. ASSUME NEW i \in TrialEvents', Claims(todo'[i].rec)
      PROVE  /\ \A j \in TrialEvents' : j < i => todo'[j].n # todo'[i].n
             /\ todo'[i].n \in Trials /\ Claims(trial[todo'[i].n])
  <2>1. PICK m \in 1 .. k : /\ i = 2 * m - 1 /\ todo'[i].n = ns[m]
                            /\ todo'[i].rec = Done(trial[ns[m]], ev)
    BY <1>4
  <2>2. Claims(trial[ns[m]])
    BY <1>2, <1>3, <1>5, <2>1 DEF Claims
  <2>3. ASSUME NEW j \in TrialEvents', j < i
        PROVE  todo'[j].n # todo'[i].n
    <3>1. PICK b \in 1 .. k : j = 2 * b - 1 /\ todo'[j].n = ns[b]
      BY <1>4
    <3>2. \A c, d \in 1 .. k : ns[c] = ns[d] => c = d
      BY DEF EndsOf
    <3> QED
      BY <2>1, <2>3, <3>1, <3>2
  <2> QED
    BY <1>1, <2>1, <2>2, <2>3
<1> QED
  BY <1>5, RunRecorded

\* An import is the event of a number the store does not know yet.
LEMMA ImportRun ==
  ASSUME TypeInv, OneClaim, import_trials
  PROVE  BlankStart' /\ OneClaim' /\ ClaimsOK' /\ AskOK'
<1> USE DEF TypeInv, OptimizerTypeOK
<1>1. PICK k \in ToImport :
        /\ study' = Append(study, [state |-> "complete", value |-> LegacyValue, from |-> k])
        /\ todo' = <<Emit(Len(study) + 1, ImportRec(k))>>
  BY Imported, Zenon
<1> DEFINE r == [state |-> "complete", value |-> LegacyValue, from |-> k]
           e == Emit(Len(study) + 1, ImportRec(k))
<1>2. todo = << >> /\ trial' = trial /\ at' \in {"import", "rescanned", "reimport"}
  BY Imported
<1>3. /\ study' = Append(study, r) /\ r \in StudyRec
      /\ e.op = "trial" /\ e.n = Len(study) + 1 /\ e.rec = ImportRec(k) /\ todo' = <<e>>
  BY <1>1, Ops DEF StudyRec, LegacyValue, ToImport, StoreOK
<1>4. ImportRec(k).from # NoKey
  BY ImportRecType, OptimizerAssumption DEF ToImport, StoreOK
<1> HIDE DEF r, e
<1>5. TrialEvents' = {1} /\ todo'[1] = e /\ Len(study') = Len(study) + 1
  BY <1>3 DEF TrialEvents, StoreOK
<1>6. TrialEvents = {} /\ Trials' = Trials
  BY <1>2 DEF TrialEvents, Trials
<1>7. OneClaim'
  BY <1>2, <1>6 DEF OneClaim, BecomesDup
<1>8. Len(study) + 1 \notin Trials
  BY DEF StoreOK
<1>9. ClaimsOK'
  BY <1>3, <1>4, <1>5, <1>6, <1>8 DEF ClaimsOK
<1> QED
  BY <1>2, <1>7, <1>9 DEF BlankStart, AskOK

\* A number is asked for only when no other waits to be submitted.
LEMMA NoneToSubmit ==
  ASSUME AskOK, todo = << >>, new_trial
  PROVE  NewToSubmit = {}
<1>1. Here("ask") /\ loop.stop = "no"
  BY DEF new_trial, MayAsk
<1>2. PICK i \in 1 .. PlaceNumber("ask") : at = Places[i]
  BY <1>1 DEF Here
<1>3. PlaceNumber("ask") = 16 /\ PlaceNumber("new") = 15
  BY PlaceNumbers
<1>4. CASE at = "ask"
  <2>1. TrialEvents = {}
    BY DEF TrialEvents
  <2> QED
    BY <1>4, <2>1 DEF AskOK, BecomesDup
<1>5. CASE at # "ask"
  <2>1. i \in 1 .. 17
    BY <1>2, <1>3
  <2>2. PlaceNumber(at) \in 1 .. 17 /\ Places[PlaceNumber(at)] = at
    BY <1>2, <2>1, NumberOfPlace
  <2>3. Places[16] = "ask" /\ Places[15] = "new"
    BY PlacesInOrder, Zenon
  <2>4. PlaceNumber(at) # 16
    BY <1>5, <2>2, <2>3
  <2>5. PlaceNumber(at) # 17
    <3>1. i \in {1, 2, 3, 4, 5, 6, 7, 8, 9, 10, 11, 12, 13, 14, 15, 16}
      BY <1>2, <1>3
    <3>2. at # "end"
      BY <1>2, <3>1, PlacesInOrder, Zenon
    <3>3. Places[17] = "end"
      BY PlacesInOrder, Zenon
    <3> QED
      BY <2>2, <3>2, <3>3
  <2>6. 15 \in PlaceNumber(at) .. PlaceNumber("ask") - 1
    BY <1>3, <2>2, <2>4, <2>5
  <2>7. Nothing("new")
    BY <1>1, <2>3, <2>6, Zenon DEF Here
  <2> QED
    BY <1>1, <2>7 DEF Nothing
<1> QED
  BY <1>4, <1>5

\* A number that is asked for is a duplicate, refused, or the first to claim its
\* configuration.
LEMMA AskRun ==
  ASSUME TypeInv, OneClaim, AskOK, new_trial
  PROVE  BlankStart' /\ OneClaim' /\ ClaimsOK' /\ AskOK'
<1> USE DEF TypeInv, OptimizerTypeOK
<1> DEFINE r == [state |-> "running", value |-> FAIL_VALUE, from |-> NoKey]
<1>1. study' = Append(study, r) /\ trial' = trial /\ todo = << >>
  BY NewAsked
<1> HIDE DEF r
<1>2. PICK k \in Keys : AskedEvents(k)
  BY AskedFits
<1>3. at' \in {"ask", "new"}
  BY <1>2 DEF AskedEvents
<1>4. NewToSubmit = {}
  BY <1>1, NoneToSubmit
<1>5. TrialEvents = {} /\ Trials' = Trials /\ Len(study') = Len(study) + 1 /\ Len(study) + 1 \notin Trials
  BY <1>1 DEF TrialEvents, Trials, StoreOK
<1>6. OneClaim'
  BY <1>1, <1>5 DEF OneClaim, BecomesDup
<1>7. 0 \notin Original(k)
  BY DEF Original, StoreOK
<1>8. \A i \in TrialEvents' : /\ i \in DOMAIN todo' /\ todo'[i].n = Len(study) + 1
                              /\ AskedRec(k, i, todo'[i].rec)
  BY <1>2 DEF AskedEvents, TrialEvents
<1>9. \A i \in TrialEvents' : Claims(todo'[i].rec) => i = 1
  BY <1>7, <1>8 DEF AskedRec, Claims
<1>10. \A i \in TrialEvents' : i \in Nat \ {0}
  BY <1>8 DEF TodoOK, AskedRec
<1>11. ASSUME Original(k) # {}
       PROVE  2 \in TrialEvents' /\ todo'[2].rec.of # 0 /\ todo'[2].n = Len(study) + 1
  BY <1>2, <1>8, <1>11 DEF AskedEvents
<1>12. ASSUME Original(k) = {}, NEW m \in Trials, trial[m].key = k, Claims(trial[m])
       PROVE  FALSE
  <2>1. trial[m].of = 0 /\ ~trial[m].lost
    BY <1>12 DEF Claims
  <2>2. trial[m].state \notin {"submitted", "done"}
    BY <1>12, <2>1 DEF Original, Dup
  <2>3. m \in NewToSubmit
    BY <1>12, <2>2 DEF Claims, NewToSubmit
  <2> QED
    BY <1>4, <2>3
<1>13. ClaimsOK'
  <2> SUFFICES ASSUME NEW i \in TrialEvents', Claims(todo'[i].rec)
               PROVE  /\ \A j \in TrialEvents' : j < i => todo'[j].n # todo'[i].n
                      /\ todo'[i].n \notin Trials /\ i = 1 /\ todo'[i].n = Len(study')
                      /\ \/ BecomesDup(todo[i].n, 2)'
                         \/ \A m \in Trials : trial[m].key = todo'[i].rec.key => ~Claims(trial[m])
    BY <1>1, <1>5 DEF ClaimsOK
  <2>1. i = 1 /\ todo'[i].n = Len(study) + 1 /\ todo'[i].rec.key = k
    BY <1>8, <1>9 DEF AskedRec
  <2>2. \A j \in TrialEvents' : ~(j < i)
    BY <1>10, <2>1
  <2>3. CASE Original(k) # {}
    BY <1>5, <1>11, <2>1, <2>2, <2>3 DEF BecomesDup
  <2>4. CASE Original(k) = {}
    BY <1>5, <1>12, <2>1, <2>2, <2>4
  <2> QED
    BY <2>3, <2>4
<1>14. NewToSubmit' = {}
  BY <1>1, <1>4 DEF NewToSubmit, Trials
<1>15. ASSUME at' = "ask", NEW i \in TrialEvents', todo'[i].rec.state = "new", todo'[i].rec.built
       PROVE  BecomesDup(todo[i].n, i + 1)'
  <2>1. i = 1
    BY <1>8, <1>15 DEF AskedRec
  <2>2. Original(k) # {}
    BY <1>2, <1>15, <2>1 DEF AskedEvents
  <2> QED
    BY <1>8, <1>11, <2>1, <2>2 DEF BecomesDup
<1>16. AskOK'
  BY <1>14, <1>15 DEF AskOK
<1> QED
  BY <1>3, <1>6, <1>13, <1>16 DEF BlankStart

\* A performed event: the claim it makes was its number's already, or is the
\* only one of its configuration.
LEMMA PerformRun ==
  ASSUME TypeInv, TypeInv', TrialInv, BlankStart, OneClaim, ClaimsOK, AskOK, Perform
  PROVE  BlankStart' /\ OneClaim' /\ ClaimsOK' /\ AskOK'
<1> USE DEF TypeInv, OptimizerTypeOK
<1>1. at' = at /\ at \notin {"down", "repair"}
  BY Rest DEF Perform, BlankStart
<1>2. \A i \in TrialEvents' : i + 1 \in TrialEvents /\ i + 1 # 1 /\ todo'[i] = todo[i + 1] /\ i \in Nat \ {0}
  BY Rest
<1>3. ASSUME NEW n, NEW i \in Nat \ {0}, NEW j, j = i + 1, BecomesDup(n, j)
      PROVE  BecomesDup(n, i)'
  <2>1. j \in DOMAIN todo /\ j # 1 /\ j - 1 = i
    BY <1>3 DEF BecomesDup, TrialEvents
  <2>2. i \in DOMAIN todo' /\ todo'[i] = todo[j]
    BY <2>1, Rest
  <2> QED
    BY <1>3, <2>2 DEF BecomesDup, TrialEvents
<1>4. /\ \A i \in TrialEvents : Claims(todo[i].rec) /\ i # 1 =>
            todo[i].n \in Trials /\ Claims(trial[todo[i].n])
      /\ \A i, j \in TrialEvents : Claims(todo[i].rec) /\ j < i => todo[j].n # todo[i].n
  BY DEF ClaimsOK
<1>5. CASE todo[1].op # "trial"
  <2>1. trial' = trial
    BY <1>5, Rest DEF Perform
  <2>2. Trials' = Trials /\ NewToSubmit' = NewToSubmit
    BY <2>1 DEF Trials, NewToSubmit
  <2>3. \A n : ~BecomesDup(n, 1)
    BY <1>5 DEF BecomesDup, TrialEvents
  <2>4. OneClaim'
    BY <2>1, <2>2, <2>3 DEF OneClaim
  <2>5. ClaimsOK'
    BY <1>2, <1>4, <2>1, <2>2 DEF ClaimsOK
  <2>6. AskOK'
    BY <1>1, <1>2, <1>3, <2>2, <2>3 DEF AskOK
  <2> QED
    BY <1>1, <2>4, <2>5, <2>6 DEF BlankStart
<1>6. CASE todo[1].op = "trial"
  <2>12. PICK N, r : N = todo[1].n /\ r = todo[1].rec
    OBVIOUS
  <2>1. /\ 1 \in TrialEvents /\ N \in Nat \ {0} /\ Trials' = Trials \cup {N} /\ trial'[N] = r
        /\ \A m \in Trials : m # N => trial'[m] = trial[m]
    BY <1>6, <2>12, RecordKept
  <2>2. N \in Trials /\ Claims(r) => /\ Claims(trial[N]) /\ r.key = trial[N].key /\ r.from = trial[N].from
    BY <2>1, <2>12 DEF ClaimsOK, TrialInv, TrialsStand
  <2>3. \A n : BecomesDup(n, 1) => n = N /\ ~Claims(r)
    BY <2>12 DEF BecomesDup, Claims
  <2>4. N \notin Trials /\ Claims(r) =>
          /\ N = Len(study)
          /\ r.from = NoKey => \/ BecomesDup(N, 2)
                              \/ \A m \in Trials : trial[m].key = r.key => ~Claims(trial[m])
    BY <2>1, <2>12 DEF ClaimsOK
  <2>5. Trials \subseteq 1 .. Len(study) /\ Len(study) \in Nat
    BY DEF StoreOK
  <2>6. BecomesDup(N, 2) => BecomesDup(N, 1)'
    <3>1. 2 = 1 + 1 /\ 1 \in Nat \ {0}
      OBVIOUS
    <3> QED
      BY <1>3, <3>1, Zenon
  <2>7. \A i \in TrialEvents' : Claims(todo'[i].rec) => todo'[i].n # N /\ todo'[i].n \in Trials
    <3> SUFFICES ASSUME NEW i \in TrialEvents', Claims(todo'[i].rec)
                 PROVE  todo'[i].n # N /\ todo'[i].n \in Trials
      OBVIOUS
    <3>1. i + 1 \in TrialEvents /\ 1 < i + 1 /\ Claims(todo[i + 1].rec) /\ todo'[i].n = todo[i + 1].n
      BY <1>2
    <3> QED
      BY <1>4, <2>1, <2>12, <3>1
  <2>8. OneClaim'
    <3> SUFFICES ASSUME NEW m \in Trials', NEW n \in Trials', m < n, trial'[m].key = trial'[n].key,
                        trial'[n].from = NoKey, Claims(trial'[m]), Claims(trial'[n])
                 PROVE  BecomesDup(n, 1)'
      BY DEF OneClaim
    <3>1. CASE m # N /\ n # N
      <4>1. m \in Trials /\ n \in Trials /\ trial'[m] = trial[m] /\ trial'[n] = trial[n]
        BY <2>1, <3>1
      <4>2. BecomesDup(n, 1)
        BY <4>1 DEF OneClaim
      <4> QED
        BY <2>3, <3>1, <4>2
    <3>2. CASE n = N
      <4>1. m \in Trials /\ trial'[m] = trial[m] /\ trial'[n] = r
        BY <2>1, <2>5, <3>2
      <4>2. CASE N \in Trials
        <5>1. BecomesDup(N, 1)
          BY <2>2, <3>2, <4>1, <4>2 DEF OneClaim
        <5> QED
          BY <2>3, <3>2, <4>1, <5>1
      <4>3. CASE N \notin Trials
        <5>1. Claims(r) /\ r.from = NoKey /\ m \in Trials /\ trial[m].key = r.key /\ Claims(trial[m])
          BY <3>2, <4>1
        <5>2. BecomesDup(N, 2)
          BY <2>4, <4>3, <5>1
        <5> QED
          BY <2>6, <3>2, <5>2, Zenon
      <4> QED
        BY <4>2, <4>3
    <3>3. CASE m = N
      <4>1. n \in Trials /\ trial'[n] = trial[n] /\ trial'[m] = r /\ n # N /\ N < n
        <5>1. N < n /\ n # N
          BY <2>1, <3>3
        <5> QED
          BY <2>1, <3>3, <5>1
      <4>2. N \in Trials
        BY <2>4, <2>5, <3>3, <4>1
      <4>3. BecomesDup(n, 1)
        BY <2>2, <3>3, <4>1, <4>2 DEF OneClaim
      <4> QED
        BY <2>3, <4>1, <4>3
    <3> QED
      BY <3>1, <3>2, <3>3
  <2>9. ClaimsOK'
    <3> SUFFICES ASSUME NEW i \in TrialEvents', Claims(todo'[i].rec)
                 PROVE  /\ \A j \in TrialEvents' : j < i => todo'[j].n # todo'[i].n
                        /\ todo'[i].n \in Trials' /\ Claims(trial'[todo'[i].n])
      BY DEF ClaimsOK
    <3>1. i + 1 \in TrialEvents /\ i + 1 # 1 /\ todo'[i] = todo[i + 1]
      BY <1>2
    <3>2. Claims(trial[todo'[i].n])
      BY <1>4, <3>1
    <3>3. \A j \in TrialEvents' : j < i => todo'[j].n # todo'[i].n
      BY <1>2, <1>4, <3>1
    <3> QED
      BY <2>1, <2>7, <3>2, <3>3
  <2>10. ASSUME at = "ask"
         PROVE  \A n \in NewToSubmit' : BecomesDup(n, 1)'
    <3> SUFFICES ASSUME NEW n \in NewToSubmit'
                 PROVE  BecomesDup(n, 1)'
      OBVIOUS
    <3>1. n \in Trials' /\ trial'[n].state = "new" /\ trial'[n].built
      BY DEF NewToSubmit
    <3>2. CASE n = N
      <4>1. BecomesDup(todo[1].n, 1 + 1)
        BY <2>1, <2>10, <2>12, <3>1, <3>2 DEF AskOK
      <4> QED
        BY <1>3, <2>12, <3>2, <4>1
    <3>3. CASE n # N
      <4>1. n \in NewToSubmit
        BY <2>1, <3>1, <3>3 DEF NewToSubmit
      <4>2. BecomesDup(n, 1)
        BY <2>10, <4>1 DEF AskOK
      <4> QED
        BY <2>3, <3>3, <4>2
    <3> QED
      BY <3>2, <3>3
  <2>11. AskOK'
    BY <1>1, <1>2, <1>3, <2>10 DEF AskOK
  <2> QED
    BY <1>1, <2>8, <2>9, <2>11 DEF BlankStart
<1> QED
  BY <1>5, <1>6

\* The other handlers, and the steps that are none.
LEMMA QuietRun ==
  ASSUME TypeInv, TrialInv, ImportsKnown, BlankStart, OneClaim, ClaimsOK, AskOK,
         \/ Aside \/ repair_imports \/ reconcile \/ poll_trials \/ drain \/ fill_new
         \/ poll_promos \/ fill_full \/ fill_signoff \/ promote_submit \/ maybe_promote
  PROVE  BlankStart' /\ OneClaim' /\ ClaimsOK' /\ AskOK'
<1> USE DEF TypeInv, OptimizerTypeOK
<1>1. CASE Aside
  <2>1. study' = study /\ trial' = trial /\ todo' = todo
    BY <1>1 DEF Aside
  <2>2. Trials' = Trials /\ TrialEvents' = TrialEvents /\ NewToSubmit' = NewToSubmit
    BY <2>1 DEF Trials, TrialEvents, NewToSubmit
  <2>3. OneClaim' /\ ClaimsOK'
    BY <2>1, <2>2 DEF OneClaim, ClaimsOK, BecomesDup
  <2>4. at' = at \/ (at = "down" /\ at' = "repair") \/ at' \in {"rescan", "trials", "finished"}
    BY <1>1 DEF Aside
  <2>5. BlankStart'
    BY <2>1, <2>4 DEF BlankStart
  <2>6. AskOK'
    BY <2>1, <2>2, <2>4 DEF AskOK, BecomesDup
  <2> QED
    BY <2>3, <2>5, <2>6
<1>2. ASSUME todo' = << >>
      PROVE  TrialEvents' = {}
  BY <1>2 DEF TrialEvents
<1>3. CASE repair_imports
  <2>1. Here("repair") /\ UnknownImports # {}
    <3>1. UnknownImports # {} /\ (Here("repair") \/ Here("rescan"))
      BY <1>3 DEF repair_imports
    <3>2. ASSUME Here("rescan")
          PROVE  UnknownImports = {}
      <4>1. todo = << >> /\ at # "down" /\ (at = "repair" => UnknownImports = {})
        BY <3>2, HandlersPast
      <4>2. TrialEvents = {}
        BY <4>1 DEF TrialEvents
      <4> QED
        BY <4>1, <4>2 DEF ImportsKnown
    <3> QED
      BY <3>1, <3>2
  <2>2. at = "repair"
    <3>1. PlaceNumber("repair") = 1 /\ at \in {Places[i] : i \in 1 .. PlaceNumber("repair")}
      BY <2>1, PlaceNumbers DEF Here
    <3>2. \A i \in 1 .. 1 : i = 1
      OBVIOUS
    <3>3. Places[1] = "repair"
      BY PlacesInOrder, Zenon
    <3> QED
      BY <3>1, <3>2, <3>3
  <2>3. study = << >>
    BY <2>2 DEF BlankStart
  <2> QED
    BY <2>1, <2>3 DEF UnknownImports
<1>4. CASE reconcile
  <2>1. trial' = trial /\ at' = "list"
    BY <1>4 DEF reconcile, store, Goto
  <2>2. TrialEvents' = {}
    BY <1>4, Reconciled, Ops DEF TrialEvents
  <2>3. todo = << >>
    BY <1>4, HandlersPast
  <2> QED
    BY <2>1, <2>2, <2>3, RunRecorded
<1>5. CASE poll_promos \/ fill_full \/ fill_signoff \/ promote_submit \/ maybe_promote
  <2>1. trial' = trial /\ TrialEvents' = {} /\ at' \notin {"down", "repair", "ask"}
    BY <1>5, PromotionHandlers DEF TrialEvents
  <2>2. todo = << >>
    BY <1>5, HandlersPast
  <2> QED
    BY <2>1, <2>2, RunRecorded
<1>6. CASE fill_new
  <2>1. NewToSubmit \subseteq Nat /\ NewToSubmit # {} /\ NewToSubmit \subseteq Trials
    BY <1>6 DEF NewToSubmit, StoreOK, fill_new
  <2>2. Min(NewToSubmit) \in NewToSubmit
    BY <2>1, MinIsLeast
  <2>3. trial' = trial /\ todo = << >> /\ submit_trial(Min(NewToSubmit), 1, loop, "new", "end")
    BY <1>6 DEF fill_new, Here, store
  <2>4. ASSUME NEW n \in NewToSubmit
        PROVE  n \in Trials /\ Claims(trial[n])
    <3>1. n \in Trials /\ trial[n].state = "new" /\ trial[n].built
      BY <2>4 DEF NewToSubmit
    <3>2. OwnValue(trial[n], OverJobs) /\ trial[n] \in TrialRec
      BY <3>1 DEF TrialInv, ValuesOwn, StoreOK
    <3> QED
      BY <3>1, <3>2 DEF OwnValue, Claims
  <2> QED
    BY <2>2, <2>3, <2>4, SubmitTrialRun
<1>7. CASE poll_trials
  <2>1. trial' = trial /\ todo = << >>
    BY <1>7 DEF poll_trials, Here, store
  <2>2. ASSUME NEW n \in InFlight, NEW a, NEW l, submit_trial(n, a, l, "trials", "trials")
        PROVE  BlankStart' /\ OneClaim' /\ ClaimsOK' /\ AskOK'
    <3>1. n \in Trials /\ trial[n].state = "submitted"
      BY DEF InFlight
    <3>2. OwnValue(trial[n], OverJobs) /\ trial[n] \in TrialRec
      BY <3>1 DEF TrialInv, ValuesOwn, StoreOK
    <3>3. Claims(trial[n])
      BY <3>1, <3>2 DEF OwnValue, Claims
    <3> QED
      BY <2>1, <2>2, <3>1, <3>3, SubmitTrialRun
  <2>3. ASSUME at' = "trials", NEW n, NEW k, NEW ns, NEW ev, PolledEnds(n, k, ns, ev)
        PROVE  BlankStart' /\ OneClaim' /\ ClaimsOK' /\ AskOK'
    <3>1. k \in Nat /\ n \in Trials /\ trial[n].state = "submitted" /\ ns[1] = n /\ EndsOf(todo', k, ns, ev)
      BY <2>3 DEF PolledEnds, InFlight, EndsOf
    <3>2. \A m \in 2 .. k : trial[ns[m]].of = n
      BY <2>3 DEF PolledEnds
    <3>3. n # 0
      BY <3>1 DEF StoreOK
    <3>4. \A m \in 1 .. k : trial[ns[m]].state = "submitted" \/ trial[ns[m]].of # 0
      BY <3>1, <3>2, <3>3
    <3> QED
      BY <2>1, <2>3, <3>1, <3>4, EndsRun
  <2>4. ASSUME todo' = << >>, at' = "trials"
        PROVE  BlankStart' /\ OneClaim' /\ ClaimsOK' /\ AskOK'
    BY <1>2, <2>1, <2>4, RunRecorded
  <2> QED
    BY <1>7, <2>2, <2>3, <2>4, PolledTrial
<1>8. CASE drain
  <2>1. trial' = trial /\ todo = << >>
    BY <1>8 DEF drain, store, Here
  <2>2. at' = "full"
    BY <1>8, Drained
  <2>3. PICK k, ns : /\ EndsOf(todo', k, ns, NoMetrics)
                     /\ \A m \in 1 .. k : trial[ns[m]].state = "submitted"
    BY <1>8, Drained
  <2> HIDE DEF NoMetrics
  <2> QED
    BY <2>1, <2>2, <2>3, EndsRun
<1> QED
  BY <1>1, <1>3, <1>4, <1>5, <1>6, <1>7, <1>8

\* No configuration is claimed at first.
LEMMA OneRunInit == Init => OneRunInv
<1> SUFFICES ASSUME Init PROVE OneRunInv
  OBVIOUS
<1>1. Trials = {} /\ TrialEvents = {} /\ study = << >> /\ todo = << >> /\ at = "down"
  BY DEF Init, Trials, TrialEvents
<1> QED
  BY <1>1 DEF OneRunInv, BlankStart, OneClaim, ClaimsOK, AskOK

\* Until a stop, every step keeps the claims apart.
LEMMA OneRunStep ==
  ASSUME TypeInv, TypeInv', TrialInv, ImportInv, OneRunInv, [Next]_vars
  PROVE  OneRunInv'
<1> SUFFICES ASSUME crashes' = 0
             PROVE  BlankStart' /\ OneClaim' /\ ClaimsOK' /\ AskOK'
  BY DEF OneRunInv
<1>1. crashes \in Nat
  BY DEF TypeInv, OptimizerTypeOK
<1>2. crashes' # crashes + 1
  BY <1>1
<1>3. crashes = 0
  BY <1>2, StopsCounted, Zenon
<1>4. ~Crash /\ ~LoopError
  BY <1>2, Zenon DEF Crash, LoopError
<1>5. BlankStart /\ OneClaim /\ ClaimsOK /\ AskOK
  BY <1>3 DEF OneRunInv
<1>6. StoreOK
  BY DEF TypeInv, OptimizerTypeOK
<1>7. ImportsKnown
  BY <1>1, <1>3 DEF ImportInv, TornByError
<1> QED
  BY <1>4, <1>5, <1>6, <1>7, StepCases, PerformRun, QuietRun, ImportRun, AskRun, Zenon

\* Until the driver is stopped, at most one trial of a configuration is to run,
\* runs or has run without being an import or a duplicate.
THEOREM OneRunTracked == Spec => [](TypeInv /\ TrialInv /\ OneRunInv)
<1>1. Init => OneRunInv
  BY OneRunInit
<1>2. TypeInv /\ TypeInv' /\ TrialInv /\ ImportInv /\ OneRunInv /\ [Next]_vars => OneRunInv'
  BY OneRunStep
<1> QED
  BY <1>1, <1>2, ImportsTracked, PTL DEF Spec

\* As long as the driver is never stopped, the numbers that ask for a
\* configuration again are duplicates of its run (new_trial, fill_new).
THEOREM OneRunWithoutStops == Spec => []OneRunUnlessStopped
<1>1. TypeInv /\ TrialInv /\ OneRunInv => OneRunUnlessStopped
  <2> SUFFICES ASSUME TypeInv, TrialInv, OneRunInv, crashes = 0
               PROVE  OneRunPerConfig
    BY DEF OneRunUnlessStopped
  <2> SUFFICES ASSUME NEW m \in Trials, NEW n \in Trials,
                      m < n, trial[m].key = trial[n].key, trial[n].from = NoKey,
                      trial[m].state \in {"submitted", "done"}, trial[n].state \in {"submitted", "done"},
                      ~trial[m].lost, ~trial[n].lost, ~Dup(m), ~Dup(n)
               PROVE  FALSE
    BY DEF OneRunPerConfig
  <2>1. Claims(trial[m]) /\ Claims(trial[n])
    BY DEF Claims, Dup
  <2>2. BecomesDup(n, 1)
    BY <2>1 DEF OneRunInv, OneClaim
  <2>3. 1 \in TrialEvents /\ todo[1].n = n /\ todo[1].rec.of # 0
    BY <2>2 DEF BecomesDup
  <2> QED
    BY <2>3 DEF TrialInv, TrialsStand, Final
<1> QED
  BY <1>1, OneRunTracked, PTL

-----------------------------------------------------------------------------
(***************************************************************************)
(* Sign-off.                                                               *)
(***************************************************************************)
\* Trials and promotions change when an event is performed, results when a job
\* runs, and sub/ when a stage is about to be submitted.
LEMMA OnlyHere ==
  ASSUME [Next]_vars
  PROVE  /\ Perform \/ (trial' = trial /\ promo' = promo)
         /\ res' = res \/ \E j \in Jobs : JobStep(j)
         /\ sub' = sub \/ fill_signoff
<1>1. ASSUME NEW j \in Jobs, JobStep(j)
      PROVE  trial' = trial /\ promo' = promo /\ sub' = sub
  BY <1>1 DEF JobStep, StartJob, PreemptJob, EndJob, ShowResult, GraceOver, store, disk
<1>2. CASE UNCHANGED vars
  BY <1>2 DEF vars, store, disk
<1>3. CASE Perform
  BY <1>3 DEF Perform
<1>4. CASE Start \/ repair_imports \/ import_trials \/ reconcile
  BY <1>4 DEF Start, repair_imports, import_trials, reconcile, store, disk
<1>5. CASE ListJobs \/ poll_trials \/ poll_promos \/ drain
  BY <1>5 DEF ListJobs, poll_trials, poll_promos, drain, store, disk
<1>6. CASE fill_full \/ fill_signoff \/ promote_submit \/ fill_new
  BY <1>6 DEF fill_full, fill_signoff, promote_submit, fill_new, store, disk
<1>7. CASE maybe_promote \/ new_trial \/ Finish
  BY <1>7 DEF maybe_promote, new_trial, Finish, store, disk
<1>8. CASE Crash \/ LoopError
  BY <1>8 DEF Crash, LoopError, store, disk
<1>9. CASE StopFile \/ EarlierEnds
  BY <1>9 DEF StopFile, EarlierEnds, disk, store
<1> QED
  BY <1>1, <1>2, <1>3, <1>4, <1>5, <1>6, <1>7, <1>8, <1>9 DEF Next, Driver, Cluster, JobStep

\* What a performed event makes of the stages.
LEMMA StagePerformed ==
  ASSUME TypeInv, Perform
  PROVE  /\ \A p \in Promos : p \in Promos' /\ promo'[p].uid = promo[p].uid
         /\ \A p \in Promos', s \in STAGES :
              \/ p \in Promos /\ promo'[p].st[s] = promo[p].st[s]
              \/ /\ p \in Promos /\ promo[p].st[s].state # "done"
                 /\ 1 \in StageEvents /\ todo[1].n = p /\ todo[1].stage = s /\ promo'[p].st[s] = todo[1].rec
              \/ p \notin Promos /\ promo'[p].st[s] = NoStage
         /\ StageEvents' = {}
<1> USE DEF TypeInv, OptimizerTypeOK
<1>1. promo \in Seq(PromoRec) /\ \A p \in Promos : promo[p] \in PromoRec
  BY DEF StoreOK, Promos
<1> DEFINE e == Head(todo)
<1>2. e = todo[1] /\ 1 \in DOMAIN todo
  BY Rest
<1>3. StageEvents' = {}
  BY Rest DEF StageEvents, TodoOK
<1>4. CASE e.op = "promo"
  <2>1. promo' = Append(promo, NewPromo(e.n))
    BY <1>4 DEF Perform
  <2>2. NewPromo(e.n).st = [s \in STAGES |-> NoStage]
    BY DEF NewPromo
  <2> HIDE DEF e
  <2>3. /\ Promos' = Promos \cup {Len(promo) + 1} /\ Len(promo) + 1 \notin Promos
        /\ promo'[Len(promo) + 1] = NewPromo(e.n) /\ \A p \in Promos : promo'[p] = promo[p]
    BY <1>1, <2>1 DEF Promos
  <2> QED
    BY <1>3, <2>2, <2>3
<1>5. CASE e.op = "stage"
  <2>1. promo' = [promo EXCEPT ![e.n].st[e.stage] = e.rec]
    BY <1>5 DEF Perform
  <2>2. /\ e \in StageEffects /\ e.n \in Promos /\ promo[e.n].st[e.stage].state # "done" /\ e.stage \in STAGES
        /\ 1 \in StageEvents
    BY <1>2, <1>5 DEF TodoOK, StagesStand, StageEvents,
                      Effects, TrialEffects, StageEffects, PromoEffects, TellEffects, RmEffects
  <2> HIDE DEF e
  <2>3. Promos' = Promos /\ \A p \in Promos : p # e.n => promo'[p] = promo[p]
    BY <1>1, <2>1, <2>2 DEF Promos
  <2>4. promo[e.n].st \in [STAGES -> StageRec] /\ promo[e.n].uid \in Nat
    BY <1>1, <2>2 DEF PromoRec
  <2>5. promo'[e.n].st = [promo[e.n].st EXCEPT ![e.stage] = e.rec] /\ promo'[e.n].uid = promo[e.n].uid
    BY <1>1, <2>1, <2>2 DEF Promos, PromoRec
  <2>6. \A s \in STAGES : promo'[e.n].st[s] = IF s = e.stage THEN e.rec ELSE promo[e.n].st[s]
    BY <2>2, <2>4, <2>5
  <2> QED
    BY <1>2, <1>3, <2>2, <2>3, <2>5, <2>6
<1>6. CASE e.op \notin {"promo", "stage"}
  <2>1. promo' = promo
    BY <1>6 DEF Perform
  <2> QED
    BY <1>3, <2>1 DEF Promos
<1> QED
  BY <1>4, <1>5, <1>6

\* A promotion keeps its trial, and with it the directory of its full run.
LEMMA DirStays ==
  ASSUME TypeInv, TrialInv, [Next]_vars, NEW p \in Promos
  PROVE  p \in Promos' /\ DirOf(p)' = DirOf(p)
<1> USE DEF TypeInv, OptimizerTypeOK
<1>1. promo[p].uid \in Trials
  BY DEF StoreOK
<1>2. CASE trial' = trial /\ promo' = promo
  BY <1>2 DEF DirOf, Promos
<1>3. CASE Perform
  <2>1. p \in Promos' /\ promo'[p].uid = promo[p].uid
    BY <1>3, StagePerformed
  <2>2. ASSUME NEW n \in Trials
        PROVE  trial'[n].key = trial[n].key
    <3>1. CASE todo[1].op # "trial"
      BY <1>3, <3>1, Rest DEF Perform
    <3>2. CASE todo[1].op = "trial"
      BY <1>3, <3>2, RecordKept DEF TrialInv, TrialsStand
    <3> QED
      BY <3>1, <3>2
  <2> QED
    BY <1>1, <2>1, <2>2 DEF DirOf
<1> QED
  BY <1>2, <1>3, OnlyHere

\* A result is written by the job that has the directory and is not over.
LEMMA ResultsGoOn ==
  ASSUME TypeInv, [Next]_vars, NEW d \in Dirs, res'[d] # res[d]
  PROVE  \E j \in Jobs : job[j].state \in Active /\ job[j].dir = d /\ res'[d].job \in {0, j}
<1> USE DEF TypeInv, OptimizerTypeOK
<1>1. PICK j \in Jobs : JobStep(j)
  BY OnlyHere
<1>2. res \in [Dirs -> [job : 0 .. NJobs, status : Statuses]]
  BY DEF ClusterOK
<1>3. CASE StartJob(j)
  <2>1. job[j].state = "pending" /\ (res' = res \/ res' = [res EXCEPT ![job[j].dir] = NoResult])
    BY <1>3 DEF StartJob
  <2> QED
    BY <1>2, <2>1 DEF NoResult, Active
<1>4. CASE PreemptJob(j)
  <2>1. job[j].state = "running"
    BY <1>4 DEF PreemptJob
  <2>2. res' = res \/ res' = [res EXCEPT ![job[j].dir] = [job |-> j, status |-> "terminated"]]
    BY <1>4 DEF PreemptJob
  <2> QED
    BY <1>2, <2>1, <2>2 DEF Active
<1>5. CASE EndJob(j)
  <2>1. job[j].state = "running"
    BY <1>5 DEF EndJob
  <2>2. \E o : res' = res \/ res' = [res EXCEPT ![job[j].dir] = [job |-> j, status |-> o]]
    BY <1>5 DEF EndJob
  <2> QED
    BY <1>2, <2>1, <2>2 DEF Active
<1>6. CASE ShowResult(j) \/ GraceOver(j)
  BY <1>6 DEF ShowResult, GraceOver, disk
<1> QED
  BY <1>1, <1>3, <1>4, <1>5, <1>6 DEF JobStep

\* sub/ is filled once.
LEMMA SubStays ==
  ASSUME TypeInv, [Next]_vars, NEW p \in 1 .. MaxPromos, sub[p] # 0
  PROVE  sub'[p] = sub[p]
<1> USE DEF TypeInv, OptimizerTypeOK
<1>1. CASE sub' = sub
  BY <1>1
<1>2. CASE fill_signoff
  <2>1. PICK q \in Promos, s \in SIGNOFF : SignoffFilled(q, s)
    BY <1>2, StagesFilled
  <2>2. sub' = sub \/ sub' = [sub EXCEPT ![q] = prepare_sub(q)]
    BY <2>1 DEF SignoffFilled
  <2>3. sub[q] # 0 => prepare_sub(q) = sub[q]
    BY DEF prepare_sub
  <2> QED
    BY <2>2, <2>3 DEF ClusterOK
<1> QED
  BY <1>1, <1>2, OnlyHere

\* What a record of a stage says of jobs, results and sub/ stays true.
LEMMA StageKept ==
  ASSUME TypeInv, TrialInv, [Next]_vars, NEW p \in Promos, NEW s \in STAGES, NEW st \in StageRec,
         StageOK(p, s, st)
  PROVE  StageOK(p, s, st)'
<1> USE DEF TypeInv, OptimizerTypeOK
<1>1. p \in 1 .. MaxPromos /\ DirOf(p) \in Dirs /\ DirOf(p)' = DirOf(p)
  BY TrialDir, DirStays
<1>2. \A j \in Jobs : GoesOn(j)
  BY JobsGoOn
<1>3. st.submits \in SUBSET Jobs /\ st.job \in 0 .. NJobs /\ st.attempt \in 0 .. MAX_ATTEMPTS
  BY DEF StageRec, StageFields
<1>4. \A j \in Jobs : /\ Over(j) => Over(j)'
                      /\ \A d : InDir(j, d) => InDir(j, d)'
                      /\ job[j].state \in Active => ~Over(j) /\ InDir(j, job[j].dir)
  BY <1>2 DEF GoesOn, InDir, Over, Active
<1>5. CASE s = "full"
  <2>1. FullOK(p, st)
    BY <1>5 DEF StageOK
  <2>2. ASSUME st.result = "legal", \A j \in Jobs : InDir(j, DirOf(p))' => j \in st.submits
        PROVE  res'[DirOf(p)].job = st.job /\ res'[DirOf(p)].status = "legal"
    <3>1. \A j \in Jobs : InDir(j, DirOf(p)) => j \in st.submits
      BY <1>1, <1>4, <2>2
    <3>2. st.job \in Jobs /\ Over(st.job) /\ res[DirOf(p)].job = st.job /\ res[DirOf(p)].status = "legal"
      BY <2>1, <2>2, <3>1 DEF FullOK
    <3>3. ASSUME res'[DirOf(p)] # res[DirOf(p)]
          PROVE  FALSE
      <4>1. PICK j \in Jobs : job[j].state \in Active /\ job[j].dir = DirOf(p)
        BY <1>1, <3>3, ResultsGoOn
      <4>2. j \in st.submits /\ ~Over(j)
        BY <1>4, <3>1, <4>1
      <4> QED
        BY <2>1, <3>2, <4>2 DEF FullOK
    <3> QED
      BY <3>2, <3>3
  <2>3. FullOK(p, st)'
    BY <1>1, <1>3, <1>4, <2>1, <2>2 DEF FullOK
  <2> QED
    BY <1>5, <2>3 DEF StageOK
<1>6. CASE s # "full"
  <2>1. SignoffOK(p, s, st)
    BY <1>6 DEF StageOK
  <2>2. sub[p] # 0 => sub'[p] # 0
    BY <1>1, SubStays
  <2>3. ASSUME s = "eq", st.result = "equivalent"
        PROVE  LET r == res'[OutDir(p, "eq", st.attempt)] IN
               /\ st.job \in Jobs /\ Over(st.job)'
               /\ r.job = st.job => eq_record(CheckerRuns[r.status]) = "equivalent"
    <3> DEFINE d == OutDir(p, "eq", st.attempt)
    <3>1. st.job \in Jobs /\ Over(st.job) /\ (res[d].job = st.job => eq_record(CheckerRuns[res[d].status]) = "equivalent")
      BY <2>1, <2>3 DEF SignoffOK
    <3>2. "eq" \in SIGNOFF /\ st.attempt \in 1 .. MAX_ATTEMPTS /\ st.job # 0
      BY <1>3, <1>6, <2>1, <2>3, <3>1 DEF SignoffOK, STAGES, Jobs
    <3>3. d \in Dirs
      BY <1>1, <3>2, OutDirs
    <3> HIDE DEF d
    <3>4. ASSUME res'[d] # res[d]
          PROVE  res'[d].job # st.job
      <4>1. PICK j \in Jobs : job[j].state \in Active /\ res'[d].job \in {0, j}
        BY <3>3, <3>4, ResultsGoOn
      <4> QED
        BY <1>4, <3>1, <3>2, <4>1
    <3>5. res'[d].job = st.job => eq_record(CheckerRuns[res'[d].status]) = "equivalent"
      BY <3>1, <3>4
    <3> QED
      BY <1>4, <3>1, <3>5 DEF d
  <2>4. SignoffOK(p, s, st)'
    BY <2>1, <2>2, <2>3 DEF SignoffOK, OutDir
  <2> QED
    BY <1>6, <2>4 DEF StageOK
<1> QED
  BY <1>5, <1>6

\* A stage that is submitted, its first time or another.
LEMMA SubmittedSound ==
  ASSUME TypeInv, TrialInv, [Next]_vars, NEW p \in Promos, NEW s \in STAGES, NEW st \in StageRec,
         NEW a \in 1 .. MAX_ATTEMPTS, NEW j \in Jobs,
         StageOK(p, s, st), st.state # "done",
         s = "full" => st.state = "none" \/ (st.job \in Jobs => Over(st.job)),
         s # "full" => sub'[p] # 0
  PROVE  StageOK(p, s, AsSubmitted(st, j, a))'
<1> DEFINE r == AsSubmitted(st, j, a)
<1>1. /\ r.state = "submitted" /\ r.job = j /\ r.attempt = a /\ r.result = st.result
      /\ r.submits = st.submits \cup {j}
  BY DEF AsSubmitted, StageRec, StageFields
<1>2. j # 0 /\ a # 0 /\ st.submits \in SUBSET Jobs /\ r.result = "none"
  BY <1>1, OptimizerAssumption DEF Jobs, StageOK, StageRec, StageFields
<1> HIDE DEF r
<1>3. CASE s = "full"
  <2>1. FullOK(p, st)
    BY <1>3 DEF StageOK
  <2>2. \A i \in st.submits : Over(i)
    BY <1>2, <1>3, <2>1 DEF FullOK
  <2>3. \A i \in st.submits : Over(i)'
    BY <1>2, <2>2, JobsGoOn DEF GoesOn, TypeInv
  <2>4. FullOK(p, r)'
    BY <1>1, <1>2, <2>3 DEF FullOK
  <2> QED
    BY <1>1, <1>2, <1>3, <2>4 DEF StageOK, r
<1>4. CASE s # "full"
  <2>1. SignoffOK(p, s, r)'
    BY <1>1, <1>2, <1>4 DEF SignoffOK
  <2> QED
    BY <1>1, <1>2, <1>4, <2>1 DEF StageOK, r
<1> QED
  BY <1>3, <1>4

\* A stage that ends with what its job left.
AsDone(st, x) == [st EXCEPT !.state = "done", !.result = x]

\* The end of a full run says of its directory what was read there.
LEMMA FullDone ==
  ASSUME TypeInv, NEW p \in Promos, promo[p].st["full"].state = "submitted",
         StageOK(p, "full", promo[p].st["full"]), NEW x,
         x = IF Evaluation(promo[p].st["full"].job, DirOf(p)).legal THEN "legal" ELSE "illegal"
  PROVE  StageOK(p, "full", AsDone(promo[p].st["full"], x))
<1> USE DEF TypeInv, OptimizerTypeOK
<1> DEFINE st == promo[p].st["full"]
           r == AsDone(st, x)
<1>1. st \in StageRec
  BY TrialDir DEF PromoRec, STAGES
<1>2. /\ r.state = "done" /\ r.result = x /\ r.job = st.job /\ r.submits = st.submits
  BY <1>1 DEF AsDone, StageRec, StageFields
<1>3. FullOK(p, st) /\ st.job \in Jobs
  BY <1>1, OptimizerAssumption DEF StageOK, StageRec, StageFields, Jobs
<1>4. ASSUME x = "legal"
      PROVE  Over(st.job) /\ res[DirOf(p)].job = st.job /\ res[DirOf(p)].status = "legal"
  <2>1. Evaluation(st.job, DirOf(p)).legal
    BY <1>4
  <2>2. Visible(st.job, DirOf(p))
    BY <2>1 DEF Evaluation, NoMetrics
  <2>3. res[DirOf(p)].status = "legal"
    BY <2>1, <2>2 DEF Evaluation
  <2> QED
    BY <1>3, <2>2, <2>3 DEF Visible, Over, ClusterOK
<1> HIDE DEF r, st
<1>5. FullOK(p, r)
  BY <1>2, <1>3, <1>4 DEF FullOK
<1> QED
  BY <1>2, <1>5 DEF StageOK, r, st

\* The end of a sign-off stage records what its own job left, or a failure.
LEMMA SignoffDone ==
  ASSUME TypeInv, NEW p \in Promos, NEW s \in SIGNOFF, StageOK(p, s, promo[p].st[s]), NEW x,
         \/ x = "fail"
         \/ promo[p].st[s].state = "submitted" /\ x = read_signoff(p, s)
  PROVE  StageOK(p, s, AsDone(promo[p].st[s], x))
<1> USE DEF TypeInv, OptimizerTypeOK
<1> DEFINE st == promo[p].st[s]
           r == AsDone(st, x)
<1>1. st \in StageRec /\ s \in STAGES /\ s # "full"
  BY TrialDir, SignoffAssumption DEF PromoRec, STAGES
<1>2. /\ r.state = "done" /\ r.result = x /\ r.job = st.job /\ r.attempt = st.attempt
  BY <1>1 DEF AsDone, StageRec, StageFields
<1>3. SignoffOK(p, s, st) /\ (st.state = "submitted" => st.job # 0)
  BY <1>1 DEF StageOK
<1>4. ASSUME s = "eq", x = "equivalent"
      PROVE  /\ st.job \in Jobs /\ Over(st.job)
             /\ eq_record(CheckerRuns[res[OutDir(p, "eq", st.attempt)].status]) = "equivalent"
  <2>1. st.state = "submitted" /\ read_signoff(p, s) = "equivalent"
    BY <1>4
  <2>2. Visible(st.job, OutDir(p, s, st.attempt))
    BY <2>1 DEF read_signoff
  <2>3. eq_record(CheckerRuns[res[OutDir(p, s, st.attempt)].status]) = "equivalent"
    BY <1>4, <2>1, <2>2 DEF read_signoff
  <2>4. st.job \in Jobs
    BY <1>1, <1>3, <2>1, OptimizerAssumption DEF StageRec, StageFields, Jobs
  <2> QED
    BY <1>4, <2>2, <2>3, <2>4 DEF Visible, Over, ClusterOK
<1>6. x = "fail" \/ st.state = "submitted"
  OBVIOUS
<1> HIDE DEF r, st
<1>5. SignoffOK(p, s, r)
  <2>1. r.job # 0 => r.attempt # 0 /\ sub[p] # 0
    BY <1>2, <1>3 DEF SignoffOK
  <2>2. r.job = 0 => r.result \in {"none", "fail"}
    BY <1>2, <1>3, <1>6
  <2> QED
    BY <1>2, <1>4, <2>1, <2>2 DEF SignoffOK
<1> QED
  BY <1>1, <1>2, <1>5 DEF StageOK, r, st

\* The records of stages, those of events to perform among them, are typed.
LEMMA RecordTypes ==
  ASSUME TypeInv, NEW x \in Recorded \cup ToRecord
  PROVE  x[1] \in Promos /\ x[2] \in STAGES /\ x[3] \in StageRec
<1> USE DEF TypeInv, OptimizerTypeOK
<1>1. CASE x \in Recorded
  <2>1. PICK p \in Promos, s \in STAGES : x = <<p, s, promo[p].st[s]>>
    BY <1>1 DEF Recorded
  <2>2. promo[p].st[s] \in StageRec
    BY TrialDir DEF PromoRec
  <2> QED
    BY <2>1, <2>2
<1>2. CASE x \in ToRecord
  <2>1. PICK i \in StageEvents : x = <<todo[i].n, todo[i].stage, todo[i].rec>>
    BY <1>2 DEF ToRecord
  <2>2. todo[i] \in StageEffects /\ todo[i].n \in Promos
    BY DEF StageEvents, TodoOK, Effects, TrialEffects, StageEffects, PromoEffects, TellEffects, RmEffects
  <2> QED
    BY <2>1, <2>2 DEF StageEffects
<1> QED
  BY <1>1, <1>2

\* The same record, written as an element of the set.
LEMMA StageOKSame ==
  ASSUME NEW p, NEW s, NEW st, NEW x, x = <<p, s, st>>, StageOK(p, s, st)'
  PROVE  StageOK(x[1], x[2], x[3])'
<1>1. x[1] = p /\ x[2] = s /\ x[3] = st
  OBVIOUS
<1> QED
  BY <1>1 DEF StageOK, FullOK, SignoffOK, DirOf, OutDir, FlowDir, Over, InDir

\* What is recorded of a stage was to be recorded, or is that of a new promotion.
LEMMA RecordedSound ==
  ASSUME TypeInv, TrialInv, StagesSound, [Next]_vars, NEW x \in Recorded'
  PROVE  StageOK(x[1], x[2], x[3])'
<1>1. ASSUME x \in Recorded \cup ToRecord
      PROVE  StageOK(x[1], x[2], x[3])'
  <2>1. StageOK(x[1], x[2], x[3])
    BY <1>1 DEF StagesSound
  <2>2. x[1] \in Promos /\ x[2] \in STAGES /\ x[3] \in StageRec
    BY <1>1, RecordTypes
  <2> QED
    BY <2>1, <2>2, StageKept
<1>2. PICK p \in Promos', s \in STAGES : x = <<p, s, promo'[p].st[s]>>
  BY DEF Recorded
<1>3. CASE Perform
  <2>1. CASE p \in Promos /\ promo'[p].st[s] = promo[p].st[s]
    <3>1. x \in Recorded
      BY <1>2, <2>1 DEF Recorded
    <3> QED
      BY <1>1, <3>1
  <2>2. CASE 1 \in StageEvents /\ todo[1].n = p /\ todo[1].stage = s /\ promo'[p].st[s] = todo[1].rec
    <3>1. x \in ToRecord
      BY <1>2, <2>2 DEF ToRecord
    <3> QED
      BY <1>1, <3>1
  <2>3. CASE p \notin Promos /\ promo'[p].st[s] = NoStage
    <3>1. StageOK(p, s, NoStage)'
      BY DEF StageOK, FullOK, SignoffOK, NoStage
    <3> QED
      BY <1>2, <2>3, <3>1, StageOKSame
  <2> QED
    BY <1>3, <2>1, <2>2, <2>3, StagePerformed
<1>4. CASE ~Perform
  <2>1. promo' = promo
    BY <1>4, OnlyHere
  <2>2. x \in Recorded
    BY <1>2, <2>1 DEF Recorded, Promos
  <2> QED
    BY <1>1, <2>2
<1> QED
  BY <1>3, <1>4

\* A handler that leaves one event of a stage, which what it records bears out.
LEMMA OneToRecord ==
  ASSUME NEW p \in Nat, NEW s, NEW st, NEW d, StageOK(p, s, st)',
         todo' = <<EmitStage(p, s, st)>> \/ todo' = <<EmitStage(p, s, st), RemoveSnap(d)>>,
         NEW x \in ToRecord'
  PROVE  StageOK(x[1], x[2], x[3])'
<1> DEFINE e == EmitStage(p, s, st)
           y == RemoveSnap(d)
<1>1. /\ e.op = "stage" /\ e.n = p /\ e.stage = s /\ e.rec = st /\ y.op = "rmtree"
      /\ todo' = <<e>> \/ todo' = <<e, y>>
  BY EmitStageIs, Ops
<1> HIDE DEF e, y
<1>2. StageEvents' = {1} /\ todo'[1] = e
  BY <1>1 DEF StageEvents
<1>3. x = <<p, s, st>>
  BY <1>1, <1>2 DEF ToRecord
<1> QED
  BY <1>3, StageOKSame

\* ... as the submission of a stage,
LEMMA SubmittedToRecord ==
  ASSUME TypeInv, TrialInv, StagesSound, [Next]_vars, todo = << >>,
         NEW p \in Promos, NEW s \in STAGES, NEW a \in 1 .. MAX_ATTEMPTS, NEW d,
         NEW l, NEW done, NEW failed, submit_stage(p, s, a, d, l, done, failed),
         promo[p].st[s].state # "done",
         s = "full" => promo[p].st[s].state = "none" \/ (promo[p].st[s].job \in Jobs => Over(promo[p].st[s].job)),
         s # "full" => sub'[p] # 0,
         NEW x \in ToRecord'
  PROVE  StageOK(x[1], x[2], x[3])'
<1>1. PICK st : st = promo[p].st[s]
  OBVIOUS
<1>2. <<p, s, st>> \in Recorded
  BY <1>1 DEF Recorded
<1>3. StageOK(p, s, st) /\ st \in StageRec /\ p \in Nat
  <2> DEFINE y == <<p, s, st>>
  <2>1. y[1] = p /\ y[2] = s /\ y[3] = st
    OBVIOUS
  <2>2. StageOK(y[1], y[2], y[3]) /\ y[1] \in Promos /\ y[3] \in StageRec
    BY <1>2, RecordTypes DEF StagesSound
  <2> QED
    BY <2>1, <2>2, TrialDir DEF TypeInv, OptimizerTypeOK
<1>4. \/ todo' = << >>
      \/ \E j \in Unused : todo' = <<EmitStage(p, s, AsSubmitted(promo[p].st[s], j, a))>>
  BY SubmittedStageOnly
<1>5. CASE todo' = << >>
  BY <1>5 DEF ToRecord, StageEvents
<1>6. ASSUME NEW j \in Unused, todo' = <<EmitStage(p, s, AsSubmitted(promo[p].st[s], j, a))>>
      PROVE  StageOK(x[1], x[2], x[3])'
  <2>1. PICK r : r = AsSubmitted(st, j, a)
    OBVIOUS
  <2>2. j \in Jobs
    BY DEF Unused
  <2>3. StageOK(p, s, AsSubmitted(st, j, a))'
    BY <1>1, <1>3, <2>2, SubmittedSound
  <2>4. StageOK(p, s, r)'
    BY <2>1, <2>3 DEF StageOK, FullOK, SignoffOK, AsSubmitted
  <2> QED
    BY <1>1, <1>3, <1>6, <2>1, <2>4, OneToRecord
<1> QED
  BY <1>4, <1>5, <1>6

\* ... and its end.
LEMMA DoneToRecord ==
  ASSUME TypeInv, TrialInv, [Next]_vars, NEW p \in Promos, NEW s \in STAGES, NEW v \in Results, NEW d,
         StageOK(p, s, AsDone(promo[p].st[s], v)),
         todo' = <<StageDone(p, s, v)>> \/ todo' = <<StageDone(p, s, v), RemoveSnap(d)>>,
         NEW x \in ToRecord'
  PROVE  StageOK(x[1], x[2], x[3])'
<1>1. PICK r : r = AsDone(promo[p].st[s], v)
  OBVIOUS
<1>2. r \in StageRec
  <2>2. StoreOK
    BY DEF TypeInv, OptimizerTypeOK
  <2>1. [promo[p].st[s] EXCEPT !.state = "done", !.result = v] \in StageRec
    BY <2>2, DoneStageRec, Zenon
  <2> QED
    BY <1>1, <2>1 DEF AsDone
<1>6. p \in Nat
  BY TrialDir DEF TypeInv, OptimizerTypeOK
<1>3. StageOK(p, s, r)
  BY <1>1
<1>4. StageOK(p, s, r)'
  BY <1>2, <1>3, StageKept
<1>5. StageDone(p, s, v) = EmitStage(p, s, r)
  BY <1>1 DEF StageDone, AsDone
<1> QED
  BY <1>2, <1>4, <1>5, <1>6, OneToRecord

\* What polling a stage records of it.
LEMMA PolledSound ==
  ASSUME TypeInv, TrialInv, StagesSound, [Next]_vars, poll_promos, NEW x \in ToRecord'
  PROVE  StageOK(x[1], x[2], x[3])'
<1> USE DEF TypeInv, OptimizerTypeOK
<1>1. todo = << >> /\ sub' = sub
  BY DEF poll_promos, Here, disk
<1>2. PICK p \in Promos, s \in STAGES : promo[p].st[s].state = "submitted" /\ PolledStage(p, s)
  BY StagePolled
<1>4. StageOK(p, s, promo[p].st[s]) /\ promo[p].st[s] \in StageRec
  <2> DEFINE y == <<p, s, promo[p].st[s]>>
  <2>1. y \in Recorded
    BY DEF Recorded
  <2>2. y[1] = p /\ y[2] = s /\ y[3] = promo[p].st[s]
    OBVIOUS
  <2>3. StageOK(y[1], y[2], y[3]) /\ y[3] \in StageRec
    BY <2>1, RecordTypes DEF StagesSound
  <2> QED
    BY <2>2, <2>3
<1>5. s # "full" => s \in SIGNOFF /\ sub[p] # 0
  BY <1>2, <1>4 DEF STAGES, StageOK, SignoffOK
<1>6. ASSUME NEW a \in 1 .. MAX_ATTEMPTS, NEW d \in Dirs, NEW l,
             submit_stage(p, s, a, d, l, "promos", "promos"),
             s = "full" /\ promo[p].st[s].job \in Jobs => Over(promo[p].st[s].job)
      PROVE  StageOK(x[1], x[2], x[3])'
  BY <1>1, <1>2, <1>5, <1>6, SubmittedToRecord
<1>7. CASE todo' = << >>
  BY <1>7 DEF ToRecord, StageEvents
<1>8. ASSUME s = "full", NEW v, v = IF Evaluation(promo[p].st[s].job, DirOf(p)).legal THEN "legal" ELSE "illegal",
             todo' = <<StageDone(p, s, v), RemoveSnap(DirOf(p))>>
      PROVE  StageOK(x[1], x[2], x[3])'
  <2>1. StageOK(p, "full", AsDone(promo[p].st["full"], v))
    BY <1>2, <1>4, <1>8, FullDone
  <2>2. v \in Results
    BY <1>8 DEF Results, Statuses
  <2> QED
    BY <1>8, <2>1, <2>2, DoneToRecord
<1>9. ASSUME s \in SIGNOFF, NEW v, v = IF read_signoff(p, s) = "none" THEN "fail" ELSE read_signoff(p, s),
             todo' = <<StageDone(p, s, v)>>
      PROVE  StageOK(x[1], x[2], x[3])'
  <2>1. StageOK(p, s, AsDone(promo[p].st[s], v))
    BY <1>2, <1>4, <1>9, SignoffDone
  <2>2. promo[p].st[s].attempt # 0
    BY <1>2, <1>4 DEF StageRec
  <2>3. v \in Results
    BY <1>9, <2>2, SignoffType DEF Results, Statuses
  <2> QED
    BY <1>9, <2>1, <2>3, DoneToRecord
<1> QED
  BY <1>2, <1>6, <1>7, <1>8, <1>9 DEF PolledStage

\* ... and what filling records: a sign-off stage is submitted once sub/ is there.
LEMMA FilledSound ==
  ASSUME TypeInv, TrialInv, StagesSound, [Next]_vars, fill_full \/ fill_signoff \/ promote_submit,
         NEW x \in ToRecord'
  PROVE  StageOK(x[1], x[2], x[3])'
<1> USE DEF TypeInv, OptimizerTypeOK
<1>1. todo = << >>
  BY DEF fill_full, fill_signoff, promote_submit, Here
<1>2. "full" \in STAGES /\ SIGNOFF \subseteq STAGES /\ "full" \notin SIGNOFF /\ 1 \in 1 .. MAX_ATTEMPTS
  BY SignoffAssumption, OptimizerAssumption DEF STAGES
<1>3. CASE fill_full
  <2>1. PICK p \in Promos : /\ promo[p].st["full"].state = "none"
                            /\ submit_stage(p, "full", 1, DirOf(p), loop, "full", "end")
    BY <1>3, StagesFilled
  <2> QED
    BY <1>1, <1>2, <2>1, SubmittedToRecord
<1>4. CASE promote_submit
  <2>1. Len(promo) \in Promos /\ promo[Len(promo)].st["full"].state = "none"
    BY <1>4 DEF promote_submit, StagesStand, StoreOK, Promos
  <2>2. submit_stage(Len(promo), "full", 1, DirOf(Len(promo)), loop, "new", "new")
    BY <1>4 DEF promote_submit
  <2> QED
    BY <1>1, <1>2, <2>1, <2>2, SubmittedToRecord
<1>5. CASE fill_signoff
  <2>1. PICK p \in Promos, s \in SIGNOFF : SignoffFilled(p, s)
    BY <1>5, StagesFilled
  <2>2. s \in STAGES /\ s # "full" /\ promo[p].st[s].state = "none"
    BY <1>2, <2>1 DEF SignoffFilled
  <2>3. CASE todo' = todo
    BY <1>1, <2>3 DEF ToRecord, StageEvents
  <2>4. CASE todo' = <<StageDone(p, s, "fail")>>
    <3> DEFINE y == <<p, s, promo[p].st[s]>>
    <3>1. y \in Recorded
      BY <2>2 DEF Recorded
    <3>2. y[1] = p /\ y[2] = s /\ y[3] = promo[p].st[s]
      OBVIOUS
    <3>3. StageOK(p, s, promo[p].st[s])
      BY <3>1, <3>2 DEF StagesSound
    <3>4. StageOK(p, s, AsDone(promo[p].st[s], "fail"))
      BY <3>3, SignoffDone
    <3>5. "fail" \in Results
      BY DEF Results, Statuses
    <3> QED
      BY <2>2, <2>4, <3>4, <3>5, DoneToRecord
  <2>5. ASSUME sub' = [sub EXCEPT ![p] = prepare_sub(p)], prepare_sub(p) # 0,
               submit_stage(p, s, 1, OutDir(p, s, 1), loop, "signoff", "end")
        PROVE  StageOK(x[1], x[2], x[3])'
    <3>1. sub'[p] # 0
      BY <2>5, TrialDir DEF ClusterOK
    <3> QED
      BY <1>1, <1>2, <2>2, <2>5, <3>1, SubmittedToRecord
  <2> QED
    BY <2>1, <2>3, <2>4, <2>5 DEF SignoffFilled
<1> QED
  BY <1>3, <1>4, <1>5

\* Every step keeps the records of stages sound.
LEMMA SoundStep ==
  ASSUME TypeInv, TypeInv', TrialInv, StagesSound, [Next]_vars
  PROVE  StagesSound'
<1> USE DEF TypeInv, OptimizerTypeOK
<1>1. ASSUME \A i \in DOMAIN todo' : todo'[i].op # "stage"
      PROVE  ToRecord' = {}
  BY <1>1 DEF ToRecord, StageEvents
<1>2. SUFFICES ASSUME NEW x \in ToRecord'
               PROVE  StageOK(x[1], x[2], x[3])'
  BY RecordedSound DEF StagesSound
<1>3. CASE Aside
  <2>1. x \in ToRecord
    BY <1>3 DEF Aside, ToRecord, StageEvents
  <2>2. StageOK(x[1], x[2], x[3]) /\ x[1] \in Promos /\ x[2] \in STAGES /\ x[3] \in StageRec
    BY <2>1, RecordTypes DEF StagesSound
  <2> QED
    BY <2>2, StageKept
<1>4. CASE Perform
  BY <1>4, StagePerformed DEF ToRecord
<1>5. CASE Crash \/ LoopError
  <2>1. todo' = << >>
    BY <1>5, Zenon DEF Crash, LoopError
  <2> QED
    BY <1>1, <2>1
<1>6. CASE maybe_promote
  <2>1. (\E n : todo' = <<EmitPromo(n)>>) \/ todo' = todo
    BY <1>6 DEF maybe_promote
  <2>2. todo = << >>
    BY <1>6 DEF maybe_promote, Here
  <2> QED
    BY <1>1, <2>1, <2>2, Ops
<1>7. CASE \/ repair_imports \/ import_trials \/ reconcile
           \/ poll_trials \/ drain \/ fill_new \/ new_trial
  BY <1>1, <1>7, OtherHandlers
<1> QED
  BY <1>3, <1>4, <1>5, <1>6, <1>7, StepCases, PolledSound, FilledSound

\* A job that the record of a promotion's full run does not name stays in its directory.
LEMMA OthersStay ==
  ASSUME TypeInv, TrialInv, [Next]_vars, NEW p \in Promos,
         promo'[p].st["full"].submits = promo[p].st["full"].submits, OtherJobs(p) # {}
  PROVE  OtherJobs(p)' # {}
<1>1. PICK j \in Jobs : /\ job[j].state # "unused" /\ job[j].dir = DirOf(p)
                        /\ j \notin promo[p].st["full"].submits
  BY DEF OtherJobs
<1>2. job'[j].state # "unused" /\ job'[j].dir = job[j].dir
  BY <1>1, JobsGoOn DEF GoesOn, TypeInv
<1>3. DirOf(p)' = DirOf(p)
  BY DirStays
<1> QED
  BY <1>1, <1>2, <1>3 DEF OtherJobs

\* The record of a full run is sound.
LEMMA FullSound ==
  ASSUME StagesSound, NEW p \in Promos
  PROVE  StageOK(p, "full", promo[p].st["full"])
<1> DEFINE y == <<p, "full", promo[p].st["full"]>>
<1>1. y \in Recorded
  BY DEF Recorded, STAGES
<1>2. y[1] = p /\ y[2] = "full" /\ y[3] = promo[p].st["full"]
  OBVIOUS
<1> QED
  BY <1>1, <1>2 DEF StagesSound

\* sub/ is filled from the full run's directory, whose result is that of the
\* recorded job unless another job was put there.
LEMMA SubStep ==
  ASSUME TypeInv, TrialInv, SignoffInv, [Next]_vars, NEW p \in 1 .. MaxPromos, sub'[p] # 0
  PROVE  SubOK(p)'
<1> USE DEF TypeInv, OptimizerTypeOK
<1>1. ASSUME p \in Promos, promo[p].st["full"].result = "legal"
      PROVE  p \in Promos' /\ promo'[p].st["full"] = promo[p].st["full"]
  <2>1. promo[p].st["full"].state = "done"
    BY <1>1, FullSound DEF SignoffInv, StageOK
  <2>2. "full" \in STAGES
    BY DEF STAGES
  <2>3. p \in Promos'
    BY <1>1, DirStays
  <2>4. CASE promo' = promo
    BY <2>3, <2>4
  <2>5. CASE Perform
    BY <1>1, <2>1, <2>2, <2>3, <2>5, StagePerformed
  <2> QED
    BY <2>3, <2>4, <2>5, OnlyHere
<1>2. CASE sub[p] # 0
  <2>1. /\ p \in Promos /\ promo[p].st["full"].result = "legal"
        /\ sub[p] = promo[p].st["full"].job \/ OtherJobs(p) # {}
    BY <1>2 DEF SignoffInv, SubOK
  <2>2. sub'[p] = sub[p]
    BY <1>2, SubStays
  <2>3. p \in Promos' /\ promo'[p].st["full"] = promo[p].st["full"]
    BY <1>1, <2>1
  <2>4. sub'[p] = promo'[p].st["full"].job \/ OtherJobs(p)' # {}
    BY <2>1, <2>2, <2>3, OthersStay
  <2> QED
    BY <2>1, <2>3, <2>4 DEF SubOK
<1>3. CASE sub[p] = 0
  <2>1. PICK q \in Promos, s \in SIGNOFF : SignoffFilled(q, s)
    BY <1>3, OnlyHere, StagesFilled
  <2>2. q = p /\ sub'[p] = prepare_sub(p) /\ promo[p].st["full"].result = "legal"
    BY <1>3, <2>1, TrialDir DEF SignoffFilled, ClusterOK
  <2>3. sub'[p] = res[DirOf(p)].job
    BY <1>3, <2>2 DEF prepare_sub
  <2>4. p \in Promos' /\ promo'[p].st["full"] = promo[p].st["full"]
    BY <1>1, <2>1, <2>2
  <2>5. FullOK(p, promo[p].st["full"])
    BY <2>1, <2>2, FullSound DEF SignoffInv, StageOK
  <2>6. CASE OtherJobs(p) = {}
    <3>1. \A j \in Jobs : InDir(j, DirOf(p)) => j \in promo[p].st["full"].submits
      BY <2>6 DEF OtherJobs, InDir
    <3>2. res[DirOf(p)].job = promo[p].st["full"].job
      BY <2>2, <2>5, <3>1 DEF FullOK
    <3> QED
      BY <2>2, <2>3, <2>4, <3>2 DEF SubOK
  <2>7. CASE OtherJobs(p) # {}
    <3>1. OtherJobs(p)' # {}
      BY <2>1, <2>2, <2>4, <2>7, OthersStay
    <3> QED
      BY <2>2, <2>4, <3>1 DEF SubOK
  <2> QED
    BY <2>6, <2>7
<1> QED
  BY <1>2, <1>3

\* There is no promotion at first.
LEMMA SignoffInit == Init => SignoffInv
<1> SUFFICES ASSUME Init PROVE SignoffInv
  OBVIOUS
<1>1. Promos = {} /\ StageEvents = {} /\ \A p \in 1 .. MaxPromos : sub[p] = 0
  BY DEF Init, Promos, StageEvents
<1> QED
  BY <1>1 DEF SignoffInv, StagesSound, Recorded, ToRecord, SubOK

\* A legal full run is the one whose result is still in its directory unless a
\* job that is not recorded was put there; sub/ holds its files; and a sign-off
\* stage keeps the verdict its own job left.
THEOREM SignoffTracked == Spec => [](TypeInv /\ TrialInv /\ SignoffInv)
<1>1. Init => SignoffInv
  BY SignoffInit
<1>2. TypeInv /\ TypeInv' /\ TrialInv /\ SignoffInv /\ [Next]_vars => SignoffInv'
  <2> SUFFICES ASSUME TypeInv, TypeInv', TrialInv, SignoffInv, [Next]_vars
               PROVE  SignoffInv'
    OBVIOUS
  <2>1. StagesSound'
    BY SoundStep DEF SignoffInv
  <2>2. \A p \in 1 .. MaxPromos : SubOK(p)'
    <3> SUFFICES ASSUME NEW p \in 1 .. MaxPromos
                 PROVE  SubOK(p)'
      OBVIOUS
    <3>1. CASE sub'[p] # 0
      BY <3>1, SubStep
    <3>2. CASE sub'[p] = 0
      BY <3>2 DEF SubOK
    <3> QED
      BY <3>1, <3>2
  <2> QED
    BY <2>1, <2>2 DEF SignoffInv
<1> QED
  BY <1>1, <1>2, TrialsConsistent, PTL DEF Spec

\* A promotion that passes has every stage, and each of them passes.
LEMMA PassMeans ==
  ASSUME NEW st, promotion_verdict(st) = "PASS"
  PROVE  /\ st["full"].result = "legal"
         /\ \A s \in SIGNOFF : st[s].result = IF s = "eq" THEN "equivalent" ELSE "pass"
<1>1. st["full"].state = "done" /\ StagePasses("full", st["full"].result)
  BY DEF promotion_verdict
<1> DEFINE done == {s \in SIGNOFF : st[s].state = "done"}
           notrun == {s \in done : s = "gl" /\ st[s].result = "not_run"}
           failed == {s \in done \ notrun : ~StagePasses(s, st[s].result)}
<1>2. failed = {} /\ done = SIGNOFF /\ notrun = {}
  BY <1>1 DEF promotion_verdict
<1>3. \A s \in SIGNOFF : StagePasses(s, st[s].result)
  BY <1>2
<1>4. \A s \in SIGNOFF : s # "full"
  BY SignoffAssumption
<1> QED
  BY <1>1, <1>3, <1>4 DEF StagePasses

\* The checker's record says equivalent only when its run ended by itself with
\* that verdict and had read the files it was given (eq_record, parse_eq).
LEMMA EquivalentMeans ==
  ASSUME NEW c, eq_record(c) = "equivalent"
  PROVE  c.verdict = "equivalent" /\ c.outer = 0 /\ c.inputs
<1>1. parse_eq(c) = "equivalent" /\ (c.written => c.inputs)
  BY DEF eq_record
<1>2. c.written /\ c.schema /\ c.verdict \in DOMAIN FE_VERDICTS
  BY <1>1 DEF parse_eq
<1>3. c.outer = FE_VERDICTS[c.verdict] /\ c.verdict = "equivalent"
  BY <1>1, <1>2 DEF parse_eq
<1> QED
  BY <1>1, <1>2, <1>3 DEF FE_VERDICTS

\* What was signed off is what was found legal, and the equivalence check that
\* passed it read the files it was given (promote_submit, fill_signoff, eq_record).
THEOREM PassIsWhatWasSignedOff == Spec => []PassIsSignedOff
<1>1. TypeInv /\ TrialInv /\ SignoffInv => PassIsSignedOff
  <2> SUFFICES ASSUME TypeInv, SignoffInv, NEW p \in Promos, promotion_verdict(promo[p].st) = "PASS"
               PROVE  LET eq == promo[p].st["eq"]
                          r == res[OutDir(p, "eq", eq.attempt)] IN
                      /\ sub[p] = promo[p].st["full"].job \/ OtherJobs(p) # {}
                      /\ "eq" \in SIGNOFF /\ r.job = eq.job =>
                           LET c == CheckerRuns[r.status] IN c.verdict = "equivalent" /\ c.outer = 0 /\ c.inputs
    BY DEF PassIsSignedOff
  <2>1. \A s \in SIGNOFF : promo[p].st[s].result = IF s = "eq" THEN "equivalent" ELSE "pass"
    BY PassMeans
  <2>2. ASSUME NEW s \in SIGNOFF
        PROVE  SignoffOK(p, s, promo[p].st[s])
    <3> DEFINE y == <<p, s, promo[p].st[s]>>
    <3>4. s \in STAGES
      BY DEF STAGES
    <3>1. y \in Recorded
      BY <3>4 DEF Recorded
    <3>2. y[1] = p /\ y[2] = s /\ y[3] = promo[p].st[s] /\ s # "full"
      BY SignoffAssumption
    <3>3. StageOK(p, s, promo[p].st[s])
      BY <3>1, <3>2 DEF SignoffInv, StagesSound
    <3> QED
      BY <3>2, <3>3 DEF StageOK
  <2>3. sub[p] # 0
    <3>1. PICK s \in SIGNOFF : TRUE
      BY OptimizerAssumption
    <3>2. promo[p].st[s].result \in {"equivalent", "pass"}
      BY <2>1
    <3> QED
      BY <2>2, <3>2 DEF SignoffOK
  <2>4. sub[p] = promo[p].st["full"].job \/ OtherJobs(p) # {}
    BY <2>3, TrialDir DEF SignoffInv, SubOK, TypeInv, OptimizerTypeOK
  <2>5. ASSUME "eq" \in SIGNOFF,
               res[OutDir(p, "eq", promo[p].st["eq"].attempt)].job = promo[p].st["eq"].job
        PROVE  eq_record(CheckerRuns[res[OutDir(p, "eq", promo[p].st["eq"].attempt)].status]) = "equivalent"
    BY <2>1, <2>2, <2>5 DEF SignoffOK
  <2> QED
    BY <2>4, <2>5, EquivalentMeans
<1> QED
  BY <1>1, SignoffTracked, PTL
=============================================================================

----------------------------- MODULE CpuBudget -----------------------------
(***************************************************************************)
(* submit.py --cpu-budget (scripts/sweep): the tasks of a sweep that do    *)
(* not fit into the budget wait for earlier tasks to end, so that "the cap *)
(* holds at every moment without anything polling" (submit.py 40-47).      *)
(* Each call replays what is queued into chunks of capacity, each of which *)
(* becomes free when some tasks have ended, and places its new tasks on    *)
(* chunks in the order of their estimated release.                         *)
(***************************************************************************)
EXTENDS Integers, Sequences, FiniteSets, FiniteSetsExt, SequencesExt

CONSTANTS
  Budgets,       \* values of --cpu-budget: CPUs of all tasks on a partition together
  Sizes          \* bound: the tasks of all calls, each with the CPUs it may ask for

VARIABLES
  task,          \* submitted tasks in order: [cpus, state, deps]
  planned        \* the call under way: tasks planned and not submitted yet

sweepVars == <<task, planned>>

BudgetInit == task = << >> /\ planned = << >>

Ids == DOMAIN task
Ended(j) == task[j].state = "ENDED"
Open(j) == {d \in task[j].deps : ~Ended(d)}       \* squeue's unfulfilled dependencies
Active == {j \in Ids : ~Ended(j)}
Total(chunks) == FoldLeft(LAMBDA sum, ch : sum + ch.cap, 0, chunks)
Cpus(js) == FoldSet(LAMBDA j, sum : sum + task[j].cpus, 0, js)

Chunk(deps, cap, avail) == [deps |-> deps, cap |-> cap, avail |-> avail]
NonEmpty(chunks) == SelectSeq(chunks, LAMBDA ch : ch.cap > 0)
ByAvail(chunks) == SortSeq(chunks, LAMBDA a, b : a.avail < b.avail)
Least(a, b) == IF a < b THEN a ELSE b
Most(a, b) == IF a > b THEN a ELSE b
MaxTasks == Len(Sizes)
EST == 1                                          \* the estimate of a queued task

-----------------------------------------------------------------------------
(* _take: CPUs from some chunks in order, and from when on they are free.  *)
take(chunks, idxs, need) ==
  FoldLeft(LAMBDA acc, i :
             LET t == Least(acc.chunks[i].cap, need - acc.taken) IN
             IF t <= 0 THEN acc
             ELSE [taken |-> acc.taken + t, avail |-> Most(acc.avail, acc.chunks[i].avail),
                   chunks |-> [acc.chunks EXCEPT ![i].cap = @ - t]],
           [taken |-> 0, avail |-> 0, chunks |-> chunks], idxs)

(* Tasks that hold their CPUs now: what is over the budget already is paid *)
(* back by the earliest releases.                                          *)
Holding(budget, order, est) ==
  LET free == budget - Cpus(ToSet(order))
      first == IF free > 0 THEN <<Chunk({}, free, 0)>> ELSE << >>
      step(acc, j) == LET paid == Least(task[j].cpus, acc.deficit) IN
        [deficit |-> acc.deficit - paid,
         chunks  |-> Append(acc.chunks, Chunk({j}, task[j].cpus - paid, est[j]))]
  IN  FoldLeft(step, [deficit |-> Most(0, -free), chunks |-> first], order).chunks

(* A task that waits takes over what its own dependencies release, and is  *)
(* charged the earliest capacity for what these do not cover; that         *)
(* capacity may be free later than the task starts.                        *)
Xreplay_NotCharged(chunks, j) ==                                 \* mutant
  Append(chunks, Chunk({j}, task[j].cpus, EST))
replay(chunks0, j) ==
  LET chunks == ByAvail(chunks0)
      all == [i \in DOMAIN chunks |-> i]
      usable == SelectSeq(all, LAMBDA i : chunks[i].cap > 0 /\ chunks[i].deps \subseteq Open(j))
      own  == SelectSeq(usable, LAMBDA i : chunks[i].deps # {})
      free == SelectSeq(usable, LAMBDA i : chunks[i].deps = {})
      mine == take(chunks, own \o free, task[j].cpus)
      rest == take(mine.chunks, all, task[j].cpus - mine.taken)
  IN  Append(NonEmpty(rest.chunks), Chunk({j}, task[j].cpus, Most(mine.avail, rest.avail) + EST))

(* The queue as chunks, for one order and estimate of those that hold CPUs.*)
capacity_chunks(budget, est) ==
  LET order == SortSeq(SetToSeq({j \in Active : Open(j) = {}}), LAMBDA a, b : est[a] < est[b] \/ (est[a] = est[b] /\ a < b))
      later == SelectSeq([j \in Ids |-> j], LAMBDA j : j \in Active /\ Open(j) # {})
  IN  NonEmpty(FoldLeft(replay, Holding(budget, order, est), later))

(* place: one new task on the chunks, a single chunk if none that together *)
(* suffice are free sooner; what is left of them stays tied to all their   *)
(* dependencies.  The new task is known by the number it will get.         *)
place(acc, cpus) ==
  LET chunks == ByAvail(acc.chunks)
      wide == {i \in DOMAIN chunks : chunks[i].cap >= cpus}
      Upto(n) == Total(SubSeq(chunks, 1, n))
      prefixes == {n \in DOMAIN chunks : Upto(n) >= cpus}
      n == IF prefixes = {} THEN Len(chunks) ELSE Min(prefixes)
      combined == IF prefixes = {} THEN 99 ELSE Max({chunks[i].avail : i \in 1 .. n})
      use == IF wide # {} /\ chunks[Min(wide)].avail <= combined THEN {Min(wide)} ELSE 1 .. n
      deps == UNION {chunks[i].deps : i \in use}
      total == FoldSet(LAMBDA i, sum : sum + chunks[i].cap, 0, use)
      avail == Max({chunks[i].avail : i \in use})
      others == SelectSeq([i \in DOMAIN chunks |-> i], LAMBDA i : i \notin use)
      me == Len(task) + Len(acc.plan) + 1
  IN  [plan |-> Append(acc.plan, [cpus |-> cpus, state |-> "PENDING", deps |-> deps]),
       placed |-> acc.placed /\ total >= cpus,
       chunks |-> [k \in DOMAIN others |-> chunks[others[k]]]
                    \o (IF total > cpus THEN <<Chunk(deps, total - cpus, avail)>> ELSE << >>)
                    \o <<Chunk({me}, cpus, avail + EST)>>]
plan_budget(wanted, budget, est) ==
  FoldLeft(place, [plan |-> << >>, placed |-> TRUE, chunks |-> capacity_chunks(budget, est)], wanted)

-----------------------------------------------------------------------------
(* A call plans its tasks from the queue of the moment and submits them:   *)
(* first those that start now, in groups of one size, then, one by one,    *)
(* those that wait; so the ids do not follow the order they were planned   *)
(* in.  A call with a task it cannot place submits nothing.                *)
Submitted(plan) ==
  LET all   == [k \in DOMAIN plan |-> k]
      groups == [c \in 1 .. Max(Budgets) |-> SelectSeq(all, LAMBDA k : plan[k].deps = {} /\ plan[k].cpus = c)]
      order == FlattenSeq(groups) \o SelectSeq(all, LAMBDA k : plan[k].deps # {})
      newid(d) == IF d <= Len(task) THEN d
                  ELSE Len(task) + (CHOOSE i \in DOMAIN order : order[i] = d - Len(task))
  IN  [i \in DOMAIN order |-> [plan[order[i]] EXCEPT !.deps = {newid(d) : d \in @}]]

submit ==
  /\ planned = << >>
  /\ \E n \in 1 .. MaxTasks - Len(task) :
     \E budget \in Budgets, est \in [Active -> 1 .. 2] :
     \E wanted \in {w \in [1 .. n -> UNION Range(Sizes)] :
                      \A k \in 1 .. n : w[k] \in Sizes[Len(task) + k] /\ w[k] <= budget} :
       LET p == plan_budget(wanted, budget, est) IN p.placed /\ planned' = Submitted(p.plan)
  /\ UNCHANGED task

sbatch ==
  /\ planned # << >>
  /\ task' = Append(task, Head(planned)) /\ planned' = Tail(planned)

(* Slurm: a task starts when all it waits for have ended, ends, or is      *)
(* preempted and queued again.                                             *)
start(j) == /\ task[j].state = "PENDING" /\ Open(j) = {}
            /\ task' = [task EXCEPT ![j].state = "RUNNING"] /\ UNCHANGED planned
end(j) == /\ task[j].state = "RUNNING"
          /\ task' = [task EXCEPT ![j].state = "ENDED"] /\ UNCHANGED planned
requeue(j) == /\ task[j].state = "RUNNING"
              /\ task' = [task EXCEPT ![j].state = "PENDING"] /\ UNCHANGED planned

BudgetNext == submit \/ sbatch \/ \E j \in Ids : start(j) \/ end(j) \/ requeue(j)
BudgetSpec == BudgetInit /\ [][BudgetNext]_sweepVars

-----------------------------------------------------------------------------
(* "The cap holds at every moment without anything polling, also across    *)
(* preemption/requeue (a requeued task is not 'ended')" (submit.py 44-46); *)
(* and "internal: cannot place ... within the budget" (311) does not       *)
(* happen to a task that is not larger than the budget.  With calls that   *)
(* ask for different budgets the largest one is meant.  It holds as long   *)
(* as all tasks need as many CPUs, and fails with tasks of several sizes:  *)
(* see module MCFlow.                                                      *)
CapHolds ==
  /\ Cpus({j \in Ids : task[j].state = "RUNNING"}) <= Max(Budgets)
  /\ planned = << >> /\ Len(task) < MaxTasks =>
       \A b \in Budgets, c \in Sizes[Len(task) + 1] : c <= b => plan_budget(<<c>>, b, [j \in Active |-> 1]).placed
=============================================================================

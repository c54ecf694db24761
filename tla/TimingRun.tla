----------------------------- MODULE TimingRun -----------------------------
(***************************************************************************)
(* An engine runs a program from START beside the checker that follows it  *)
(* through the boundary graph of the static analysis                       *)
(* (tools/timing/pe_validate.py, RunChecker).  The engine is module        *)
(* EngineStep with its data; the world outside sets the level of every     *)
(* released pad, the words and events it waits for, at every edge.         *)
(***************************************************************************)
EXTENDS Timing

CONSTANT Images      \* the programs

VARIABLES
  image,             \* the program
  graph, periods,    \* its analysis, and the range of the period of each of its loops
  engine, data,      \* of the engine: sequencing; registers, pins, PINS
  sync1, sync2,      \* the two flip-flops of every owned pin
  hyps,              \* hypotheses of the checker
  verdict,           \* of the checker: running, ended, failed
  waiting,           \* history: the last attempt blocked
  since              \* history: cycles since each loop header was issued (NotYet: never)
vars == <<image, graph, periods, engine, data, sync1, sync2, hyps, verdict, waiting, since>>

NotYet == -1

nodes == graph.nodes

(***************************************************************************)
(* The engine: data of one edge.                                           *)
(***************************************************************************)
Pad(e, d, p) == IF Active(e) THEN pad1(d.val[p], d.dir[p], p) ELSE "Z"
Pads(e, d) == [p \in Owned |-> Pad(e, d, p)]
StartedData == [regs |-> <<0, 0, 0, 0>>, xpins |-> [clk |-> 0, tx |-> 0, rx |-> 0],
                val |-> [p \in Pins |-> 0], dir |-> [p \in Pins |-> 0]]

tx_bit(msb, word) == Bit(word, IF msb THEN Width - 1 ELSE 0)
shift_tx(msb, word) == IF msb THEN (2 * word) % (2^Width) ELSE word \div 2
sample(msb, word, bit) ==
  IF msb THEN (2 * word + bit) % (2^Width) ELSE word \div 2 + bit * 2^(Width - 1)

\* a transition of a transfer with `remaining' of them to come, this one included
Transition(d, m, remaining, bit) ==
  LET active == remaining % 2 = 0
      shifting == m.drive /\ (active = (m.cpha = 1))
      tx == d.regs[1]
      shown == IF m.cpha = 1 THEN tx ELSE shift_tx(m.msb, tx)
      c == [d EXCEPT !.val[d.xpins.clk] = IF active THEN 1 - m.cpol ELSE m.cpol,
                     !.regs[1] = IF shifting THEN shift_tx(m.msb, @) ELSE @,
                     !.regs[2] = IF m.sample /\ active = (m.cpha = 0) THEN sample(m.msb, @, bit) ELSE @] IN
  IF shifting /\ (m.cpha = 1 \/ remaining # 1) THEN [c EXCEPT !.val[d.xpins.tx] = tx_bit(m.msb, shown)] ELSE c

Compute(ins, d) ==
  LET x == d.regs[ins.a]  y == d.regs[ins.b] IN
  CASE ins.op = "mov"  -> y
    [] ins.op = "load" -> ins.n
    [] ins.op = "add"  -> ((x + y) % (2^Width))
    [] ins.op = "xor"  -> x ^^ y
    [] ins.op = "and"  -> x & y
    [] ins.op = "or"   -> x | y
    [] ins.op = "shl"  -> (x * 2^ins.n) % (2^Width)
    [] ins.op = "shr"  -> x \div 2^ins.n
    [] ins.op = "not"  -> Mask - x

\* the data after an instruction that completes (or a transfer that starts),
\* with what the outside supplied: a word or a bit
Effect(d, ins, word) ==
  LET bit == word % 2  msb == ins.mode.msb  pins == d.xpins IN
  CASE ins.kind = "pull" -> [d EXCEPT !.regs[1] = word]
    [] ins.kind = "xfer" ->
         LET idle == [d EXCEPT !.val[pins.clk] = ins.mode.cpol] IN
         IF ins.mode.cpha = 0 /\ ins.mode.drive
         THEN [idle EXCEPT !.val[pins.tx] = tx_bit(msb, d.regs[1])] ELSE idle
    [] ins.kind = "step" /\ ins.op = "set" -> [d EXCEPT !.val = [p \in Pins |-> Bit(ins.n, p)]]
    [] ins.kind = "step" /\ ins.op = "dir" -> [d EXCEPT !.dir = [p \in Pins |-> Bit(ins.n, p)]]
    [] ins.kind = "step" /\ ins.op = "out" ->
         [d EXCEPT !.val[ins.a] = tx_bit(msb, d.regs[1]), !.regs[1] = shift_tx(msb, @)]
    [] ins.kind = "step" /\ ins.op = "in"  -> [d EXCEPT !.regs[2] = sample(msb, @, bit)]
    [] ins.kind = "step" /\ ins.op = "pins" -> [d EXCEPT !.xpins = [clk |-> ins.a, tx |-> ins.b, rx |-> ins.m]]
    [] ins.kind = "step" /\ ins.op = "time" -> [d EXCEPT !.regs[ins.a] = word]
    [] ins.kind = "step" /\ ins.op \in ALU -> [d EXCEPT !.regs[ins.a] = Compute(ins, d)]
    [] OTHER -> d

\* what the engine issues at its program counter
Issues(e, d) ==
  LET ins == image[e.pc + 1] IN
  IF ins.kind = "xfer" /\ ~XferAllowed([xpins |-> d.xpins], ins) THEN [ins EXCEPT !.kind = "invalid"] ELSE ins
Edge(e, d, met, word) ==
  LET im == IF Inside(e, image) THEN [image EXCEPT ![e.pc + 1] = Issues(e, d)] ELSE image
      next == Step(e, im, met)
      moved == next.completed # e.completed IN
  [e |-> next,
   d |-> IF e.timer # 0 \/ ~Inside(e, image) THEN d
         ELSE IF e.edges # 0
         THEN IF e.tick > 1 THEN d ELSE Transition(d, image[e.pc + 1].mode, e.edges, word % 2)
         ELSE IF moved \/ next.edges # 0 THEN Effect(d, Issues(e, d), word) ELSE d]

(***************************************************************************)
(* What the tracer records of an edge (_Instance.after_tick).              *)
(***************************************************************************)
NoAttempt == [pc |-> -1, outcome |-> "none", code |-> 0]
Attempt(e, next) ==
  IF e.timer # 0 \/ e.edges # 0 THEN NoAttempt
  ELSE [pc |-> e.pc, code |-> next.fault,
        outcome |-> IF next.fault # 0 THEN "fault"
                    ELSE IF next.completed # e.completed \/ next.edges # 0 THEN "done" ELSE "blocked"]

(***************************************************************************)
(* The checker.  A hypothesis: the run is in this variant of this node,    *)
(* `age' edges after its anchor, and, once it has arrived at the boundary, *)
(* `stall' edges after arriving.                                           *)
(***************************************************************************)
spawn(key, shown) ==
  {[key |-> key, leg |-> leg, age |-> 0, arrived |-> FALSE, stall |-> 0, cur |-> shown] :
     leg \in nodes[key].variants}

_fold(v, age) == IF v.kind = "periodic" /\ age >= v.t + v.arg THEN v.t + ((age - v.t) % v.arg) ELSE age
EventsAt(v, kinds, age) == {e \in ToSet(v.ev) : e.kind \in kinds /\ e.t = age}

Released(shown) == \A p \in Owned : shown[p] = "Z"
Cap == DefaultLimit + 1      \* stalls are told apart up to here

\* What becomes of a hypothesis: it survives, gives way to those of the next
\* node, ends, or dies.
Survives(h) == [end |-> FALSE, hyps |-> {h}]
Ends == [end |-> TRUE, hyps |-> {}]
Dies == [end |-> FALSE, hyps |-> {}]

_boundary(h, att, shown) ==
  LET v == h.leg.v  succ == nodes[h.leg.succ]  kind == image[v.arg + 1].kind IN
  IF att.pc # v.arg THEN Dies
  ELSE IF att.outcome = "fault"
  THEN IF att.code = 3 /\ h.stall = succ.st.limit - 1 /\ kind \in {"waitpin", "waitevent"} /\ Released(shown)
       THEN Ends ELSE Dies
  ELSE IF \E p \in Owned : shown[p] # h.cur[p] THEN Dies
  ELSE IF att.outcome = "blocked"
  THEN IF h.stall + 1 > succ.max_stall THEN Dies ELSE Survives([h EXCEPT !.stall = IF @ < Cap THEN @ + 1 ELSE @])
  ELSE IF h.stall < succ.min_stall THEN Dies
  ELSE [end |-> FALSE, hyps |-> spawn(h.leg.succ, shown)]

_advance(hyp, att, shown, before) ==
  LET v == hyp.leg.v
      age == IF hyp.arrived THEN 0 ELSE _fold(v, hyp.age + 1)
      h == [hyp EXCEPT !.age = age]
      expected == EventsAt(v, {"issue", "arrive"}, age)
      written == EventsAt(v, {"pad"}, age)
      predicted == [p \in Owned |->
                      LET w == SelectSeq(v.ev, LAMBDA e : e \in written /\ e.pin = p) IN
                      IF w = << >> THEN {h.cur[p]} ELSE Last(w).after]
      terminal == v.kind \in {"halt", "fault"} /\ age = v.t IN
  IF h.arrived THEN IF att = NoAttempt THEN Dies ELSE _boundary(h, att, shown)
  ELSE IF {e.pc : e \in expected} # (IF att = NoAttempt THEN {} ELSE {att.pc}) THEN Dies
  ELSE IF att # NoAttempt /\ v.kind = "boundary" /\ age = v.t
  THEN _boundary([h EXCEPT !.arrived = TRUE, !.age = 0], att, shown)
  ELSE IF att.outcome = "fault" /\ ~(v.kind = "fault" /\ age = v.t)
  THEN IF att.code = 4 /\ image[att.pc + 1].kind = "push" /\ image[att.pc + 1].n = 1 /\ Released(shown)
       THEN Ends ELSE Dies
  ELSE IF \E p \in Owned : \/ shown[p] \notin predicted[p]
                           \/ shown[p] # before[p] /\ ~\E e \in written : e.pin = p
  THEN Dies
  ELSE IF att = NoAttempt THEN Survives([h EXCEPT !.cur = shown])
  ELSE IF terminal
  THEN IF /\ att.outcome = (IF v.kind = "halt" THEN "done" ELSE "fault")
          /\ v.kind = "fault" => att.code = v.arg
       THEN Ends ELSE Dies
  ELSE IF att.outcome = "done" THEN Survives([h EXCEPT !.cur = shown]) ELSE Dies

\* check: one tick of a run
check(att, shown, before) ==
  LET results == {_advance(h, att, shown, before) : h \in hyps} IN
  IF \E r \in results : r.end THEN Ends
  ELSE [end |-> FALSE, hyps |-> UNION {r.hyps : r \in results}]

(***************************************************************************)
(* Distances between events, over the graph g of a program im (Query).     *)
(* What is looked for is an instruction, or a change of a pad.             *)
(***************************************************************************)
At(im, pc) == [kind |-> IF Blocking(im[pc + 1]) THEN "arrive" ELSE "issue", pcs |-> {pc}]
Matches(e, what) ==
  e.kind = what.kind /\ IF what.kind = "pad" THEN e.pin = what.pin /\ e.after \in what.after
                        ELSE e.pc \in what.pcs
_first_in(v, what) ==
  LET found == SelectSeq(v.ev, LAMBDA e : Matches(e, what)) IN IF found = << >> THEN {} ELSE {Head(found).t}
Firsts(g, key, what) == UNION {_first_in(leg.v, what) : leg \in g[key].variants}
Continues(g, key, what) ==        \* variants without a match that go on
  {leg \in g[key].variants : /\ _first_in(leg.v, what) = {}
                             /\ leg.v.kind = "boundary" /\ ~g[leg.succ].deadlock}

Repeated(Round(_), first, n) == FoldLeft(LAMBDA best, i : Round(best), first, [i \in 1 .. n |-> i])
(* Mutant: a wait that is crossed is taken to be over at once.             *)
Xstalls_AtOnce(node) == [min |-> node.min_stall, max |-> node.min_stall]
\* what crossing a boundary may add
stalls(node) == [min |-> node.min_stall, max |-> node.max_stall]
_solve_min(g, what) ==
  LET Round(best) ==
        [key \in DOMAIN g |->
           Min({INF} \cup Firsts(g, key, what) \cup
               {leg.v.t + stalls(g[leg.succ]).min + best[leg.succ] : leg \in Continues(g, key, what)})] IN
  Repeated(Round, [key \in DOMAIN g |-> INF], Cardinality(DOMAIN g) + 2)
_solve_max(g, what) ==
  LET cyclic == on_cycle(DOMAIN g, [key \in DOMAIN g |-> {leg.succ : leg \in Continues(g, key, what)}])
      Round(best) ==
        [key \in DOMAIN g |->
           IF key \in cyclic THEN INF
           ELSE Min({INF, Max({-INF} \cup Firsts(g, key, what) \cup
               {leg.v.t + stalls(g[leg.succ]).max + best[leg.succ] : leg \in Continues(g, key, what)})})] IN
  Repeated(Round, [key \in DOMAIN g |-> -INF], Cardinality(DOMAIN g))

\* Query.after, for the i-th event of a variant: least and greatest distance
\* to the next match.
after(g, leg, i, what, mins, maxs) ==
  LET v == leg.v
      later == SelectSeq(SubSeq(v.ev, i + 1, Len(v.ev)), LAMBDA e : Matches(e, what))
      body == SelectSeq(v.ev, LAMBDA e : e.t >= v.t /\ Matches(e, what))
      Exactly(d) == [min |-> d, max |-> d] IN
  IF later # << >> THEN Exactly(Head(later).t - v.ev[i].t)
  ELSE IF v.kind = "periodic" /\ body # << >> THEN Exactly(Head(body).t + v.arg - v.ev[i].t)
  ELSE IF v.kind # "boundary" \/ g[leg.succ].deadlock THEN [min |-> INF, max |-> -INF]
  ELSE [min |-> v.t - v.ev[i].t + stalls(g[leg.succ]).min + mins[leg.succ],
        max |-> v.t - v.ev[i].t + stalls(g[leg.succ]).max + maxs[leg.succ]]

\* From every match of one thing to the next match of another.
distances(g, from, what) ==
  LET mins == _solve_min(g, what)  maxs == _solve_max(g, what) IN
  UNION {UNION {{after(g, leg, i, what, mins, maxs) : i \in {i \in DOMAIN leg.v.ev : Matches(leg.v.ev[i], from)}} :
           leg \in g[key].variants} : key \in DOMAIN g}
summarize(ranges) ==
  LET finite == {r \in ranges : r.min < INF} IN
  [min |-> Min({INF} \cup {r.min : r \in finite}), max |-> Max({-INF} \cup {r.max : r \in finite})]

\* The range of the time between two issues of a loop header.
loop_periods(im, g, pc) == summarize(distances(g, At(im, pc), At(im, pc)))
\* (a header that is itself a soft boundary is left out: see the README)
headers(im) == {h \in 0 .. Len(im) - 1 :
                  \E i \in DOMAIN im : im[i].kind \in {"jmp", "loop", "jz"} /\ im[i].n = h /\ h < i} \ soft_branches(im)

(***************************************************************************)
(* A run.                                                                  *)
(***************************************************************************)
\* Times between issues are told apart only as far as the range that was
\* reported tells them apart.
Horizon(pc) == IF periods[pc].max >= INF THEN periods[pc].min ELSE periods[pc].max + 1
Sampled == {p \in Owned : \E i \in DOMAIN image :
              \/ image[i].a = p /\ (image[i].kind = "waitpin" \/ image[i].op = "in")
              \/ image[i].m = p /\ image[i].op = "pins"}
Synchronized(levels) == {s \in [Owned -> {0, 1}] : \A p \in Owned : s[p] \in IF p \in Sampled THEN levels[p] ELSE {0}}

Init ==
  /\ image \in Images
  /\ graph = NewGraph /\ periods = << >>
  /\ engine = Cleared /\ data = StartedData
  /\ sync1 = [p \in Owned |-> 0] /\ sync2 = sync1
  /\ hyps = {} /\ verdict = "analysis" /\ waiting = FALSE /\ since = << >>

\* A turn of the worklist.
Explore ==
  /\ graph.queue # << >>
  /\ graph' = explore(image, graph)
  /\ UNCHANGED <<image, periods, engine, data, sync1, sync2, hyps, verdict, waiting, since>>

\* START, with the synchronizers of the released pins at any level.
Start ==
  /\ verdict = "analysis" /\ graph.queue = << >>
  /\ periods' = [pc \in headers(image) |-> loop_periods(image, nodes, pc)]
  /\ engine' = Started
  /\ sync1' \in Synchronized([p \in Owned |-> {0, 1}]) /\ sync2' \in Synchronized([p \in Owned |-> {0, 1}])
  /\ hyps' = spawn(StartKey, [p \in Owned |-> "Z"])
  /\ verdict' = "running"
  /\ since' = [pc \in headers(image) |-> NotYet]
  /\ UNCHANGED <<image, graph, data, waiting>>

\* Whether what the engine issues may complete, and the word or bit it is given.
Supplies ==
  IF engine.timer # 0 THEN {<<FALSE, 0>>}
  ELSE IF ~Inside(engine, image) THEN {<<FALSE, 0>>}
  ELSE LET ins == image[engine.pc + 1]
           SeenAt(p) == IF p \in Owned THEN {sync2[p]} ELSE {0, 1} IN
       CASE ins.kind = "pull" -> {<<FALSE, 0>>} \cup {<<TRUE, word>> : word \in 0 .. Mask}
         [] ins.kind \in {"push", "waitevent"} -> {<<FALSE, 0>>, <<TRUE, 0>>}
         [] ins.kind = "waitpin" -> {<<level = ins.b, 0>> : level \in SeenAt(ins.a)}
         [] ins.kind = "jz" -> {<<data.regs[ins.a] = 0, 0>>}
         [] ins.kind = "xfer" -> {<<FALSE, bit>> : bit \in IF ins.mode.sample /\ engine.edges # 0
                                                          THEN SeenAt(data.xpins.rx) ELSE {0}}
         [] ins.kind = "step" /\ ins.op = "in" -> {<<FALSE, bit>> : bit \in SeenAt(ins.a)}
         [] ins.kind = "step" /\ ins.op = "time" -> {<<FALSE, word>> : word \in 0 .. Mask}
         [] OTHER -> {<<FALSE, 0>>}

Tick ==
  /\ verdict = "running"
  /\ \E s \in Supplies :
       LET next == Edge(engine, data, s[1], s[2])
           att == Attempt(engine, next.e)
           shown == Pads(next.e, next.d)
           result == check(att, shown, Pads(engine, data)) IN
       /\ engine' = next.e /\ data' = next.d
       /\ hyps' = result.hyps
       /\ verdict' = IF result.end THEN "ended" ELSE IF result.hyps = {} THEN "failed" ELSE "running"
       /\ since' = [pc \in DOMAIN since |->
                      IF att.pc = pc /\ ~waiting THEN 0
                      ELSE IF since[pc] = NotYet \/ since[pc] >= Horizon(pc) THEN since[pc] ELSE since[pc] + 1]
       /\ waiting' = (att.outcome = "blocked")
  /\ sync2' = sync1
  /\ sync1' \in Synchronized([p \in Owned |-> Level(Pad(engine, data, p))])
  /\ UNCHANGED <<image, graph, periods>>

Next == Explore \/ Start \/ Tick
Spec == Init /\ [][Next]_vars

(***************************************************************************)
(* Properties.                                                             *)
(***************************************************************************)
(* Every run of a program is one of the paths of its analysis: each        *)
(* instruction is attempted on a predicted edge, each pad changes only     *)
(* when and as predicted, each wait lasts between its bounds, and the run  *)
(* ends as predicted.  A boundary reported as a self-deadlock is not       *)
(* followed further (DeadlockIsCertain is about those).                    *)
Followed == \A key \in DOMAIN nodes : ~nodes[key].deadlock
Tracked == Followed => verdict # "failed"

(* A loop comes round no sooner and no later than loop_periods reports.    *)
PeriodsHold ==
  [][\A pc \in DOMAIN since :
       Followed /\ since[pc] # NotYet /\ Attempt(engine, engine').pc = pc /\ ~waiting /\ verdict' = "running" =>
         since[pc] + 1 \in periods[pc].min .. periods[pc].max]_vars

(* docs/timing-analysis.md 107: "If the engine forces the opposite level   *)
(* at all three look-back points, the wait can only time out."             *)
DeadlockIsCertain ==
  [][LET contexts == {key \in DOMAIN nodes : key.bpc = engine.pc} IN
     verdict = "running" /\ contexts # {} /\ (\A key \in contexts : nodes[key].deadlock)
       => engine'.completed = engine.completed]_vars
=============================================================================

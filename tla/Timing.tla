------------------------------- MODULE Timing -------------------------------
(***************************************************************************)
(* The static timing analyzer (tools/timing/pe_timing.py): a program is    *)
(* executed abstractly from START; time is exact between the instructions  *)
(* that wait for the outside world, and the graph of those boundaries,     *)
(* with the range of their stalls, bounds everything else.                 *)
(*                                                                         *)
(* An instruction is a record of module EngineStep with what its data      *)
(* needs: op (which computation or pin write), registers or pins a and b,  *)
(* the transfer mode.  Kind "invalid" stands for every operand the decoder *)
(* rejects, pins that are not owned included.                              *)
(***************************************************************************)
EXTENDS Integers, Sequences, FiniteSets, SequencesExt, FiniteSetsExt, Bitwise, EngineStep

CONSTANTS
  NPins, Owned, OpenDrain,    \* pins 0 .. NPins-1; the engine's; its open-drain ones
  Width,                      \* bits of a register
  MaxContexts                 \* contexts of one boundary before they are merged (512)

Pins == 0 .. NPins - 1
Bit(n, i) == (n \div 2^i) % 2
Mask == 2^Width - 1

(***************************************************************************)
(* Abstract states: a value is known or Unknown.                           *)
(***************************************************************************)
Unknown == -1
Maybe(bit) == IF bit = Unknown THEN {0, 1} ELSE {bit}

START_STATE ==
  [pc |-> 0, repeat |-> 0, limit |-> DefaultLimit, regs |-> <<0, 0, 0, 0>>,
   xpins |-> [clk |-> 0, tx |-> 0, rx |-> 0],
   val |-> [p \in Pins |-> 0], dir |-> [p \in Pins |-> 0]]

\* the pad of a pin: driven low, driven high, or released
pad1(v, d, p) ==
  IF p \in OpenDrain THEN IF d = 1 /\ v = 0 THEN "0" ELSE "Z"
  ELSE IF d = 0 THEN "Z" ELSE IF v = 1 THEN "1" ELSE "0"

pad_mask(st, p) == {pad1(v, d, p) : v \in Maybe(st.val[p]), d \in Maybe(st.dir[p])}
pads(st) == [p \in Owned |-> pad_mask(st, p)]
Level(pad) == CASE pad = "0" -> {0} [] pad = "1" -> {1} [] pad = "Z" -> {0, 1}
pad_levels(mask) == UNION {Level(pad) : pad \in mask}

drive(st, p, bit) == [st EXCEPT !.val[p] = bit]

shift_out(tx, msb) ==
  IF tx = Unknown THEN [bit |-> Unknown, tx |-> Unknown]
  ELSE [bit |-> Bit(tx, IF msb THEN Width - 1 ELSE 0),
        tx  |-> IF msb THEN (2 * tx) % (2^Width) ELSE tx \div 2]

\* op(x, y) of two registers, in a way that is exact whenever it can be
alu(ins, regs) ==
  LET x == regs[ins.a]  y == regs[ins.b]
      Both(v) == IF x = Unknown \/ y = Unknown THEN Unknown ELSE v
      One(v) == IF x = Unknown THEN Unknown ELSE v IN
  CASE ins.op = "mov"  -> y
    [] ins.op = "load" -> ins.n
    [] ins.op = "add"  -> Both((x + y) % (2^Width))
    [] ins.op = "xor"  -> IF ins.a = ins.b THEN 0 ELSE Both(x ^^ y)
    [] ins.op = "and"  -> IF 0 \in {x, y} THEN 0 ELSE Both(x & y)
    [] ins.op = "or"   -> IF Mask \in {x, y} THEN Mask ELSE Both(x | y)
    [] ins.op = "shl"  -> One((x * 2^ins.n) % (2^Width))
    [] ins.op = "shr"  -> One(x \div 2^ins.n)
    [] ins.op = "not"  -> One(Mask - x)
    [] ins.op = "time" -> Unknown
ALU == {"mov", "load", "add", "xor", "and", "or", "shl", "shr", "not", "time"}

(***************************************************************************)
(* A path is a state, the time since the anchor, and the events so far.    *)
(***************************************************************************)
PadEvent(t, p, pc, before, after, ends) ==
  [t |-> t, kind |-> "pad", pin |-> p, pc |-> pc, before |-> before, after |-> after, ends |-> ends]
Event(t, kind, p, pc) == [PadEvent(t, p, pc, {}, {}, FALSE) EXCEPT !.kind = kind]
NoPin == -1

\* A write of the value (or direction) bits changes a pad if some completion
\* of the bits that are unknown makes a difference.
changes(old, new, p, field) ==
  IF field = "val"
  THEN \E v \in Maybe(old.val[p]), d \in Maybe(old.dir[p]), w \in Maybe(new.val[p]) :
         pad1(v, d, p) # pad1(w, d, p)
  ELSE \E v \in Maybe(old.val[p]), d \in Maybe(old.dir[p]), e \in Maybe(new.dir[p]) :
         pad1(v, d, p) # pad1(v, e, p)
PinEvents(pins, event) ==       \* in the order of the pins
  FoldLeft(LAMBDA ev, i : IF i - 1 \in pins THEN Append(ev, event[i - 1]) ELSE ev,
           << >>, [i \in 1 .. NPins |-> i])
pad_events(t, pc, old, new, pins, field) ==
  PinEvents({p \in pins \cap Owned : changes(old, new, p, field)},
            [p \in Owned |-> PadEvent(t, p, pc, pad_mask(old, p), pad_mask(new, p), FALSE)])

release(path) ==
  PinEvents({p \in Owned : pad_mask(path.st, p) # {"Z"}},
            [p \in Owned |-> PadEvent(path.t, p, path.st.pc, pad_mask(path.st, p), {"Z"}, TRUE)])

(* Mutant: the look-back is one edge short.                                *)
XLOOPBACK_LATENCY_Two == 2
LOOPBACK_LATENCY == 3        \* own write on edge w is seen on edge w+3
Deadlocked == -1

\* The least stall of a WAITPIN on an owned pin: the attempt on edge T reads
\* the pad as left by edge T-3, which before the anchor is anybody's guess.
wait_min_stall(path, p, level) ==
  LET Left(x) == LET before == SelectSeq(path.ev, LAMBDA e : e.kind = "pad" /\ e.pin = p /\ e.t <= x)
                 IN IF before = << >> THEN path.li[p] ELSE Last(before).after
      x(stall) == path.t - LOOPBACK_LATENCY + stall
      possible == {stall \in 0 .. LOOPBACK_LATENCY - 1 :
                     x(stall) < 0 \/ level \in pad_levels(Left(x(stall)))} IN
  IF possible = {} THEN Deadlocked ELSE Min(possible)

Blocking(ins) == ins.kind \in {"pull", "waitpin", "waitevent"} \/ (ins.kind = "push" /\ ins.n = 0)

\* branches on a cycle without a blocking instruction: an exit on any
\* iteration becomes a boundary without a stall
Targets(image, pc) ==
  LET ins == image[pc + 1] IN
  {s \in CASE ins.kind \in {"halt", "fault", "invalid"} \/ Blocking(ins) -> {}
           [] ins.kind = "jmp" -> {ins.n}
           [] ins.kind \in {"loop", "jz"} -> {ins.n, pc + 1}
           [] OTHER -> {pc + 1} : s < Len(image)}
\* the nodes of a graph that can come back to themselves
on_cycle(nodes, succs) ==
  LET After(node) == FoldLeft(LAMBDA S, i : S \cup UNION {succs[t] : t \in S}, succs[node],
                              [i \in 1 .. Cardinality(nodes) |-> i]) IN
  {node \in nodes : node \in After(node)}
soft_branches(image) ==
  LET pcs == 0 .. Len(image) - 1
  IN  {pc \in on_cycle(pcs, [pc \in pcs |-> Targets(image, pc)]) : image[pc + 1].kind \in {"jz", "loop"}}

\* An XFER: clock transitions half a period apart; events at their times.
XferAllowed(st, ins) ==
  /\ st.xpins.clk \in Owned
  /\ ins.mode.drive => st.xpins.tx \in Owned /\ st.xpins.tx # st.xpins.clk
xfer(path, ins) ==
  LET st == path.st  m == ins.mode  clk == st.xpins.clk  txp == st.xpins.tx
      Write(acc, t, p, bit) ==
        LET new == drive(acc.st, p, bit) IN
        [st |-> new, ev |-> acc.ev \o pad_events(t, st.pc, acc.st, new, {p}, "val")]
      Samples(active) == m.sample /\ active = (m.cpha = 0)
      Edge(acc, k) ==
        LET t == path.t + (k + 1) * ins.m
            active == k % 2 = 0
            c == Write(acc, t, clk, IF active THEN 1 - m.cpol ELSE m.cpol)
            \* the data line shows the bit that leaves TX, or the one after it
            shifts == m.drive /\ active = (m.cpha = 1)
            next == shift_out(acc.st.regs[1], m.msb)
            bit == IF m.cpha = 1 THEN next.bit ELSE shift_out(next.tx, m.msb).bit
            d == IF shifts /\ (m.cpha = 1 \/ k < 2 * ins.n - 1) THEN Write(c, t, txp, bit) ELSE c IN
        [st |-> [d.st EXCEPT !.regs[1] = IF shifts THEN next.tx ELSE @,
                             !.regs[2] = IF Samples(active) THEN Unknown ELSE @],
         ev |-> IF Samples(active) THEN Append(d.ev, Event(t, "sample", st.xpins.rx, st.pc)) ELSE d.ev]
      idle == Write([st |-> st, ev |-> << >>], path.t, clk, m.cpol)
      first == IF m.drive /\ m.cpha = 0 THEN Write(idle, path.t, txp, shift_out(st.regs[1], m.msb).bit) ELSE idle IN
  FoldLeft(LAMBDA acc, k : Edge(acc, k - 1), first, [k \in 1 .. 2 * ins.n |-> k])

\* An instruction that does not block: the paths that continue after it.
Issue(path, ins) ==
  LET st == path.st  t == path.t  pc == st.pc
      Goto(new, to, dt, ev) ==
        [path EXCEPT !.st = [new EXCEPT !.pc = to], !.t = t + dt,
                     !.ev = @ \o <<Event(t, "issue", NoPin, pc)>> \o ev]
      On(new, ev) == {Goto(new, pc + 1, 1, ev)} IN
  CASE ins.kind = "wait"  -> {Goto(st, pc + 1, ins.n + 1, << >>)}
    [] ins.kind = "jmp"   -> {Goto(st, ins.n, 1, << >>)}
    [] ins.kind = "push"  -> {[Goto(st, pc + 1, 1, << >>) EXCEPT !.strict = @ \cup {t}]}
    [] ins.kind = "count" -> On([st EXCEPT !.repeat = ins.n], << >>)
    [] ins.kind = "limit" -> On([st EXCEPT !.limit = ins.n], << >>)
    [] ins.kind = "loop"  ->
         IF st.repeat = Unknown THEN {Goto(st, ins.n, 1, << >>)} \cup On(st, << >>)
         ELSE IF st.repeat = 0 THEN On(st, << >>)
         ELSE {Goto([st EXCEPT !.repeat = @ - 1], ins.n, 1, << >>)}
    [] ins.kind = "jz"    ->
         LET r == st.regs[ins.a] IN
         IF r = Unknown THEN {Goto([st EXCEPT !.regs[ins.a] = 0], ins.n, 1, << >>)} \cup On(st, << >>)
         ELSE IF r = 0 THEN {Goto(st, ins.n, 1, << >>)} ELSE On(st, << >>)
    [] ins.kind = "xfer"  -> LET x == xfer(path, ins) IN {Goto(x.st, pc + 1, 2 * ins.n * ins.m + 1, x.ev)}
    [] ins.kind = "step" /\ ins.op = "set" ->
         LET new == [st EXCEPT !.val = [p \in Pins |-> Bit(ins.n, p)]]
         IN On(new, pad_events(t, pc, st, new, Pins, "val"))
    [] ins.kind = "step" /\ ins.op = "dir" ->
         LET new == [st EXCEPT !.dir = [p \in Pins |-> Bit(ins.n, p)]]
         IN On(new, pad_events(t, pc, st, new, Pins, "dir"))
    [] ins.kind = "step" /\ ins.op = "out" ->
         LET s == shift_out(st.regs[1], ins.mode.msb)
             new == [drive(st, ins.a, s.bit) EXCEPT !.regs[1] = s.tx]
         IN On(new, pad_events(t, pc, st, new, {ins.a}, "val"))
    [] ins.kind = "step" /\ ins.op = "in" ->
         On([st EXCEPT !.regs[2] = Unknown], <<Event(t, "sample", ins.a, pc)>>)
    [] ins.kind = "step" /\ ins.op = "pins" ->
         On([st EXCEPT !.xpins = [clk |-> ins.a, tx |-> ins.b, rx |-> ins.m]], << >>)
    [] ins.kind = "step" /\ ins.op \in ALU -> On([st EXCEPT !.regs[ins.a] = alu(ins, st.regs)], << >>)
    [] OTHER -> On(st, << >>)

(***************************************************************************)
(* A segment, from an anchor to every boundary, end or loop it may reach.  *)
(***************************************************************************)
Variant(path, kind, t, arg) ==
  [ev |-> path.ev, kind |-> kind, t |-> t, arg |-> arg, exit |-> path.st,
   wait_min |-> 0, strict |-> path.strict]
Ended(path, kind, code) ==
  Variant([path EXCEPT !.ev = @ \o <<Event(path.t, "issue", NoPin, path.st.pc)>> \o release(path)],
          kind, path.t, code)
Arrives(path, ins) ==
  [Variant([path EXCEPT !.ev = Append(@, Event(path.t, "arrive", NoPin, path.st.pc))],
           "boundary", path.t, path.st.pc)
     EXCEPT !.wait_min = IF ins.kind = "waitpin" /\ ins.a \in Owned
                         THEN wait_min_stall(path, ins.a, ins.b) ELSE 0]

RECURSIVE segment(_, _)
segment(image, path) ==
  LET pc == path.st.pc
      ins == image[pc + 1]
      After(p) ==        \* after a backward branch the loop may be periodic
        LET seen == {s \in p.seen : s.st = p.st} IN
        IF p.st.pc > pc THEN segment(image, p)
        ELSE IF seen # {}
        THEN LET t == (CHOOSE s \in seen : TRUE).t IN {Variant(p, "periodic", t, p.t - t)}
        ELSE segment(image, [p EXCEPT !.seen = @ \cup {[st |-> p.st, t |-> p.t]}]) IN
  IF pc >= Len(image) THEN {Ended(path, "fault", 2)}
  ELSE IF ins.kind = "invalid" \/ (ins.kind = "xfer" /\ ~XferAllowed(path.st, ins))
  THEN {Ended(path, "fault", 1)}
  ELSE IF \/ Blocking(ins)
          \/ /\ pc \in soft_branches(image)
             /\ \/ ins.kind = "jz" /\ path.st.regs[ins.a] = Unknown
                \/ ins.kind = "loop" /\ path.st.repeat = Unknown
  THEN {Arrives(path, ins)}
  ELSE IF ins.kind = "halt" THEN {Ended(path, "halt", 0)}
  ELSE IF ins.kind = "fault" THEN {Ended(path, "fault", ins.n)}
  ELSE UNION {After(p) : p \in Issue(path, ins)}

(***************************************************************************)
(* The boundary graph.  A node is a boundary in a context; too many        *)
(* contexts of one boundary are merged into one over-approximate node,     *)
(* which is explored again whenever it grows.                              *)
(***************************************************************************)
INF == 1000000
StartKey == [bpc |-> -1, wide |-> FALSE, st |-> START_STATE]
WideKey(bpc) == [bpc |-> bpc, wide |-> TRUE, st |-> START_STATE]
NewNode(st) == [st |-> st, min_stall |-> 0, max_stall |-> 0, deadlock |-> FALSE,
                stall_set |-> FALSE, variants |-> {}]

join(a, b) ==
  LET j(x, y) == IF x = y THEN x ELSE Unknown IN
  [pc |-> a.pc, repeat |-> j(a.repeat, b.repeat), limit |-> IF a.limit > b.limit THEN a.limit ELSE b.limit,
   regs |-> [r \in 1 .. 4 |-> j(a.regs[r], b.regs[r])], xpins |-> a.xpins,
   val |-> [p \in Pins |-> j(a.val[p], b.val[p])], dir |-> [p \in Pins |-> j(a.dir[p], b.dir[p])]]

IsBranch(image, bpc) == bpc >= 0 /\ image[bpc + 1].kind \in {"jz", "loop"}

stall_bounds(image, node, v) ==
  LET ins == image[v.arg + 1]
      stuck == ins.kind = "waitpin" /\ ins.a \in Owned /\ v.wait_min = Deadlocked
      least == IF stuck THEN node.st.limit - 1 ELSE v.wait_min IN
  IF IsBranch(image, v.arg) THEN [node EXCEPT !.stall_set = TRUE]
  ELSE IF ins.kind \in {"pull", "push"} THEN [node EXCEPT !.max_stall = INF, !.stall_set = TRUE]
  ELSE [node EXCEPT !.max_stall = node.st.limit - 1,
                    !.deadlock = @ \/ stuck,
                    !.min_stall = IF node.stall_set /\ @ < least THEN @ ELSE least,
                    !.stall_set = TRUE]

\* The node a variant arrives at, with whether it has to be explored (again).
node_for(image, nodes, v) ==
  LET bpc == v.arg
      key == [bpc |-> bpc, wide |-> FALSE, st |-> v.exit]
      wkey == WideKey(bpc)
      contexts == {k \in DOMAIN nodes : k.bpc = bpc /\ ~k.wide}
      old == nodes[wkey]
      joined == IF wkey \in DOMAIN nodes THEN join(old.st, v.exit) ELSE v.exit
      fresh == IF wkey \in DOMAIN nodes
               THEN [NewNode(joined) EXCEPT !.min_stall = old.min_stall, !.stall_set = old.stall_set]
               ELSE NewNode(joined) IN
  IF key \in DOMAIN nodes THEN [key |-> key, node |-> nodes[key], new |-> FALSE]
  ELSE IF Cardinality(contexts) < MaxContexts THEN [key |-> key, node |-> NewNode(v.exit), new |-> TRUE]
  ELSE IF wkey \in DOMAIN nodes /\ joined = old.st THEN [key |-> wkey, node |-> old, new |-> FALSE]
  ELSE [key |-> wkey, node |-> fresh, new |-> TRUE]

starts(image, key, node) ==
  LET st == node.st  ins == image[key.bpc + 1]
      At(s, pc) == [s EXCEPT !.pc = pc] IN
  IF key = StartKey THEN {START_STATE}
  ELSE IF ins.kind = "jz" THEN {At([st EXCEPT !.regs[ins.a] = 0], ins.n), At(st, key.bpc + 1)}
  ELSE IF ins.kind = "loop" THEN {At(st, ins.n), At([st EXCEPT !.repeat = 0], key.bpc + 1)}
  ELSE {At(IF ins.kind = "pull" THEN [st EXCEPT !.regs[1] = Unknown] ELSE st, key.bpc + 1)}

NewPath(st) == [st |-> st, t |-> 1, ev |-> << >>, li |-> pads(st), seen |-> {}, strict |-> {}]

\* One turn of the worklist: the node at its head, and the nodes its variants reach.
NewGraph == [nodes |-> StartKey :> NewNode(START_STATE), queue |-> <<StartKey>>]
explore(image, g) ==
  LET key == Head(g.queue)
      node == g.nodes[key]
      variants == UNION {segment(image, NewPath(st)) : st \in starts(image, key, node)}
      Reach(v, acc) ==
        IF v.kind # "boundary"
        THEN [acc EXCEPT !.done = @ \cup {[v |-> v, succ |-> StartKey]}]
        ELSE LET s == node_for(image, acc.nodes, v) IN
             [nodes |-> (s.key :> stall_bounds(image, s.node, v)) @@ acc.nodes,
              queue |-> IF s.new THEN Append(acc.queue, s.key) ELSE acc.queue,
              done |-> acc.done \cup {[v |-> v, succ |-> s.key]},
              replaced |-> acc.replaced \/ (s.new /\ s.key = key)]
      all == FoldSet(Reach, [nodes |-> g.nodes, queue |-> Tail(g.queue), done |-> {}, replaced |-> FALSE],
                     variants) IN
  IF node.deadlock THEN [g EXCEPT !.queue = Tail(@)]
  ELSE [nodes |-> IF all.replaced THEN all.nodes
                  ELSE [all.nodes EXCEPT ![key].variants = all.done],
        queue |-> all.queue]
=============================================================================

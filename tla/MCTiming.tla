------------------------------ MODULE MCTiming ------------------------------
(* Programs of a few instructions around the analyzer's cases, followed by *)
(* its checker or by the declared contracts: `part' says which.            *)
EXTENDS Contracts

Plain == [cpol |-> 0, cpha |-> 0, msb |-> FALSE, drive |-> FALSE, sample |-> FALSE]
I(kind, n) == [kind |-> kind, n |-> n, m |-> 0, op |-> "", a |-> 0, b |-> 0, mode |-> Plain]
On(kind, a, n) == [I(kind, n) EXCEPT !.a = a]
Op(op, a, b, n) == [I("step", n) EXCEPT !.op = op, !.a = a, !.b = b]
Pin(p, level) == [I("waitpin", 0) EXCEPT !.a = p, !.b = level]
TX == 1  RX == 2  X == 3  Y == 4
Nop == Op("", 0, 0, 0)
Xfer(bits, half, mode) == [I("xfer", bits) EXCEPT !.m = half, !.mode = mode]
Select(clk, tx, rx) == [Op("pins", clk, tx, 0) EXCEPT !.m = rx]
Drive == [Plain EXCEPT !.drive = TRUE, !.sample = TRUE]

Loops == {
  <<Op("dir", 0, 0, 1), Op("set", 0, 0, 1), I("wait", 1), Op("set", 0, 0, 0), I("jmp", 1)>>,
  <<Op("dir", 0, 0, 3), I("count", 2), Op("set", 0, 0, 1), Op("set", 0, 0, 0), I("loop", 2), I("halt", 0)>>,
  <<Op("dir", 0, 0, 1), I("pull", 0), Op("out", 0, 0, 0), Op("out", 0, 0, 0), I("jmp", 1)>>,
  <<Op("dir", 0, 0, 2), Op("in", 0, 0, 0), On("jz", RX, 1), I("waitevent", 0), I("jmp", 1)>>,
  <<I("limit", 3), Op("dir", 0, 0, 3), Op("set", 0, 0, 2), Pin(1, 1), Op("set", 0, 0, 0), I("jmp", 2)>>,
  <<I("limit", 6), Op("dir", 0, 0, 1), Pin(0, 0), Op("set", 0, 0, 1), Pin(0, 1), Op("set", 0, 0, 0), I("jmp", 2)>>,
  <<I("pull", 0), On("jz", TX, 4), Op("load", Y, 0, 1), I("jmp", 0), I("push", 1), I("halt", 0)>>,
  <<Select(0, 1, 1), Op("dir", 0, 0, 1), I("pull", 0), Xfer(2, 1, Drive), I("push", 0), I("jmp", 2)>>,
  <<Select(0, 1, 1), Op("dir", 0, 0, 3), I("pull", 0), Xfer(2, 2, [Drive EXCEPT !.cpha = 1, !.cpol = 1, !.msb = TRUE]), I("jmp", 2)>>,
  <<Op("in", 0, 0, 0), On("jz", RX, 3), I("wait", 2), Op("time", X, 0, 0), Op("and", RX, X, 0), On("jz", RX, 0), I("fault", 7)>>}

\* Two ways to the same wait for the level the engine itself takes away: one
\* arrives before the write shows, one after.
Deadlocks == {
  <<I("limit", 6), Op("dir", 0, 0, 1), Op("set", 0, 0, 1), I("wait", 3), Op("in", 1, 0, 0), On("jz", RX, 9),
    Op("set", 0, 0, 0), I("wait", 4), I("jmp", 10), Op("set", 0, 0, 0), Op("load", RX, 0, 0), Pin(0, 1), I("halt", 0)>>}
\* Any two instructions between waits of every kind, round a loop.
Body == {Op("set", 0, 0, 1), Op("set", 0, 0, 2), Op("dir", 0, 0, 2), Op("out", 1, 0, 0), Op("in", 0, 0, 0),
         I("pull", 0), I("push", 0), I("push", 1), I("waitevent", 0), Pin(0, 0), Pin(0, 1), Pin(1, 1),
         I("wait", 1), I("limit", 1), I("count", 1), I("loop", 2), On("jz", RX, 2), On("jz", TX, 5),
         Op("not", TX, 0, 0), Op("add", X, TX, 0), Op("or", RX, X, 0), I("halt", 0), I("invalid", 0)}
Pairs == {<<I("limit", 4), Op("dir", 0, 0, 3), i, j, I("jmp", 2)>> : i, j \in Body}

\* A transfer of known and of unknown data in every mode, and one without its pins.
Modes == [cpol : {0, 1}, cpha : {0, 1}, msb : BOOLEAN, drive : BOOLEAN, sample : BOOLEAN]
Transfers == {<<Select(0, tx, 1), Op("dir", 0, 0, 3), source, Xfer(2, 2, mode), Op("out", 0, 0, 0), I("jmp", 2)>> :
                tx \in {0, 1}, source \in {I("pull", 0), Op("load", TX, 0, 2)}, mode \in Modes}

\* More contexts than are told apart.
Wide == {<<Op("load", X, 0, 1), Op("dir", 0, 0, 1), I("waitevent", 0), Op("add", Y, X, 0), step, I("jmp", 2)>> :
           step \in {Op("mov", TX, Y, 0), Op("set", 0, 0, 1), On("jz", Y, 0), Op("out", 0, 0, 0)}}
AnalyzerImages == {<<I("halt", 0)>>} \cup Loops \cup Pairs \cup Transfers \cup Wide

\* Three instructions round a loop, on a clock that is open drain and data that is not.
Line == {Op("set", 0, 0, n) : n \in 0 .. 3} \cup {Op("out", 1, 0, 0), Pin(0, 1)}
OnLine(i, j, k) == <<I("limit", 5), Op("dir", 0, 0, 3), i, j, k, I("jmp", 2)>>
ContractImages ==
  {OnLine(i, j, k) : i \in Line \cup {Op("dir", 0, 0, 1)}, j \in Line \cup {On("jz", TX, 5)}, k \in Line}
    \cup {OnLine(I("pull", 0), Op("set", 0, 0, 1), k) : k \in Line}
    \cup {OnLine(Op("set", 0, 0, 0), Op("set", 0, 0, 1), I("pull", 0))}
MCImages == AnalyzerImages \cup ContractImages

VARIABLE part
Quiescent == Init /\ ContractInit /\ image = <<I("halt", 0)>>
MCInit ==
  /\ part \in {"analyzer", "contracts"}
  /\ Init /\ ContractInit
  /\ part = "contracts" <=> image \in ContractImages
MCNext ==
  /\ UNCHANGED part
  /\ \/ part \in {"analyzer", "contracts"} /\ Explore /\ UNCHANGED history
     \/ part = "analyzer"  /\ (Start \/ Tick) /\ UNCHANGED history
     \/ part = "contracts" /\ (CStart \/ CTick)
MCSpec == MCInit /\ [][MCNext]_<<part, contractVars>>
=============================================================================

------------------------------ MODULE Netlist ------------------------------
(***************************************************************************)
(* The structural preconditions of the equivalence check (analyze_         *)
(* structure in formal_eq/eq_check.py): the proof has one implicit clock,  *)
(* so that every flip-flop and macro of the netlist must follow the clk    *)
(* port itself, through buffers only, and every net has one driver.  They  *)
(* are judged here by what the cells do.                                   *)
(***************************************************************************)
EXTENDS Naturals, Sequences, FiniteSets

CONSTANT Netlists   \* the netlists examined
VARIABLE netlist    \* the one at hand: [nets, ports, assigns, insts]

(* Of a netlist: its nets; the nets of its input ports; its assigns in     *)
(* order, <<left, right>>; and its instances by name, each with the cell   *)
(* and the net at each connected pin, "open" for .PIN().                   *)
Instances == DOMAIN netlist.insts
Name(i) == netlist.insts[i].cell
Connected(i) == {p \in DOMAIN netlist.insts[i].pins : netlist.insts[i].pins[p] # "open"}
Net(i, pin) == netlist.insts[i].pins[pin]

(* What the parser of a netlist makes of it: finitely many nets, the clock *)
(* among them, to which every pin and both sides of an assign belong.      *)
(* (The words "error" and "open" of this module are no nets.)              *)
WellFormed(n) ==
  /\ IsFiniteSet(n.nets) /\ "clk" \in n.nets /\ "error" \notin n.nets
  /\ \A i \in DOMAIN n.insts : \A pin \in DOMAIN n.insts[i].pins :
       n.insts[i].pins[pin] \in n.nets \cup {"open"}
  /\ \A k \in DOMAIN n.assigns : n.assigns[k][1] \in n.nets /\ n.assigns[k][2] \in n.nets
ASSUME NetlistsAssumption == \A n \in Netlists : WellFormed(n)

(* Cells of the liberty file as parse_liberty returns them: their pins,    *)
(* the function of the output, and the pins their flip-flops are clocked   *)
(* on.  "special" is a latch, a statetable, a bus or a three-state output. *)
Cell(ins, outs, function, ff, special) ==
  [ins |-> ins, outs |-> outs, function |-> function, ff |-> ff, special |-> special]
Library ==
  [buf  |-> Cell({"A"}, {"X"}, "A", << >>, FALSE),
   inv  |-> Cell({"A"}, {"X"}, "!A", << >>, FALSE),
   nand2 |-> Cell({"A", "B"}, {"X"}, "!(A&B)", << >>, FALSE),
   gate |-> Cell({"A", "B"}, {"X"}, "A&B", << >>, TRUE),     \* clock gate: a statetable
   fill |-> Cell({}, {}, "", << >>, FALSE),
   dff  |-> Cell({"D", "CLK"}, {"Q"}, "IQ", <<"CLK">>, FALSE),
   dffn |-> Cell({"D", "CLK"}, {"Q"}, "IQ", <<"!CLK">>, FALSE)]
MACRO == "sram"
sram_ports == [ins |-> {"A_CLK", "A_DIN"}, outs |-> {"A_DOUT"}]

cell_role(cell) ==
  CASE cell.special -> "unsupported"
    [] ~cell.special /\ cell.outs = {} -> "physical"
    [] OTHER ->
         IF cell.function = "" \/ Len(cell.ff) > 1 \/ (cell.ff # << >> /\ cell.ff[1] \notin cell.ins)
         THEN "unsupported"
         ELSE IF cell.ff # << >> THEN "flop"
         ELSE IF Cardinality(cell.ins) = 1 /\ cell.function \in cell.ins THEN "identity" ELSE "comb"

Roles == [name \in DOMAIN Library |-> cell_role(Library[name])]
Role(name) == IF name = MACRO THEN "sram" ELSE IF name \in DOMAIN Library THEN Roles[name] ELSE "unsupported"
Ports(name) == IF name = MACRO THEN sram_ports ELSE Library[name]
Supported == {i \in Instances : Role(Name(i)) # "unsupported"}
Stateful == {i \in Instances : Role(Name(i)) \in {"flop", "sram"}}
ClockPin(i) == IF Name(i) = MACRO THEN "A_CLK" ELSE Library[Name(i)].ff[1]

-----------------------------------------------------------------------------
(* Who drives a net: input ports, assigns, and outputs of supported cells. *)
Drivers(net) ==
  {<<"port", p>> : p \in netlist.ports \cap {net}}
  \cup {<<"assign", k>> : k \in {n \in DOMAIN netlist.assigns : netlist.assigns[n][1] = net}}
  \cup {<<"cell", i>> : i \in {j \in Supported : \E pin \in Ports(Name(j)).outs \cap Connected(j) : Net(j, pin) = net}}

(* One step of clock_depth back towards the clk port, where it stays.      *)
XBehind_AnyCell(net) ==
  IF net = "clk" THEN net
  ELSE LET drivers == Drivers(net)
           d == CHOOSE x \in drivers : TRUE IN
       IF drivers = {} THEN "error" ELSE
       CASE d[1] = "port"   -> "error"
         [] d[1] = "assign" -> netlist.assigns[d[2]][2]
         [] OTHER -> IF "A" \in Connected(d[2]) THEN Net(d[2], "A") ELSE "error"
Behind(net) ==
  IF net = "clk" THEN net
  ELSE LET drivers == Drivers(net)
           d == CHOOSE x \in drivers : TRUE IN
       IF drivers = {} THEN "error" ELSE
       CASE d[1] = "port"   -> "error"
         [] d[1] = "assign" -> netlist.assigns[d[2]][2]
         [] OTHER ->
              IF Role(Name(d[2])) = "identity" /\ Ports(Name(d[2])).ins \subseteq Connected(d[2])
              THEN LET input == CHOOSE pin \in Ports(Name(d[2])).ins : TRUE IN Net(d[2], input)
              ELSE "error"

(* A path that has not come to clk after as many steps as there are nets   *)
(* loops.                                                                  *)
Length == Cardinality(netlist.nets)
clock_depth(net) ==
  LET walk[k \in 0 .. Length] == IF k = 0 THEN net ELSE
            IF walk[k - 1] = "error" THEN "error" ELSE Behind(walk[k - 1])
  IN  walk
clock_reaches(net) == clock_depth(net)[Length] = "clk"

(* An unconnected clock pin is an error of a flip-flop; a macro must name  *)
(* all its pins, and its .A_CLK() passes.                                  *)
Untraced(i) ==
  IF Name(i) = MACRO
  THEN \/ ~(sram_ports.ins \cup sram_ports.outs \subseteq DOMAIN netlist.insts[i].pins)
       \/ "A_CLK" \in Connected(i) /\ ~clock_reaches(Net(i, "A_CLK"))
  ELSE ~(ClockPin(i) \in Connected(i) /\ clock_reaches(Net(i, ClockPin(i))))
analyze_structure ==
  {<<"cell", Name(i)>> : i \in Instances \ Supported}
  \cup {<<"two drivers", net>> : net \in {n \in netlist.nets : \E c, d \in Drivers(n) : c # d}}
  \cup {<<"pin", i>> : i \in {j \in Supported :
           ~(DOMAIN netlist.insts[j].pins \subseteq Ports(Name(j)).ins \cup Ports(Name(j)).outs)}}
  \cup {<<"clock", i>> : i \in {j \in Stateful : Untraced(j)}}

-----------------------------------------------------------------------------
(* One netlist after another.                                              *)
Empty == [nets |-> {"clk"}, ports |-> {"clk"}, assigns |-> << >>, insts |-> << >>]
NetlistInit == netlist = Empty
NetlistNext == netlist' \in Netlists
NetlistSpec == NetlistInit /\ [][NetlistNext]_netlist

-----------------------------------------------------------------------------
(* What the cells do: levels of the nets that agree with every cell and    *)
(* every assign; an output the tool knows no function of has any level, as *)
(* has one whose inputs are not connected.                                 *)
Follows(i, level) ==
  LET pins == netlist.insts[i].pins IN
  CASE Name(i) \in {"buf", "inv"} /\ {"A", "X"} \subseteq Connected(i) ->
         (level[Net(i, "X")] = level[Net(i, "A")]) = (Name(i) = "buf")
    [] Name(i) = "nand2" /\ {"A", "B", "X"} \subseteq Connected(i) ->
         level[Net(i, "X")] = ~(level[Net(i, "A")] /\ level[Net(i, "B")])
    [] OTHER -> TRUE
Agrees(level) ==
  /\ \A i \in Instances : Follows(i, level)
  /\ \A k \in DOMAIN netlist.assigns : level[netlist.assigns[k][1]] = level[netlist.assigns[k][2]]

(* A netlist without errors has one clock: what is clocked at all is       *)
(* clocked by a rising clk, whatever the other inputs are.  (A loop of     *)
(* cells without a stable level is not its concern: yosys' check -assert   *)
(* refuses it.)                                                            *)
OneClock ==
  analyze_structure = {} =>
    \A i \in Stateful :
      /\ Name(i) # "dffn"
      /\ ClockPin(i) \in Connected(i) =>
           \A level \in [netlist.nets -> BOOLEAN] : Agrees(level) => level[Net(i, ClockPin(i))] = level["clk"]
=============================================================================

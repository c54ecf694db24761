----------------------------- MODULE LockstepPio -----------------------------
(***************************************************************************)
(* The RP2's PIO program that makes the project clock and moves the host's *)
(* nibbles on it (host/pe_host/ports/pio_lockstep.py, lockstep_program),   *)
(* on the state machine of host/pio/sim.py, wired to the chip's nibble     *)
(* port as in host/pio/board.py.                                           *)
(*                                                                         *)
(* One action, Cycle, is one PIO cycle.  Six of them make a frame: slots   *)
(* 3, 4, 5 with the clock low, 0, 1, 2 with it high.  A nibble is a number *)
(* that tells its word and its place in it; 0 stands for any other nibble. *)
(* The count of idle and stall frames (Y, 24 bits) and the true number of  *)
(* rising edges are kept modulo YModulus.                                  *)
(***************************************************************************)
EXTENDS Naturals, Sequences

CONSTANTS YModulus   \* 2^24

VARIABLES
  sm,         \* the state machine: registers, delay, both FIFOs
  clk, ui,    \* the pins it drives
  sync1, sync2, \* uo in the two-flop input synchronizer
  chip,       \* the chip's nibble port
  rst,        \* reset held active
  edges,      \* history: rising edges since the program started
  age,        \* history: cycles since the last rising edge
  paused,     \* history: HALT or a restart held the clock since then
  chipWrote,  \* history: the words completed by the chip, 0 for a mixed one
  chipTook    \* history: how many of the chip's words were read to the end

pioVars == <<sm, clk, ui, sync1, sync2, chip, rst, edges, age, paused, chipWrote, chipTook>>

TxDepth == 4
RxDepth == 4
WordLength == 8
Nibble(word, i) == WordLength * word + i
UI(window, write, read, nibble) ==
  [window |-> window, write |-> write, read |-> read, nibble |-> nibble]
Idle(window) == UI(window, FALSE, FALSE, 0)

ADDR_RDB == 7   ADDR_WR == 14   ADDR_HALT == 19
ADDR_CYC == 21  ADDR_FETCH == 24  ADDR_RD == 31

-----------------------------------------------------------------------------
(* The program.  side is the level of the project clock, delay the cycles  *)
(* an instruction takes beyond its first.                                  *)
I(op, arg, n, side, delay) == [op |-> op, arg |-> arg, n |-> n, side |-> side, delay |-> delay]
Jmp(condition, address, side, delay) == I("jmp", condition, address, side, delay)
In(source, bits, side, delay) == I("in", source, bits, side, delay)
Out(target, bits, side, delay) == I("out", target, bits, side, delay)

Program == <<
  Jmp("always", 9, 1, 0),        \*  0 rv_low
  In("x", 4, 1, 0),              \*  1 rv_high
  I("nop", "none", 0, 1, 0),     \*  2 hr_n1
  In("pins", 4, 1, 0),           \*  3
  Out("null", 4, 0, 2),          \*  4
  Jmp("not_osre", 2, 1, 0),      \*  5
  Jmp("always", 24, 1, 1),       \*  6
  Out("pins", 8, 0, 2),          \*  7 rdb
  Jmp("always", 31, 1, 2),       \*  8
  Jmp("y_dec", 10, 1, 0),        \*  9 hr_stall
  I("mov", "osr", 0, 1, 0),      \* 10 hr_smp
  Out("x", 4, 0, 0),             \* 11
  Out("null", 1, 0, 0),          \* 12
  Out("pc", 1, 0, 0),            \* 13
  Out("pins", 8, 0, 2),          \* 14 wr
  I("nop", "none", 0, 1, 1),     \* 15 hw_e
  Jmp("pin", 24, 1, 0),          \* 16
  Jmp("y_dec", 18, 0, 0),        \* 17
  Jmp("always", 15, 0, 1),       \* 18 hw_h
  I("pull", "none", 0, 0, 1),    \* 19 halt
  Jmp("always", 22, 0, 0),       \* 20
  Out("pins", 8, 0, 2),          \* 21 cyc
  In("y", 24, 1, 1),             \* 22 cyc0
  In("pins", 8, 1, 0),           \* 23
  I("set", "pins", 0, 0, 0),     \* 24 fetch
  I("push", "none", 32, 0, 0),   \* 25
  I("mov", "x", 0, 0, 0),        \* 26
  Jmp("not_x", 29, 1, 0),        \* 27
  Jmp("y_dec", 24, 1, 1),        \* 28
  I("pull", "none", 0, 1, 0),    \* 29 disp
  Out("pc", 5, 1, 0),            \* 30
  Out("pins", 8, 0, 2) >>        \* 31 rd

(* Mutant: the stall path of WR is a cycle short.                          *)
Xlockstep_program_ShortStall(pc) == [Program EXCEPT ![19] = Jmp("always", 15, 0, 0)][pc + 1]
lockstep_program(pc) == Program[pc + 1]
wrap_bottom == 24
wrap_top == 28

(* Frames of an operation beyond its fetch frame and the frames Y counts.  *)
FIXED_FRAMES(address) ==
  CASE address = ADDR_CYC -> 1 [] address = ADDR_WR -> 1 [] address = ADDR_RD -> 8
    [] address = ADDR_RDB -> 9 [] address = ADDR_HALT -> 1

-----------------------------------------------------------------------------
(* One instruction.  uo is what the input pins read, two cycles old.       *)
FallThrough == IF sm.pc = wrap_top THEN wrap_bottom ELSE (sm.pc + 1) % 32
Least(a, b) == IF a < b THEN a ELSE b

Taken(condition, uo) ==
  CASE condition = "always"   -> TRUE
    [] condition = "y_dec"    -> sm.y # 0
    [] condition = "not_x"    -> sm.x = 0
    [] condition = "pin"      -> uo.write_ready
    [] condition = "not_osre" -> sm.osr_count < 32

(* A uo sample carries, for the history, the edges there had been.         *)
Source(i, uo) == CASE i.arg = "x" -> sm.x [] i.arg = "y" -> sm.y
                   [] i.arg = "pins" -> IF i.n = 4 THEN uo.nibble ELSE edges
Field == IF sm.osr = << >> THEN 0 ELSE Head(sm.osr)

Stalled(i) == i.op = "pull" /\ sm.tx = << >>

(* The registers after the instruction.                                    *)
Executed(i, uo) ==
  LET next == [sm EXCEPT !.pc = FallThrough, !.delay = i.delay] IN
  CASE i.op = "jmp" ->
         [next EXCEPT !.pc = IF Taken(i.arg, uo) THEN i.n ELSE @,
                      !.y = IF i.arg = "y_dec" THEN (@ + YModulus - 1) % YModulus ELSE @]
    [] i.op = "in" ->
         [next EXCEPT !.isr = Append(@, Source(i, uo)), !.isr_count = Least(32, @ + i.n)]
    [] i.op = "out" ->
         LET shifted == [next EXCEPT !.osr = IF @ = << >> THEN @ ELSE Tail(@),
                                     !.osr_count = Least(32, @ + i.n)] IN
         CASE i.arg = "x"  -> [shifted EXCEPT !.x = Field]
           [] i.arg = "pc" -> [shifted EXCEPT !.pc = Field]
           [] OTHER        -> shifted
    [] i.op = "push" ->
         IF sm.isr_count < i.n THEN next
         ELSE [next EXCEPT !.isr = << >>, !.isr_count = 0,
                           !.rx = IF Len(@) < RxDepth THEN Append(@, sm.isr) ELSE @]
    [] i.op = "pull" -> [next EXCEPT !.osr = Head(sm.tx), !.osr_count = 0, !.tx = Tail(@)]
    [] i.op = "mov" ->
         IF i.arg = "osr"
         THEN [next EXCEPT !.osr = <<uo.nibble, 0, IF uo.read_valid THEN 1 ELSE 0>>,
                           !.osr_count = 0]
         ELSE [next EXCEPT !.x = IF sm.tx = << >> THEN 1 ELSE 0]
    [] OTHER -> next

(* Mutant: the strobes of a nibble stay on the pins.                        *)
XDriven_StrobesStay(i) ==
  IF i.op = "out" /\ i.arg = "pins" /\ sm.osr # << >> THEN Head(sm.osr) ELSE ui

(* ui after the instruction: SET pins clears the two strobes.              *)
Driven(i) ==
  CASE i.op = "out" /\ i.arg = "pins" -> IF sm.osr = << >> THEN ui ELSE Head(sm.osr)
    [] i.op = "set" -> [ui EXCEPT !.write = FALSE, !.read = FALSE]
    [] OTHER -> ui

-----------------------------------------------------------------------------
(* The chip.  Its outputs follow ui at once, and are low in the cycle that *)
(* changes the window and in reset.                                        *)
UO ==
  LET bubble == rst \/ ui.window # chip.window IN
  [write_ready |-> ~bubble /\ (ui.window = 0 \/ (ui.window = 2 /\ chip.room)),
   read_valid  |-> ~bubble /\ chip.presenting,
   nibble      |-> IF chip.presenting THEN Nibble(chipTook + 1, chip.read_index) ELSE 0]

ChipReset == [window |-> 0, gathered |-> << >>, room |-> TRUE,
              presenting |-> FALSE, read_index |-> 0]

(* The word that eight nibbles make, or 0 when they are not one word's.    *)
WordOf(nibbles) ==
  LET w == nibbles[1] \div WordLength IN
  IF nibbles = [i \in 1 .. WordLength |-> Nibble(w, i - 1)] THEN w ELSE 0

(* A rising edge with these pins: room of the TX queue and a word to read  *)
(* in window 3 come as the rest of the chip decides.                       *)
RisingEdge(pins) ==
  LET accept == UO.write_ready /\ pins.write
      take   == UO.read_valid /\ pins.read
      all    == Append(chip.gathered, pins.nibble)
      done   == accept /\ Len(all) = WordLength
      end    == take /\ chip.read_index = WordLength - 1
  IN IF rst THEN chip' = ChipReset /\ UNCHANGED <<chipWrote, chipTook>>
     ELSE IF pins.window # chip.window
     THEN /\ chip' = [chip EXCEPT !.window = pins.window, !.gathered = << >>,
                                  !.presenting = FALSE, !.read_index = 0]
          /\ UNCHANGED <<chipWrote, chipTook>>
     ELSE \E room \in IF done \/ ~chip.room THEN BOOLEAN ELSE {TRUE},
             offer \in CASE pins.window = 0 -> {TRUE} [] pins.window = 3 -> BOOLEAN
                         [] OTHER -> {FALSE} :
          /\ chip' = [chip EXCEPT
                !.room = room,
                !.gathered = IF done THEN << >> ELSE IF accept THEN all ELSE @,
                !.presenting = IF chip.presenting THEN ~end ELSE offer,
                !.read_index = IF end THEN 0 ELSE IF take THEN @ + 1 ELSE @]
          /\ chipWrote' = IF done THEN Append(chipWrote, WordOf(all)) ELSE chipWrote
          /\ chipTook' = IF end THEN chipTook + 1 ELSE chipTook

-----------------------------------------------------------------------------
Registers == [pc |-> ADDR_FETCH, x |-> 0, y |-> 0, isr |-> << >>, isr_count |-> 0,
              osr |-> << >>, osr_count |-> 32, delay |-> 0, tx |-> << >>, rx |-> << >>]

PioInit ==
  /\ sm = Registers /\ clk = 0 /\ ui = Idle(0)
  /\ chip = ChipReset /\ rst = FALSE
  /\ sync1 = [write_ready |-> FALSE, read_valid |-> FALSE, nibble |-> 0]
  /\ sync2 = [write_ready |-> FALSE, read_valid |-> FALSE, nibble |-> 0]
  /\ edges = 0 /\ age = 0 /\ paused = TRUE /\ chipWrote = << >> /\ chipTook = 0

(* The pins after this cycle; a rising clock is an edge of the chip.       *)
Pins(level, pins) ==
  LET rose == level = 1 /\ clk = 0 IN
  /\ clk' = level /\ ui' = pins
  /\ IF rose THEN RisingEdge(pins) ELSE UNCHANGED <<chip, chipWrote, chipTook>>
  /\ edges' = IF rose THEN (edges + 1) % YModulus ELSE edges
  /\ age' = IF rose THEN 0 ELSE Least(age + 1, 7)

Cycle ==
  LET i == lockstep_program(sm.pc) IN
  /\ sync1' = UO /\ sync2' = sync1
  /\ UNCHANGED rst
  /\ IF sm.delay > 0
     THEN sm' = [sm EXCEPT !.delay = @ - 1] /\ Pins(clk, ui) /\ UNCHANGED paused
     ELSE IF Stalled(i)
     THEN UNCHANGED sm /\ Pins(i.side, ui) /\ paused' = (paused \/ sm.pc = ADDR_HALT)
     ELSE /\ sm' = Executed(i, sync2)
          /\ Pins(i.side, Driven(i))
          /\ paused' = IF i.side = 1 /\ clk = 0 THEN FALSE ELSE paused

(* The program waits for a handshake with the chip.                        *)
Handshaking == sm.pc \in {0, 9, 10, 11, 12, 13, 15, 16, 17, 18}

(* restart: FIFOs and registers cleared, clock low, ui_in 0.               *)
Restart ==
  /\ sm' = Registers /\ clk' = 0 /\ ui' = Idle(0)
  /\ edges' = 0 /\ age' = 7 /\ paused' = TRUE
  /\ UNCHANGED <<chip, rst, sync1, sync2, chipWrote, chipTook>>
==============================================================================

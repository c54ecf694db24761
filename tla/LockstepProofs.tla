--------------------------- MODULE LockstepProofs ---------------------------
(***************************************************************************)
(* Proofs about modules LockstepPio and Lockstep: whatever the host calls  *)
(* and when its steps fall, the project clock has the period of a frame    *)
(* unless HALT or a restart held it, the pins change half a period away    *)
(* from its edges, reset changes while the clock is halted low, and the    *)
(* count of frames is that of the rising edges at every stamp.             *)
(***************************************************************************)
EXTENDS Lockstep, Integers, WellFoundedInduction, TLAPS

(* The words of the TX FIFO: operations, and the one that ends a HALT.     *)
PinSets == [window : Nat, write : BOOLEAN, read : BOOLEAN, nibble : Nat]
HALT == <<ADDR_HALT>>
Release == <<0>>
Plain == ({ADDR_CYC, ADDR_WR, ADDR_RD} \X PinSets) \cup ({ADDR_RDB} \X PinSets \X PinSets)
Words == Plain \cup {HALT, Release}
(* The kind of the result of a word, and the operations run_ops is given.   *)
KindOf(word) ==
  CASE word[1] \in {ADDR_CYC, ADDR_HALT} -> "stamp" [] word[1] = ADDR_WR -> "none"
    [] word[1] \in {ADDR_RD, ADDR_RDB} -> "data"
Operations == {op \in [word : Plain, kind : {"none", "stamp", "data"}] : op.kind = KindOf(op.word)}
Named == {"submit", "wait", "tx_empty", "sleep", "set_reset", "put"}
StepSet == [do : Named, ops : Seq(Operations) \cup {<<OP_HALT>>}, level : BOOLEAN]

(* The cycle of the frame in which an instruction is executed, counted     *)
(* from the rising edge before it.                                         *)
Slot(pc) ==
  CASE pc \in {2, 6, 9, 28, 29}                -> 0
    [] pc \in {3, 10, 16, 23, 30}              -> 1
    [] pc \in {4, 7, 11, 14, 17, 19, 21, 24, 31} -> 2
    [] pc \in {12, 18, 25}                     -> 3
    [] pc \in {13, 20, 26}                     -> 4
    [] pc \in {0, 1, 5, 8, 15, 22, 27}         -> 5

(* HALT was dispatched, and its second pull has not been served.           *)
Halting == sm.pc = ADDR_HALT \/ (sm.pc = 30 /\ sm.osr = HALT)
(* The last word put is HALT, and the host owes the one that releases it.  *)
Owing == IF sm.tx = << >> THEN Halting ELSE sm.tx[Len(sm.tx)] = HALT
Ending == {"tx_empty", "sleep", "set_reset", "put"}

SmShape ==
  /\ sm = [pc |-> sm.pc, x |-> sm.x, y |-> sm.y, isr |-> sm.isr, isr_count |-> sm.isr_count,
           osr |-> sm.osr, osr_count |-> sm.osr_count, delay |-> sm.delay, tx |-> sm.tx, rx |-> sm.rx]
  /\ sm.pc \in 0 .. 31 /\ sm.delay \in 0 .. 2 /\ sm.tx \in Seq(Words)
  /\ clk \in {0, 1} /\ age \in 0 .. 7 /\ paused \in BOOLEAN

(* The clock and the time since its rising edge are those of the place.    *)
OnTime ==
  IF paused THEN clk = 0 /\ sm.pc \in {19, 20, 22, 24, 25, 26, 27}
  ELSE sm.delay + age = Slot(sm.pc) /\ (clk = 1 <=> Slot(sm.pc) <= 2)

(* Jumps that depend on data have the targets the program means.           *)
Branches ==
  /\ sm.pc = 27 => sm.x # 0 \/ sm.tx # << >>
  /\ sm.pc = 29 => sm.tx # << >>
  /\ sm.pc = 30 => sm.osr \in Plain \cup {HALT}
  /\ sm.pc = 11 => sm.osr = <<sm.osr[1], 0, sm.osr[3]>> /\ sm.osr[3] \in {0, 1}
  /\ sm.pc = 12 => sm.osr = <<0, sm.osr[2]>> /\ sm.osr[2] \in {0, 1}
  /\ sm.pc = 13 => sm.osr = <<sm.osr[1]>> /\ sm.osr[1] \in {0, 1}
  /\ Halting => sm.delay = 0

(* A word that is no operation follows HALT, and nothing else does.        *)
Discipline ==
  /\ sm.tx # << >> => (sm.tx[1] = Release <=> Halting)
  /\ \A i \in 1 .. Len(sm.tx) - 1 : sm.tx[i + 1] = Release <=> sm.tx[i] = HALT

(* A step of a call and the one after it: HALT is submitted alone, and the *)
(* steps of a reset follow one another.                                    *)
Follows(a, b) ==
  /\ b.do = "tx_empty" <=> a.do = "submit" /\ a.ops = <<OP_HALT>>
  /\ b.do = "sleep" <=> a.do = "tx_empty"
  /\ b.do = "set_reset" <=> a.do = "sleep"
  /\ b.do = "put" <=> a.do = "set_reset"
InOrder(steps) ==
  /\ \A i \in 1 .. Len(steps) - 1 : Follows(steps[i], steps[i + 1])
  /\ steps # << >> => steps[Len(steps)].do = "wait"

(* Between calls nothing is left to do.                                    *)
HostShape ==
  /\ todo \in Seq(StepSet) /\ InOrder(todo)
  /\ putting \in Seq(Operations) \cup {<<OP_HALT>>}
  /\ window \in Nat /\ calls \in Nat /\ slept \in Nat
  /\ call = NoCall => todo = << >> /\ putting = << >>

(* What the step under way knows of the program.                           *)
InStep ==
  IF putting # << >>
  THEN /\ ~Owing
       /\ IF todo # << >> /\ Head(todo).do \in Ending
          THEN putting = <<OP_HALT>> /\ Head(todo).do = "tx_empty"
          ELSE putting \in Seq(Operations)
  ELSE /\ Owing <=> todo # << >> /\ Head(todo).do \in Ending
       /\ todo # << >> /\ Head(todo).do \in {"sleep", "set_reset", "put"} => sm.tx = << >>
       /\ todo # << >> /\ Head(todo).do = "sleep" =>
            /\ slept >= 1 => sm.pc = ADDR_HALT
            /\ slept >= 2 => clk = 0
       /\ todo # << >> /\ Head(todo).do \in {"set_reset", "put"} => sm.pc = ADDR_HALT /\ clk = 0

MachineInv == SmShape /\ OnTime /\ Branches /\ Discipline
LockInv == MachineInv /\ HostShape /\ InStep

(* The step from one instruction to the next takes the cycles the frame    *)
(* has between them, with the clock at the level of the place.             *)
Held == {19, 20, 22, 24, 25, 26, 27}
Fits(pc, next, delay, side) ==
  /\ delay \in 0 .. 2
  /\ side = IF Slot(pc) \in {2, 3, 4} THEN 0 ELSE 1
  /\ delay + ((Slot(pc) + 1) % 6) = Slot(next)
  /\ side = 1 <=> Slot(next) <= 2
  /\ pc \in Held \ {22, 27} => next \in Held

Whole(s) ==
  s = [pc |-> s.pc, x |-> s.x, y |-> s.y, isr |-> s.isr, isr_count |-> s.isr_count,
       osr |-> s.osr, osr_count |-> s.osr_count, delay |-> s.delay, tx |-> s.tx, rx |-> s.rx]
Clocked(level) ==
  /\ clk' = level
  /\ age' = IF level = 1 /\ clk = 0 THEN 0 ELSE Least(age + 1, 7)
  /\ paused' = IF level = 1 /\ clk = 0 THEN FALSE ELSE paused

(* The addresses that may follow an instruction, and those that few can    *)
(* come to.                                                                *)
After(pc) == IF pc = wrap_top THEN wrap_bottom ELSE (pc + 1) % 32
Targets(pc) ==
  CASE pc = 13 -> {0, 1}
    [] pc = 30 -> {ADDR_CYC, ADDR_WR, ADDR_RD, ADDR_RDB, ADDR_HALT}
    [] pc \notin {13, 30} ->
         LET i == lockstep_program(pc) IN
         IF i.op = "jmp" THEN IF i.arg = "always" THEN {i.n} ELSE {i.n, After(pc)}
         ELSE {After(pc)}
ComesFrom(pc, next) ==
  /\ next \in {11, 12, 13, 27, 30} => pc = next - 1
  /\ next = 29 => pc = 27
  /\ next = ADDR_HALT => pc = 30

LEMMA SlotType == \A pc \in 0 .. 31 : Slot(pc) \in 0 .. 5
BY DEF Slot

(* The clock of an instruction that does not wait.                         *)
LEMMA Timed ==
  ASSUME SmShape, OnTime, sm.delay = 0, NEW side, Clocked(side),
         sm'.pc \in 0 .. 31, Fits(sm.pc, sm'.pc, sm'.delay, side)
  PROVE  /\ OnTime' /\ clk' \in {0, 1} /\ age' \in 0 .. 7 /\ paused' \in BOOLEAN
         /\ clk = 0 /\ clk' = 1 => age = 5 \/ paused
<1>0. Slot(sm.pc)' = Slot(sm'.pc)
  BY DEF Slot
<1>1. Slot(sm.pc) \in 0 .. 5 /\ Slot(sm'.pc) \in 0 .. 5
  BY SlotType DEF SmShape
<1>2. side \in {0, 1} /\ (side = 0 <=> Slot(sm.pc) \in {2, 3, 4})
  BY DEF Fits
<1>3. CASE paused
  <2>1. clk = 0 /\ sm.pc \in Held
    BY <1>3 DEF OnTime, Held
  <2>2. side = 1 <=> sm.pc \in {22, 27}
    BY <2>1, <1>2 DEF Slot, Held
  <2>3. CASE side = 1
    <3>1. Slot(sm.pc) = 5
      BY <2>3, <2>2 DEF Slot
    <3>2. age' = 0 /\ clk' = 1 /\ ~paused'
      BY <2>3, <2>1 DEF Clocked
    <3>3. sm'.delay = Slot(sm'.pc) /\ Slot(sm'.pc) <= 2
      BY <3>1, <2>3, <1>1 DEF Fits
    <3>4. OnTime'
      <4>1. sm'.delay + age' = Slot(sm'.pc)
        BY <3>2, <3>3, <1>1
      <4> QED BY <3>2, <3>3, <4>1, <1>0 DEF OnTime
    <3>5. paused' = FALSE
      BY <2>3, <2>1 DEF Clocked
    <3>6. paused' \in BOOLEAN
      BY <3>5, Zenon
    <3> QED BY <3>2, <3>4, <3>6, <1>3
  <2>4. CASE side = 0
    <3>1. clk' = 0 /\ paused' /\ age' \in 0 .. 7
      BY <2>4, <2>1, <1>3 DEF Clocked, Least, SmShape
    <3>2. sm'.pc \in Held
      BY <2>4, <2>2, <2>1 DEF Fits
    <3> QED BY <3>1, <3>2, <1>3 DEF OnTime, Held
  <2> QED BY <2>3, <2>4, <1>2
<1>4. CASE ~paused
  <2>1. age = Slot(sm.pc) /\ (clk = 1 <=> Slot(sm.pc) <= 2) /\ clk \in {0, 1}
    BY <1>4, <1>1 DEF OnTime, SmShape
  <2>2. ~paused' /\ clk' = side /\ paused' \in BOOLEAN
    BY <1>4 DEF Clocked, SmShape
  <2>3. age' = (Slot(sm.pc) + 1) % 6
    BY <2>1, <1>1, <1>2 DEF Clocked, Least
  <2>4. sm'.delay + age' = Slot(sm'.pc) /\ (clk' = 1 <=> Slot(sm'.pc) <= 2)
    <3>1. /\ sm'.delay + ((Slot(sm.pc) + 1) % 6) = Slot(sm'.pc)
          /\ side = 1 <=> Slot(sm'.pc) <= 2
      BY DEF Fits
    <3>2. (Slot(sm.pc) + 1) % 6 = age' /\ side = clk'
      BY <2>2, <2>3
    <3>3. sm'.delay + age' = Slot(sm'.pc)
      BY <3>1, <3>2
    <3>4. clk' = 1 <=> Slot(sm'.pc) <= 2
      BY <3>1, <3>2
    <3> QED BY <3>3, <3>4
  <2>5. clk = 0 /\ clk' = 1 => age = 5
    BY <2>1, <2>2, <1>1, <1>2
  <2>6. age' \in 0 .. 7 /\ clk' \in {0, 1}
    BY <2>2, <2>3, <1>1, <1>2
  <2>7. OnTime'
    BY <2>2, <2>4, <1>0 DEF OnTime
  <2> QED BY <2>2, <2>7, <2>5, <2>6
<1> QED BY <1>3, <1>4

LEMMA ProgramFits ==
  ASSUME NEW pc \in 0 .. 31, NEW next \in Targets(pc)
  PROVE  /\ next \in 0 .. 31 /\ ComesFrom(pc, next)
         /\ Fits(pc, next, lockstep_program(pc).delay, lockstep_program(pc).side)
<1>1. CASE pc \in {0, 6, 8, 18, 20}
  <2>1. CASE pc = 0
    BY <2>1 DEF lockstep_program, Program, Jmp, In, Out, I, Targets, After, Fits, Slot, Held,
      ComesFrom, wrap_top, wrap_bottom, ADDR_CYC, ADDR_WR, ADDR_RD, ADDR_RDB, ADDR_HALT
  <2>2. CASE pc = 6
    BY <2>2 DEF lockstep_program, Program, Jmp, In, Out, I, Targets, After, Fits, Slot, Held,
      ComesFrom, wrap_top, wrap_bottom, ADDR_CYC, ADDR_WR, ADDR_RD, ADDR_RDB, ADDR_HALT
  <2>3. CASE pc = 8
    BY <2>3 DEF lockstep_program, Program, Jmp, In, Out, I, Targets, After, Fits, Slot, Held,
      ComesFrom, wrap_top, wrap_bottom, ADDR_CYC, ADDR_WR, ADDR_RD, ADDR_RDB, ADDR_HALT
  <2>4. CASE pc = 18
    BY <2>4 DEF lockstep_program, Program, Jmp, In, Out, I, Targets, After, Fits, Slot, Held,
      ComesFrom, wrap_top, wrap_bottom, ADDR_CYC, ADDR_WR, ADDR_RD, ADDR_RDB, ADDR_HALT
  <2>5. CASE pc = 20
    BY <2>5 DEF lockstep_program, Program, Jmp, In, Out, I, Targets, After, Fits, Slot, Held,
      ComesFrom, wrap_top, wrap_bottom, ADDR_CYC, ADDR_WR, ADDR_RD, ADDR_RDB, ADDR_HALT
  <2> QED BY <1>1, <2>1, <2>2, <2>3, <2>4, <2>5
<1>2. CASE pc \in {5, 9}
  <2>1. CASE pc = 5
    BY <2>1 DEF lockstep_program, Program, Jmp, In, Out, I, Targets, After, Fits, Slot, Held,
      ComesFrom, wrap_top, wrap_bottom, ADDR_CYC, ADDR_WR, ADDR_RD, ADDR_RDB, ADDR_HALT
  <2>2. CASE pc = 9
    BY <2>2 DEF lockstep_program, Program, Jmp, In, Out, I, Targets, After, Fits, Slot, Held,
      ComesFrom, wrap_top, wrap_bottom, ADDR_CYC, ADDR_WR, ADDR_RD, ADDR_RDB, ADDR_HALT
  <2> QED BY <1>2, <2>1, <2>2
<1>3. CASE pc \in {16, 17}
  <2>1. CASE pc = 16
    BY <2>1 DEF lockstep_program, Program, Jmp, In, Out, I, Targets, After, Fits, Slot, Held,
      ComesFrom, wrap_top, wrap_bottom, ADDR_CYC, ADDR_WR, ADDR_RD, ADDR_RDB, ADDR_HALT
  <2>2. CASE pc = 17
    BY <2>2 DEF lockstep_program, Program, Jmp, In, Out, I, Targets, After, Fits, Slot, Held,
      ComesFrom, wrap_top, wrap_bottom, ADDR_CYC, ADDR_WR, ADDR_RD, ADDR_RDB, ADDR_HALT
  <2> QED BY <1>3, <2>1, <2>2
<1>4. CASE pc \in {27, 28}
  <2>1. CASE pc = 27
    BY <2>1 DEF lockstep_program, Program, Jmp, In, Out, I, Targets, After, Fits, Slot, Held,
      ComesFrom, wrap_top, wrap_bottom, ADDR_CYC, ADDR_WR, ADDR_RD, ADDR_RDB, ADDR_HALT
  <2>2. CASE pc = 28
    BY <2>2 DEF lockstep_program, Program, Jmp, In, Out, I, Targets, After, Fits, Slot, Held,
      ComesFrom, wrap_top, wrap_bottom, ADDR_CYC, ADDR_WR, ADDR_RD, ADDR_RDB, ADDR_HALT
  <2> QED BY <1>4, <2>1, <2>2
<1>5. CASE pc \in {1, 2, 3, 15}
  <2>1. CASE pc = 1
    BY <2>1 DEF lockstep_program, Program, Jmp, In, Out, I, Targets, After, Fits, Slot, Held,
      ComesFrom, wrap_top, wrap_bottom, ADDR_CYC, ADDR_WR, ADDR_RD, ADDR_RDB, ADDR_HALT
  <2>2. CASE pc = 2
    BY <2>2 DEF lockstep_program, Program, Jmp, In, Out, I, Targets, After, Fits, Slot, Held,
      ComesFrom, wrap_top, wrap_bottom, ADDR_CYC, ADDR_WR, ADDR_RD, ADDR_RDB, ADDR_HALT
  <2>3. CASE pc = 3
    BY <2>3 DEF lockstep_program, Program, Jmp, In, Out, I, Targets, After, Fits, Slot, Held,
      ComesFrom, wrap_top, wrap_bottom, ADDR_CYC, ADDR_WR, ADDR_RD, ADDR_RDB, ADDR_HALT
  <2>4. CASE pc = 15
    BY <2>4 DEF lockstep_program, Program, Jmp, In, Out, I, Targets, After, Fits, Slot, Held,
      ComesFrom, wrap_top, wrap_bottom, ADDR_CYC, ADDR_WR, ADDR_RD, ADDR_RDB, ADDR_HALT
  <2> QED BY <1>5, <2>1, <2>2, <2>3, <2>4
<1>6. CASE pc \in {22, 23, 24, 25}
  <2>1. CASE pc = 22
    BY <2>1 DEF lockstep_program, Program, Jmp, In, Out, I, Targets, After, Fits, Slot, Held,
      ComesFrom, wrap_top, wrap_bottom, ADDR_CYC, ADDR_WR, ADDR_RD, ADDR_RDB, ADDR_HALT
  <2>2. CASE pc = 23
    BY <2>2 DEF lockstep_program, Program, Jmp, In, Out, I, Targets, After, Fits, Slot, Held,
      ComesFrom, wrap_top, wrap_bottom, ADDR_CYC, ADDR_WR, ADDR_RD, ADDR_RDB, ADDR_HALT
  <2>3. CASE pc = 24
    BY <2>3 DEF lockstep_program, Program, Jmp, In, Out, I, Targets, After, Fits, Slot, Held,
      ComesFrom, wrap_top, wrap_bottom, ADDR_CYC, ADDR_WR, ADDR_RD, ADDR_RDB, ADDR_HALT
  <2>4. CASE pc = 25
    BY <2>4 DEF lockstep_program, Program, Jmp, In, Out, I, Targets, After, Fits, Slot, Held,
      ComesFrom, wrap_top, wrap_bottom, ADDR_CYC, ADDR_WR, ADDR_RD, ADDR_RDB, ADDR_HALT
  <2> QED BY <1>6, <2>1, <2>2, <2>3, <2>4
<1>7. CASE pc \in {4, 7, 10, 11, 12}
  <2>1. CASE pc = 4
    BY <2>1 DEF lockstep_program, Program, Jmp, In, Out, I, Targets, After, Fits, Slot, Held,
      ComesFrom, wrap_top, wrap_bottom, ADDR_CYC, ADDR_WR, ADDR_RD, ADDR_RDB, ADDR_HALT
  <2>2. CASE pc = 7
    BY <2>2 DEF lockstep_program, Program, Jmp, In, Out, I, Targets, After, Fits, Slot, Held,
      ComesFrom, wrap_top, wrap_bottom, ADDR_CYC, ADDR_WR, ADDR_RD, ADDR_RDB, ADDR_HALT
  <2>3. CASE pc = 10
    BY <2>3 DEF lockstep_program, Program, Jmp, In, Out, I, Targets, After, Fits, Slot, Held,
      ComesFrom, wrap_top, wrap_bottom, ADDR_CYC, ADDR_WR, ADDR_RD, ADDR_RDB, ADDR_HALT
  <2>4. CASE pc = 11
    BY <2>4 DEF lockstep_program, Program, Jmp, In, Out, I, Targets, After, Fits, Slot, Held,
      ComesFrom, wrap_top, wrap_bottom, ADDR_CYC, ADDR_WR, ADDR_RD, ADDR_RDB, ADDR_HALT
  <2>5. CASE pc = 12
    BY <2>5 DEF lockstep_program, Program, Jmp, In, Out, I, Targets, After, Fits, Slot, Held,
      ComesFrom, wrap_top, wrap_bottom, ADDR_CYC, ADDR_WR, ADDR_RD, ADDR_RDB, ADDR_HALT
  <2> QED BY <1>7, <2>1, <2>2, <2>3, <2>4, <2>5
<1>8. CASE pc \in {14, 21, 26, 31}
  <2>1. CASE pc = 14
    BY <2>1 DEF lockstep_program, Program, Jmp, In, Out, I, Targets, After, Fits, Slot, Held,
      ComesFrom, wrap_top, wrap_bottom, ADDR_CYC, ADDR_WR, ADDR_RD, ADDR_RDB, ADDR_HALT
  <2>2. CASE pc = 21
    BY <2>2 DEF lockstep_program, Program, Jmp, In, Out, I, Targets, After, Fits, Slot, Held,
      ComesFrom, wrap_top, wrap_bottom, ADDR_CYC, ADDR_WR, ADDR_RD, ADDR_RDB, ADDR_HALT
  <2>3. CASE pc = 26
    BY <2>3 DEF lockstep_program, Program, Jmp, In, Out, I, Targets, After, Fits, Slot, Held,
      ComesFrom, wrap_top, wrap_bottom, ADDR_CYC, ADDR_WR, ADDR_RD, ADDR_RDB, ADDR_HALT
  <2>4. CASE pc = 31
    BY <2>4 DEF lockstep_program, Program, Jmp, In, Out, I, Targets, After, Fits, Slot, Held,
      ComesFrom, wrap_top, wrap_bottom, ADDR_CYC, ADDR_WR, ADDR_RD, ADDR_RDB, ADDR_HALT
  <2> QED BY <1>8, <2>1, <2>2, <2>3, <2>4
<1>9. CASE pc \in {19, 29}
  <2>1. CASE pc = 19
    BY <2>1 DEF lockstep_program, Program, Jmp, In, Out, I, Targets, After, Fits, Slot, Held,
      ComesFrom, wrap_top, wrap_bottom, ADDR_CYC, ADDR_WR, ADDR_RD, ADDR_RDB, ADDR_HALT
  <2>2. CASE pc = 29
    BY <2>2 DEF lockstep_program, Program, Jmp, In, Out, I, Targets, After, Fits, Slot, Held,
      ComesFrom, wrap_top, wrap_bottom, ADDR_CYC, ADDR_WR, ADDR_RD, ADDR_RDB, ADDR_HALT
  <2> QED BY <1>9, <2>1, <2>2
<1>10. CASE pc \in {13, 30}
  <2>1. CASE pc = 13
    BY <2>1 DEF lockstep_program, Program, Jmp, In, Out, I, Targets, After, Fits, Slot, Held,
      ComesFrom, wrap_top, wrap_bottom, ADDR_CYC, ADDR_WR, ADDR_RD, ADDR_RDB, ADDR_HALT
  <2>2. CASE pc = 30
    BY <2>2 DEF lockstep_program, Program, Jmp, In, Out, I, Targets, After, Fits, Slot, Held,
      ComesFrom, wrap_top, wrap_bottom, ADDR_CYC, ADDR_WR, ADDR_RD, ADDR_RDB, ADDR_HALT
  <2> QED BY <1>10, <2>1, <2>2
<1> QED BY <1>1, <1>2, <1>3, <1>4, <1>5, <1>6, <1>7, <1>8, <1>9, <1>10

-----------------------------------------------------------------------------
(* What an instruction that does not wait does to the registers.           *)
LEMMA Executes ==
  ASSUME Cycle, sm.delay = 0, NEW i, i = lockstep_program(sm.pc), ~Stalled(i)
  PROVE  sm' = Executed(i, sync2) /\ Clocked(i.side) /\ ui' = Driven(i)
<1>1. ~(sm.delay > 0) /\ ~Stalled(lockstep_program(sm.pc))
  OBVIOUS
<1>2. /\ sm' = Executed(i, sync2) /\ Pins(i.side, Driven(i))
      /\ paused' = IF i.side = 1 /\ clk = 0 THEN FALSE ELSE paused
  BY <1>1, Zenon DEF Cycle
<1> QED BY <1>2 DEF Pins, Clocked

LEMMA JmpStep ==
  ASSUME Whole(sm), NEW i, NEW uo, i.op = "jmp", NEW s, s = Executed(i, uo)
  PROVE  /\ Whole(s) /\ s.pc = IF Taken(i.arg, uo) THEN i.n ELSE FallThrough
         /\ s.delay = i.delay /\ s.tx = sm.tx /\ s.osr = sm.osr /\ s.x = sm.x
BY DEF Executed, Whole

LEMMA PlainStep ==
  ASSUME Whole(sm), NEW i, NEW uo, i.op \in {"in", "nop", "set", "push"},
         NEW s, s = Executed(i, uo)
  PROVE  /\ Whole(s) /\ s.pc = FallThrough
         /\ s.delay = i.delay /\ s.tx = sm.tx /\ s.osr = sm.osr /\ s.x = sm.x
BY DEF Executed, Whole

LEMMA MovStep ==
  ASSUME Whole(sm), NEW i, NEW uo, i.op = "mov", NEW s, s = Executed(i, uo)
  PROVE  /\ Whole(s) /\ s.pc = FallThrough /\ s.delay = i.delay /\ s.tx = sm.tx
         /\ i.arg = "osr" => s.osr = <<s.osr[1], 0, s.osr[3]>> /\ s.osr[3] \in {0, 1}
         /\ i.arg # "osr" => s.x = IF sm.tx = << >> THEN 1 ELSE 0
BY DEF Executed, Whole

LEMMA OutStep ==
  ASSUME Whole(sm), NEW i, NEW uo, i.op = "out", NEW s, s = Executed(i, uo)
  PROVE  /\ Whole(s) /\ s.pc = IF i.arg = "pc" THEN Field ELSE FallThrough
         /\ s.delay = i.delay /\ s.tx = sm.tx
         /\ s.osr = IF sm.osr = << >> THEN << >> ELSE Tail(sm.osr)
BY DEF Executed, Whole

LEMMA PullStep ==
  ASSUME Whole(sm), NEW i, NEW uo, i.op = "pull", NEW s, s = Executed(i, uo)
  PROVE  /\ Whole(s) /\ s.pc = FallThrough /\ s.delay = i.delay
         /\ s.tx = Tail(sm.tx) /\ s.osr = Head(sm.tx)
BY DEF Executed, Whole

-----------------------------------------------------------------------------
(* Where the program reads and writes what the invariant speaks of.        *)
LEMMA Kinds ==
  ASSUME NEW pc \in 0 .. 31, NEW i, i = lockstep_program(pc)
  PROVE  /\ i.op \in {"jmp", "in", "out", "push", "pull", "mov", "nop", "set"}
         /\ i.op = "pull" <=> pc \in {19, 29}
         /\ i.op = "out" /\ i.arg = "pc" <=> pc \in {13, 30}
         /\ i.op = "out" /\ i.arg = "pins" => pc \in {7, 14, 21, 31}
         /\ i.op = "set" => pc = 24
         /\ i.op = "mov" /\ i.arg = "osr" => pc = 10
         /\ pc = 10 => i.op = "mov" /\ i.arg = "osr"
         /\ pc = 26 => i.op = "mov" /\ i.arg = "x"
         /\ pc = 27 => i.op = "jmp" /\ i.arg = "not_x" /\ i.n = 29
         /\ pc \in {11, 12} => i.op = "out" /\ i.arg # "pc"
         /\ pc \in {29, 30} => i.delay = 0
         /\ pc = ADDR_HALT => i.side = 0
BY DEF lockstep_program, Program, Jmp, In, Out, I, ADDR_HALT

LEMMA PlainWords ==
  /\ \A w \in Plain : w # << >> /\ w # HALT /\ w # Release
                      /\ Head(w) \in {ADDR_CYC, ADDR_WR, ADDR_RD, ADDR_RDB}
  /\ HALT # Release /\ HALT # << >> /\ Head(HALT) = ADDR_HALT
BY DEF Plain, HALT, Release, ADDR_CYC, ADDR_WR, ADDR_RD, ADDR_RDB, ADDR_HALT

(* The word at the head of the queue is pulled.                            *)
Linked(q) == \A i \in 1 .. Len(q) - 1 : q[i + 1] = Release <=> q[i] = HALT
LEMMA Pulled ==
  ASSUME NEW q \in Seq(Words), q # << >>, Linked(q)
  PROVE  /\ Tail(q) \in Seq(Words) /\ Linked(Tail(q)) /\ Head(q) \in Words /\ Head(q) = q[1]
         /\ Tail(q) # << >> => /\ Tail(q)[1] = Release <=> q[1] = HALT
                               /\ Tail(q)[Len(Tail(q))] = q[Len(q)]
         /\ Tail(q) = << >> => q[Len(q)] = q[1]
<1>1. Len(q) \in Nat /\ Len(q) >= 1 /\ Len(Tail(q)) = Len(q) - 1
  OBVIOUS
<1>2. \A i \in 1 .. Len(q) - 1 : Tail(q)[i] = q[i + 1]
  OBVIOUS
<1>3. Linked(Tail(q))
  <2> SUFFICES ASSUME NEW i \in 1 .. Len(Tail(q)) - 1
               PROVE  Tail(q)[i + 1] = Release <=> Tail(q)[i] = HALT
    BY DEF Linked
  <2>1. Tail(q)[i + 1] = q[i + 2] /\ Tail(q)[i] = q[i + 1] /\ i + 1 \in 1 .. Len(q) - 1
    BY <1>1, <1>2
  <2>2. q[i + 1 + 1] = Release <=> q[i + 1] = HALT
    BY <2>1 DEF Linked
  <2> QED BY <2>1, <2>2
<1>4. ASSUME Tail(q) # << >>
      PROVE  /\ Tail(q)[1] = Release <=> q[1] = HALT
             /\ Tail(q)[Len(Tail(q))] = q[Len(q)]
  <2>1. Len(q) >= 2
    BY <1>4, <1>1
  <2>2. Tail(q)[1] = q[1 + 1] /\ Tail(q)[Len(Tail(q))] = q[Len(q)]
    BY <2>1, <1>1, <1>2
  <2>3. q[1 + 1] = Release <=> q[1] = HALT
    BY <2>1, <1>1 DEF Linked
  <2> QED BY <2>2, <2>3
<1>5. Tail(q) = << >> => q[Len(q)] = q[1]
  <2>1. Len(<< >>) = 0
    OBVIOUS
  <2>2. Tail(q) = << >> => Len(q) = 1
    BY <1>1, <2>1
  <2> QED BY <2>2
<1> QED BY <1>1, <1>3, <1>4, <1>5

-----------------------------------------------------------------------------
(* One instruction, seen through the program's addresses.                  *)
LEMMA Moves ==
  ASSUME MachineInv, Cycle, sm.delay = 0, NEW i, i = lockstep_program(sm.pc), ~Stalled(i)
  PROVE  /\ Whole(sm') /\ sm'.pc \in Targets(sm.pc) /\ sm'.delay = i.delay
         /\ sm'.tx = IF i.op = "pull" THEN Tail(sm.tx) ELSE sm.tx
         /\ Clocked(i.side) /\ ui' = Driven(i)
<1>1. sm' = Executed(i, sync2) /\ Clocked(i.side) /\ ui' = Driven(i)
  BY Executes
<1>2. sm.pc \in 0 .. 31 /\ Whole(sm)
  BY DEF MachineInv, SmShape, Whole
<1>3. FallThrough = After(sm.pc)
  BY DEF FallThrough, After
<1>4. /\ i.op \in {"jmp", "in", "out", "push", "pull", "mov", "nop", "set"}
      /\ i.op = "out" /\ i.arg = "pc" <=> sm.pc \in {13, 30}
  BY <1>2, Kinds
<1>5. CASE i.op = "jmp"
  <2>1. /\ Whole(sm') /\ sm'.pc = IF Taken(i.arg, sync2) THEN i.n ELSE FallThrough
        /\ sm'.delay = i.delay /\ sm'.tx = sm.tx
    BY <1>1, <1>2, <1>5, JmpStep
  <2>2. sm'.pc \in Targets(sm.pc)
    BY <2>1, <1>3, <1>4, <1>5 DEF Targets, Taken
  <2> QED BY <1>1, <1>5, <2>1, <2>2
<1>6. CASE i.op \in {"in", "nop", "set", "push"}
  <2>1. Whole(sm') /\ sm'.pc = FallThrough /\ sm'.delay = i.delay /\ sm'.tx = sm.tx
    BY <1>1, <1>2, <1>6, PlainStep
  <2>2. sm'.pc \in Targets(sm.pc)
    BY <2>1, <1>3, <1>4, <1>6 DEF Targets
  <2> QED BY <1>1, <1>6, <2>1, <2>2
<1>7. CASE i.op = "mov"
  <2>1. Whole(sm') /\ sm'.pc = FallThrough /\ sm'.delay = i.delay /\ sm'.tx = sm.tx
    BY <1>1, <1>2, <1>7, MovStep
  <2>2. sm'.pc \in Targets(sm.pc)
    BY <2>1, <1>3, <1>4, <1>7 DEF Targets
  <2> QED BY <1>1, <1>7, <2>1, <2>2
<1>8. CASE i.op = "pull"
  <2>1. Whole(sm') /\ sm'.pc = FallThrough /\ sm'.delay = i.delay /\ sm'.tx = Tail(sm.tx)
    BY <1>1, <1>2, <1>8, PullStep
  <2>2. sm'.pc \in Targets(sm.pc)
    BY <2>1, <1>3, <1>4, <1>8 DEF Targets
  <2> QED BY <1>1, <1>8, <2>1, <2>2
<1>9. CASE i.op = "out"
  <2>1. /\ Whole(sm') /\ sm'.pc = IF i.arg = "pc" THEN Field ELSE FallThrough
        /\ sm'.delay = i.delay /\ sm'.tx = sm.tx
    BY <1>1, <1>2, <1>9, OutStep
  <2>2. CASE sm.pc \notin {13, 30}
    BY <2>1, <2>2, <1>1, <1>3, <1>4, <1>9 DEF Targets
  <2>3. CASE sm.pc = 13
    <3>1. Field \in {0, 1}
      BY <2>3 DEF Field, MachineInv, Branches
    <3> QED BY <3>1, <2>1, <2>3, <1>1, <1>4, <1>9 DEF Targets
  <2>4. CASE sm.pc = 30
    <3>1. Field \in {ADDR_CYC, ADDR_WR, ADDR_RD, ADDR_RDB, ADDR_HALT}
      BY <2>4, PlainWords DEF Field, MachineInv, Branches
    <3> QED BY <3>1, <2>1, <2>4, <1>1, <1>4, <1>9 DEF Targets
  <2> QED BY <2>2, <2>3, <2>4
<1> QED BY <1>4, <1>5, <1>6, <1>7, <1>8, <1>9

-----------------------------------------------------------------------------
(* What a cycle of the program does to the queue, to the clock and to the  *)
(* pins, whatever the chip answers.                                        *)
Scheduled ==
  /\ clk = 0 /\ clk' = 1 => age = 5 \/ paused
  /\ ui' # ui => age = 2 \/ paused'
Served ==
  /\ Owing' <=> Owing
  /\ sm.tx = << >> => sm'.tx = << >>
  /\ Halting /\ sm.tx = << >> => sm'.pc = ADDR_HALT
  /\ sm.pc = ADDR_HALT /\ sm.tx = << >> => clk' = 0
OneCycle == MachineInv' /\ Scheduled /\ Served

(* The queue of an instruction that pulls nothing.                         *)
LEMMA QueueKept ==
  ASSUME MachineInv, sm'.tx = sm.tx, Halting' <=> Halting
  PROVE  Discipline' /\ (Owing' <=> Owing)
<1>1. Discipline'
  BY DEF MachineInv, Discipline
<1>2. Owing' <=> Owing
  BY DEF Owing
<1> QED BY <1>1, <1>2

LEMMA Delayed == ASSUME MachineInv, Cycle, sm.delay # 0 PROVE OneCycle
<1>1. sm.delay > 0 /\ sm.delay \in 0 .. 2 /\ sm.pc \in 0 .. 31
  BY DEF MachineInv, SmShape
<1>2. sm' = [sm EXCEPT !.delay = @ - 1] /\ Pins(clk, ui) /\ UNCHANGED paused
  BY <1>1 DEF Cycle
<1>3. /\ sm'.pc = sm.pc /\ sm'.delay = sm.delay - 1 /\ sm'.tx = sm.tx /\ sm'.osr = sm.osr
      /\ sm'.x = sm.x /\ Whole(sm')
  BY <1>2 DEF MachineInv, SmShape, Whole
<1>4. clk' = clk /\ ui' = ui /\ age' = Least(age + 1, 7)
  BY <1>2 DEF Pins, MachineInv, SmShape
<1>5. ~Halting /\ ~Halting'
  <2>1. ~Halting
    BY <1>1 DEF MachineInv, Branches
  <2> QED BY <2>1, <1>3 DEF Halting
<1>6. SmShape'
  BY <1>1, <1>2, <1>3, <1>4 DEF MachineInv, SmShape, Whole, Least
<1>7. OnTime'
  <2>1. Slot(sm.pc)' = Slot(sm.pc)
    BY <1>3 DEF Slot
  <2>2. Slot(sm.pc) \in 0 .. 5
    BY <1>1, SlotType
  <2>3. CASE paused
    BY <2>3, <1>2, <1>3, <1>4 DEF MachineInv, OnTime
  <2>4. CASE ~paused
    <3>1. sm.delay + age = Slot(sm.pc) /\ (clk = 1 <=> Slot(sm.pc) <= 2)
      BY <2>4 DEF MachineInv, OnTime
    <3>2. age' = age + 1
      BY <3>1, <1>1, <1>4, <2>2 DEF Least, MachineInv, SmShape
    <3>3. sm'.delay + age' = Slot(sm.pc)
      BY <3>1, <3>2, <1>1, <1>3 DEF MachineInv, SmShape
    <3> QED BY <3>1, <3>3, <2>1, <2>4, <1>2, <1>4 DEF OnTime
  <2> QED BY <2>3, <2>4
<1>8. Branches'
  BY <1>3, <1>5 DEF MachineInv, Branches
<1>9. Discipline' /\ (Owing' <=> Owing)
  BY <1>3, <1>5, QueueKept
<1>10. Served
  BY <1>3, <1>5, <1>9 DEF Served, Halting
<1> QED BY <1>4, <1>6, <1>7, <1>8, <1>9, <1>10 DEF OneCycle, MachineInv, Scheduled

(* HALT waits for the word that ends it, with the clock low; no other pull *)
(* waits, because the program looked at the queue before it.               *)
LEMMA Waits ==
  ASSUME MachineInv, Cycle, sm.delay = 0, Stalled(lockstep_program(sm.pc)) PROVE OneCycle
<1>1. lockstep_program(sm.pc).op = "pull" /\ sm.tx = << >> /\ sm.pc \in 0 .. 31
  BY DEF Stalled, MachineInv, SmShape
<1>2. sm.pc = ADDR_HALT
  <2>1. sm.pc \in {19, 29}
    BY <1>1, Kinds
  <2> QED BY <2>1, <1>1 DEF MachineInv, Branches, ADDR_HALT
<1>3. lockstep_program(sm.pc).side = 0
  BY <1>1, <1>2, Kinds DEF ADDR_HALT
<1>4. UNCHANGED sm /\ Pins(0, ui) /\ paused' = (paused \/ sm.pc = ADDR_HALT)
  BY <1>3 DEF Cycle
<1>5. clk' = 0 /\ ui' = ui /\ age' = Least(age + 1, 7)
  BY <1>4 DEF Pins
<1>6. paused' /\ paused' \in BOOLEAN
  BY <1>2, <1>4
<1>7. SmShape'
  BY <1>4, <1>5, <1>6 DEF MachineInv, SmShape, Least
<1>8. OnTime'
  BY <1>2, <1>4, <1>5, <1>6 DEF OnTime, ADDR_HALT
<1>9. Branches' /\ (Halting' <=> Halting)
  BY <1>4 DEF MachineInv, Branches, Halting
<1>10. Discipline' /\ (Owing' <=> Owing)
  BY <1>4, <1>9, QueueKept
<1>11. Served
  BY <1>1, <1>2, <1>4, <1>5, <1>10 DEF Served
<1> QED BY <1>5, <1>7, <1>8, <1>9, <1>10, <1>11 DEF OneCycle, MachineInv, Scheduled

(* An instruction is executed.                                             *)
LEMMA BranchesKept ==
  ASSUME MachineInv, Cycle, sm.delay = 0, NEW i, i = lockstep_program(sm.pc), ~Stalled(i)
  PROVE  Branches'
<1>1. /\ Whole(sm') /\ sm'.pc \in Targets(sm.pc) /\ sm'.delay = i.delay
      /\ sm'.tx = IF i.op = "pull" THEN Tail(sm.tx) ELSE sm.tx
  BY Moves
<1>2. sm.pc \in 0 .. 31 /\ Whole(sm) /\ sm' = Executed(i, sync2)
  BY Executes DEF MachineInv, SmShape, Whole
<1>3. ComesFrom(sm.pc, sm'.pc)
  BY <1>1, <1>2, ProgramFits
<1>4. ASSUME sm'.pc = 27 PROVE sm'.x # 0 \/ sm'.tx # << >>
  <2>1. sm.pc = 26
    BY <1>3, <1>4 DEF ComesFrom
  <2>2. i.op = "mov" /\ i.arg = "x"
    BY <1>2, <2>1, Kinds
  <2>3. sm'.x = IF sm.tx = << >> THEN 1 ELSE 0
    BY <1>2, <2>2, MovStep
  <2> QED BY <1>1, <2>2, <2>3
<1>5. ASSUME sm'.pc = 29 PROVE sm'.tx # << >>
  <2>1. sm.pc = 27
    BY <1>3, <1>5 DEF ComesFrom
  <2>2. i.op = "jmp" /\ i.arg = "not_x" /\ i.n = 29
    BY <1>2, <2>1, Kinds
  <2>3. sm'.pc = IF Taken(i.arg, sync2) THEN i.n ELSE FallThrough
    BY <1>2, <2>2, JmpStep
  <2>4. FallThrough = 28
    BY <2>1 DEF FallThrough, wrap_top
  <2>5. sm.x = 0
    BY <2>2, <2>3, <2>4, <1>5 DEF Taken
  <2> QED BY <1>1, <2>1, <2>2, <2>5 DEF MachineInv, Branches
<1>6. ASSUME sm'.pc = 30 PROVE sm'.osr \in Plain \cup {HALT}
  <2>1. sm.pc = 29
    BY <1>3, <1>6 DEF ComesFrom
  <2>2. i.op = "pull" /\ sm.tx # << >>
    BY <1>2, <2>1, Kinds DEF Stalled
  <2>3. sm'.osr = Head(sm.tx)
    BY <1>2, <2>2, PullStep
  <2>4. sm.tx \in Seq(Words) /\ Linked(sm.tx) /\ (sm.tx[1] = Release <=> Halting)
    BY <2>2 DEF MachineInv, SmShape, Discipline, Linked
  <2>5. Head(sm.tx) \in Words /\ Head(sm.tx) = sm.tx[1]
    BY <2>2, <2>4, Pulled
  <2>6. ~Halting
    BY <2>1 DEF Halting, ADDR_HALT
  <2> QED BY <2>3, <2>4, <2>5, <2>6 DEF Words
<1>7. ASSUME sm'.pc = 11
      PROVE  sm'.osr = <<sm'.osr[1], 0, sm'.osr[3]>> /\ sm'.osr[3] \in {0, 1}
  <2>1. sm.pc = 10
    BY <1>3, <1>7 DEF ComesFrom
  <2>2. i.op = "mov" /\ i.arg = "osr"
    BY <1>2, <2>1, Kinds
  <2> QED BY <1>2, <2>2, MovStep
<1>8. ASSUME sm'.pc = 12 PROVE sm'.osr = <<0, sm'.osr[2]>> /\ sm'.osr[2] \in {0, 1}
  <2>1. sm.pc = 11
    BY <1>3, <1>8 DEF ComesFrom
  <2>0. i.op = "out"
    BY <1>2, <2>1, Kinds
  <2>2. sm'.osr = IF sm.osr = << >> THEN << >> ELSE Tail(sm.osr)
    BY <1>2, <2>0, OutStep
  <2>3. PICK a, b : sm.osr = <<a, 0, b>> /\ b \in {0, 1}
    BY <2>1 DEF MachineInv, Branches
  <2> QED BY <2>2, <2>3
<1>9. ASSUME sm'.pc = 13 PROVE sm'.osr = <<sm'.osr[1]>> /\ sm'.osr[1] \in {0, 1}
  <2>1. sm.pc = 12
    BY <1>3, <1>9 DEF ComesFrom
  <2>0. i.op = "out"
    BY <1>2, <2>1, Kinds
  <2>2. sm'.osr = IF sm.osr = << >> THEN << >> ELSE Tail(sm.osr)
    BY <1>2, <2>0, OutStep
  <2>3. PICK b : sm.osr = <<0, b>> /\ b \in {0, 1}
    BY <2>1 DEF MachineInv, Branches
  <2> QED BY <2>2, <2>3
<1>10. Halting' => sm'.delay = 0
  <2>1. Halting' => sm.pc \in {29, 30}
    BY <1>3 DEF Halting, ComesFrom
  <2> QED BY <1>1, <1>2, <2>1, Kinds
<1> QED BY <1>4, <1>5, <1>6, <1>7, <1>8, <1>9, <1>10 DEF Branches

LEMMA Works ==
  ASSUME MachineInv, Cycle, sm.delay = 0, NEW i, i = lockstep_program(sm.pc), ~Stalled(i)
  PROVE  OneCycle
<1>1. /\ Whole(sm') /\ sm'.pc \in Targets(sm.pc) /\ sm'.delay = i.delay
      /\ sm'.tx = IF i.op = "pull" THEN Tail(sm.tx) ELSE sm.tx
      /\ Clocked(i.side) /\ ui' = Driven(i)
  BY Moves
<1>2. sm.pc \in 0 .. 31 /\ Whole(sm) /\ sm' = Executed(i, sync2)
  BY Executes DEF MachineInv, SmShape, Whole
<1>3. sm'.pc \in 0 .. 31 /\ ComesFrom(sm.pc, sm'.pc) /\ Fits(sm.pc, sm'.pc, sm'.delay, i.side)
  BY <1>1, <1>2, ProgramFits
<1>4. /\ OnTime' /\ clk' \in {0, 1} /\ age' \in 0 .. 7 /\ paused' \in BOOLEAN
      /\ clk = 0 /\ clk' = 1 => age = 5 \/ paused
  BY <1>1, <1>3, Timed DEF MachineInv
<1>5. ui' # ui => age = 2 \/ paused'
  <2> SUFFICES ASSUME ui' # ui PROVE age = 2 \/ paused'
    OBVIOUS
  <2>1. sm.pc \in {7, 14, 21, 24, 31}
    BY <1>1, <1>2, Kinds DEF Driven
  <2>2. Slot(sm.pc) = 2
    BY <2>1 DEF Slot
  <2>3. i.side = 0
    BY <2>2, <1>3 DEF Fits
  <2>4. CASE paused
    BY <2>4, <2>3, <1>1 DEF Clocked
  <2>5. CASE ~paused
    BY <2>5, <2>2 DEF MachineInv, OnTime, SmShape
  <2> QED BY <2>4, <2>5
<1>6. Branches'
  BY BranchesKept
<1>7. ASSUME sm.pc \notin {19, 29} PROVE Discipline' /\ Served
  <2>1. sm'.tx = sm.tx
    BY <1>1, <1>2, <1>7, Kinds
  <2>2. Halting <=> sm.pc = 30 /\ sm.osr = HALT
    BY <1>7 DEF Halting, ADDR_HALT
  <2>3. Halting' <=> sm'.pc = ADDR_HALT
    BY <1>7, <1>3 DEF Halting, ComesFrom
  <2>4. ASSUME sm.pc = 30 PROVE sm'.pc = ADDR_HALT <=> sm.pc = 30 /\ sm.osr = HALT
    <3>0. i.op = "out" /\ i.arg = "pc"
      BY <1>2, <2>4, Kinds
    <3>1. sm'.pc = Field
      BY <1>2, <3>0, OutStep
    <3>2. Field = Head(sm.osr) /\ sm.osr \in Plain \cup {HALT}
      BY <2>4, PlainWords DEF Field, MachineInv, Branches
    <3>3. Field = ADDR_HALT <=> sm.osr = HALT
      BY <3>2, PlainWords DEF ADDR_HALT, ADDR_CYC, ADDR_WR, ADDR_RD, ADDR_RDB
    <3>4. sm'.pc = ADDR_HALT <=> sm.pc = 30 /\ sm.osr = HALT
      BY <3>1, <3>3, <2>4
    <3> QED BY <3>4
  <2>5. ASSUME sm.pc # 30 PROVE sm'.pc = ADDR_HALT <=> sm.pc = 30 /\ sm.osr = HALT
    BY <2>5, <1>3 DEF ComesFrom
  <2>6. Halting' <=> Halting
    <3>1. sm'.pc = ADDR_HALT <=> sm.pc = 30 /\ sm.osr = HALT
      BY <2>4, <2>5
    <3> QED BY <3>1, <2>2, <2>3, Zenon
  <2>7. Discipline' /\ (Owing' <=> Owing)
    BY <2>1, <2>6, QueueKept
  <2>9. Halting => sm'.pc = ADDR_HALT
    BY <2>3, <2>6
  <2>10. Served
    BY <2>1, <2>7, <2>9, <1>7 DEF Served, ADDR_HALT
  <2> QED BY <2>7, <2>10
<1>8. ASSUME sm.pc \in {19, 29} PROVE Discipline' /\ Served
  <2>1. i.op = "pull" /\ sm.tx # << >> /\ sm'.tx = Tail(sm.tx)
    BY <1>1, <1>2, <1>8, Kinds DEF Stalled
  <2>2. sm'.osr = Head(sm.tx)
    BY <1>2, <2>1, PullStep
  <2>3. sm.tx \in Seq(Words) /\ Linked(sm.tx) /\ (sm.tx[1] = Release <=> Halting)
    BY <2>1 DEF MachineInv, SmShape, Discipline, Linked
  <2>4. /\ Tail(sm.tx) \in Seq(Words) /\ Linked(Tail(sm.tx)) /\ Head(sm.tx) = sm.tx[1]
        /\ Tail(sm.tx) # << >> => /\ Tail(sm.tx)[1] = Release <=> sm.tx[1] = HALT
                                  /\ Tail(sm.tx)[Len(Tail(sm.tx))] = sm.tx[Len(sm.tx)]
        /\ Tail(sm.tx) = << >> => sm.tx[Len(sm.tx)] = sm.tx[1]
    BY <2>1, <2>3, Pulled
  <2>5. Halting' <=> sm.tx[1] = HALT
    <3>1. CASE sm.pc = 19
      <4>1. sm.tx[1] = Release
        BY <3>1, <2>3 DEF Halting, ADDR_HALT
      <4>2. ~Halting'
        BY <3>1, <1>3 DEF Halting, ComesFrom, ADDR_HALT
      <4> QED BY <4>1, <4>2, PlainWords
    <3>2. CASE sm.pc = 29
      <4>1. sm'.pc = 30
        BY <1>1, <3>2 DEF Targets, After, wrap_top, lockstep_program, Program, I
      <4> QED BY <4>1, <2>2, <2>4 DEF Halting, ADDR_HALT
    <3> QED BY <1>8, <3>1, <3>2
  <2>6. Discipline'
    BY <2>1, <2>4, <2>5 DEF Discipline, Linked
  <2>7. Owing' <=> Owing
    <3>1. Owing <=> sm.tx[Len(sm.tx)] = HALT
      BY <2>1 DEF Owing
    <3>2. CASE Tail(sm.tx) = << >>
      BY <3>1, <3>2, <2>1, <2>4, <2>5 DEF Owing
    <3>3. CASE Tail(sm.tx) # << >>
      BY <3>1, <3>3, <2>1, <2>4 DEF Owing
    <3> QED BY <3>2, <3>3
  <2>8. Served
    BY <2>1, <2>7 DEF Served
  <2> QED BY <2>6, <2>8
<1>9. sm'.tx \in Seq(Words) /\ Discipline' /\ Served
  <2>1. sm.tx \in Seq(Words)
    BY DEF MachineInv, SmShape
  <2>2. sm.tx # << >> => Tail(sm.tx) \in Seq(Words)
    BY <2>1
  <2>3. i.op = "pull" => sm.tx # << >>
    BY DEF Stalled
  <2> QED BY <1>1, <1>7, <1>8, <2>1, <2>2, <2>3
<1>10. SmShape'
  BY <1>1, <1>3, <1>4, <1>9 DEF SmShape, Whole, Fits
<1> QED BY <1>4, <1>5, <1>6, <1>9, <1>10 DEF OneCycle, MachineInv, Scheduled

LEMMA CycleStep == ASSUME MachineInv, Cycle PROVE OneCycle
BY Delayed, Waits, Works

-----------------------------------------------------------------------------
(* The steps of a call: chunks of operations, and the steps of a reset.    *)
LEMMA NoHaltAmongOperations == \A ops \in Seq(Operations) : ops # <<OP_HALT>>
<1>1. OP_HALT \notin Operations
  <2>1. OP_HALT.word = HALT
    BY DEF OP_HALT, HALT
  <2> QED BY <2>1, PlainWords DEF Operations
<1> SUFFICES ASSUME <<OP_HALT>> \in Seq(Operations) PROVE FALSE
  OBVIOUS
<1>2. <<OP_HALT>>[1] \in Operations
  OBVIOUS
<1> QED BY <1>1, <1>2

CallShape(s) ==
  /\ s \in Seq(StepSet) /\ InOrder(s)
  /\ s # << >> /\ s[1].do \in {"submit", "wait"}

LEMMA NextStep ==
  ASSUME NEW s \in Seq(StepSet), s # << >>, InOrder(s)
  PROVE  /\ Tail(s) \in Seq(StepSet) /\ InOrder(Tail(s)) /\ Head(s) = s[1] /\ Head(s) \in StepSet
         /\ Tail(s) # << >> => Follows(Head(s), Head(Tail(s)))
         /\ Head(s).do # "wait" => Tail(s) # << >>
<1>1. /\ Len(s) \in Nat /\ Len(s) >= 1 /\ Len(Tail(s)) = Len(s) - 1 /\ Tail(s) \in Seq(StepSet)
      /\ Head(s) = s[1] /\ s[1] \in StepSet /\ Len(<< >>) = 0
  OBVIOUS
<1>2. \A i \in 1 .. Len(s) - 1 : Tail(s)[i] = s[i + 1]
  OBVIOUS
<1>3. ASSUME NEW i \in 1 .. Len(Tail(s)) - 1 PROVE Follows(Tail(s)[i], Tail(s)[i + 1])
  <2>1. Tail(s)[i] = s[i + 1] /\ Tail(s)[i + 1] = s[i + 1 + 1] /\ i + 1 \in 1 .. Len(s) - 1
    BY <1>1, <1>2
  <2>2. Follows(s[i + 1], s[i + 1 + 1])
    BY <2>1 DEF InOrder
  <2> QED BY <2>1, <2>2
<1>4. ASSUME Tail(s) # << >>
      PROVE  /\ Tail(s)[Len(Tail(s))].do = "wait" /\ Follows(Head(s), Head(Tail(s)))
  <2>1. Len(s) >= 2
    BY <1>1, <1>4
  <2>2. Tail(s)[Len(Tail(s))] = s[Len(s)] /\ Head(Tail(s)) = s[1 + 1]
    BY <2>1, <1>1, <1>2
  <2>3. Follows(s[1], s[1 + 1])
    BY <2>1, <1>1 DEF InOrder
  <2> QED BY <2>2, <2>3, <1>1 DEF InOrder
<1>5. Tail(s) = << >> => Head(s).do = "wait"
  <2>1. ASSUME Tail(s) = << >> PROVE Len(s) = 1
    <3>0. Len(<< >>) = 0
      OBVIOUS
    <3>1. Len(Tail(s)) = 0
      BY <2>1, <3>0, Zenon
    <3> QED BY <3>1, <1>1
  <2> QED BY <2>1, <1>1 DEF InOrder
<1>6. InOrder(Tail(s))
  BY <1>3, <1>4 DEF InOrder
<1> QED BY <1>1, <1>4, <1>5, <1>6

LEMMA JoinedSteps ==
  ASSUME NEW a, NEW b, CallShape(a), CallShape(b) PROVE CallShape(a \o b)
<1>1. a \in Seq(StepSet) /\ b \in Seq(StepSet) /\ Len(a) >= 1 /\ Len(b) >= 1
  BY DEF CallShape
<1>2. a \o b \in Seq(StepSet) /\ Len(a \o b) = Len(a) + Len(b)
  BY <1>1
<1>3. \A i \in 1 .. Len(a) : (a \o b)[i] = a[i]
  BY <1>1
<1>4. \A i \in 1 .. Len(b) : (a \o b)[Len(a) + i] = b[i]
  <2> SUFFICES ASSUME NEW i \in 1 .. Len(b) PROVE (a \o b)[Len(a) + i] = b[i]
    OBVIOUS
  <2>1. Len(a) + i \in 1 .. Len(a) + Len(b) /\ Len(a) + i > Len(a) /\ Len(a) + i - Len(a) = i
    BY <1>1
  <2> QED BY <1>1, <1>2, <2>1
<1>5. ASSUME NEW i \in 1 .. Len(a) + Len(b) - 1 PROVE Follows((a \o b)[i], (a \o b)[i + 1])
  <2>1. CASE i < Len(a)
    <3>1. (a \o b)[i] = a[i] /\ (a \o b)[i + 1] = a[i + 1] /\ i \in 1 .. Len(a) - 1
      BY <2>1, <1>1, <1>3
    <3> QED BY <3>1 DEF CallShape, InOrder
  <2>2. CASE i = Len(a)
    <3>1. (a \o b)[i] = a[Len(a)] /\ (a \o b)[i + 1] = b[1]
      BY <2>2, <1>1, <1>3, <1>4
    <3>2. a[Len(a)].do = "wait" /\ b[1].do \in {"submit", "wait"}
      BY DEF CallShape, InOrder
    <3> QED BY <3>1, <3>2 DEF Follows
  <2>3. CASE i > Len(a)
    <3> DEFINE j == i - Len(a)
    <3>1. j \in 1 .. Len(b) - 1 /\ i = Len(a) + j /\ i + 1 = Len(a) + (j + 1)
      BY <2>3, <1>1
    <3>2. (a \o b)[i] = b[j] /\ (a \o b)[i + 1] = b[j + 1]
      BY <3>1, <1>4, <1>1
    <3> QED BY <3>1, <3>2 DEF CallShape, InOrder
  <2> QED BY <2>1, <2>2, <2>3, <1>1
<1>6. (a \o b)[Len(a \o b)] = b[Len(b)] /\ (a \o b)[1] = a[1] /\ a \o b # << >>
  BY <1>1, <1>2, <1>3, <1>4
<1>7. b[Len(b)].do = "wait" /\ a[1].do \in {"submit", "wait"}
  BY DEF CallShape, InOrder
<1> QED BY <1>2, <1>5, <1>6, <1>7 DEF CallShape, InOrder

LEMMA SixSteps ==
  ASSUME NEW S, NEW a \in S, NEW b \in S, NEW c \in S, NEW d \in S, NEW e \in S, NEW f \in S
  PROVE  <<a, b, c, d, e, f>> \in Seq(S)
OBVIOUS

LEMMA HaltSteps ==
  ASSUME NEW step \in StepSet, step.do = "set_reset" PROVE CallShape(_halt(step))
<1> DEFINE s == _halt(step)
<1>1. Len(s) = 6 /\ s[1] = Submit(<<OP_HALT>>) /\ s[2] = Do("tx_empty") /\ s[3] = Do("sleep")
      /\ s[4] = step /\ s[5] = Do("put") /\ s[6] = Do("wait")
  BY DEF _halt
<1>2. \A i \in 1 .. 6 : s[i] \in StepSet
  <2>1. Submit(<<OP_HALT>>) \in StepSet
    BY DEF Submit, StepSet, Named
  <2>2. \A name \in Named : Do(name) \in StepSet
    BY DEF Do, StepSet
  <2> QED BY <1>1, <2>1, <2>2 DEF Named
<1>3. s = <<s[1], s[2], s[3], s[4], s[5], s[6]>>
  BY DEF _halt
<1> HIDE DEF s
<1>4. s \in Seq(StepSet) /\ s # << >>
  <2>1. s[1] \in StepSet /\ s[2] \in StepSet /\ s[3] \in StepSet
        /\ s[4] \in StepSet /\ s[5] \in StepSet /\ s[6] \in StepSet
    BY <1>2
  <2>2. <<s[1], s[2], s[3], s[4], s[5], s[6]>> \in Seq(StepSet)
    BY <2>1, SixSteps
  <2>3. s \in Seq(StepSet)
    BY <1>3, <2>2, Zenon
  <2>4. s # << >>
    BY <1>1
  <2> QED BY <2>3, <2>4
<1>5. \A i \in 1 .. 5 : Follows(s[i], s[i + 1])
  <2>1. Follows(Submit(<<OP_HALT>>), Do("tx_empty")) /\ Follows(Do("tx_empty"), Do("sleep"))
    BY DEF Follows, Submit, Do
  <2>2. Follows(Do("sleep"), step) /\ Follows(step, Do("put")) /\ Follows(Do("put"), Do("wait"))
    BY DEF Follows, Do
  <2> QED BY <1>1, <2>1, <2>2
<1>6. s[1].do = "submit" /\ s[6].do = "wait"
  BY <1>1 DEF Submit, Do
<1>7. CallShape(s)
  BY <1>1, <1>4, <1>5, <1>6 DEF CallShape, InOrder
<1> QED BY <1>7 DEF s

-----------------------------------------------------------------------------
(* Cutting operations into chunks only groups them.                        *)
LEMMA NatSetInduction ==
  ASSUME NEW S, 0 \in S, \A n \in Nat : n \in S => n + 1 \in S
  PROVE  Nat \subseteq S
<1> DEFINE Missing == {n \in Nat : n \notin S}
<1>1. SUFFICES ASSUME Missing # {} PROVE FALSE
  BY <1>1
<1> DEFINE R == OpToRel(<, Nat)
<1>2. IsWellFoundedOn(R, Nat)
  BY NatLessThanWellFounded
<1>3. \A x, y \in Nat : x < y => <<x, y>> \in R
  BY DEF OpToRel
<1> HIDE DEF R
<1>4. PICK m \in Missing : \A k \in Missing : <<k, m>> \notin R
  BY <1>1, <1>2, WFMin
<1>5. m # 0 /\ m \in Nat
  OBVIOUS
<1>6. m - 1 \in Nat /\ m - 1 < m
  BY <1>5
<1>7. m - 1 \notin Missing
  BY <1>3, <1>4, <1>5, <1>6
<1> QED BY <1>5, <1>6, <1>7, SMT

(* Piece and Chunk, one step of a recursion over a sequence.               *)
Added(what, groups, e) == IF what = "piece" THEN Piece(groups, e) ELSE Chunk(groups, e)
Grown(f, what, s, n) ==
  f = [k \in 0 .. n |-> IF k = 0 THEN << >> ELSE Added(what, f[k - 1], s[k])]

LEMMA GrownExists == \A what, s : \A n \in Nat : \E f : Grown(f, what, s, n)
<1> SUFFICES ASSUME NEW what, NEW s PROVE \A n \in Nat : \E f : Grown(f, what, s, n)
  OBVIOUS
<1> DEFINE S == {n \in Nat : \E f : Grown(f, what, s, n)}
<1>1. 0 \in S
  <2>1. Grown([k \in 0 .. 0 |-> << >>], what, s, 0)
    BY DEF Grown
  <2> QED BY <2>1
<1>2. ASSUME NEW n \in Nat, n \in S PROVE n + 1 \in S
  <2>1. PICK f : Grown(f, what, s, n)
    BY <1>2
  <2> DEFINE g == [k \in 0 .. n + 1 |-> IF k = 0 THEN << >> ELSE Added(what, f[k - 1], s[k])]
  <2>2. \A k \in 0 .. n : f[k] = g[k]
    BY <2>1, n \in Nat DEF Grown
  <2>3. \A k \in 0 .. n + 1 : k # 0 => k - 1 \in 0 .. n /\ g[k] = Added(what, g[k - 1], s[k])
    <3> SUFFICES ASSUME NEW k \in 0 .. n + 1, k # 0
                 PROVE  k - 1 \in 0 .. n /\ g[k] = Added(what, g[k - 1], s[k])
      OBVIOUS
    <3>1. k - 1 \in 0 .. n
      OBVIOUS
    <3>2. g[k] = Added(what, f[k - 1], s[k])
      OBVIOUS
    <3> HIDE DEF g
    <3> QED BY <3>1, <3>2, <2>2
  <2>4. g = [k \in 0 .. n + 1 |-> g[k]] /\ g[0] = << >>
    OBVIOUS
  <2> HIDE DEF g
  <2>5. Grown(g, what, s, n + 1)
    BY <2>3, <2>4 DEF Grown
  <2> QED BY <2>5
<1> HIDE DEF S
<1>3. Nat \subseteq S
  BY <1>1, <1>2, NatSetInduction
<1> QED BY <1>3 DEF S

LEMMA LastGroup ==
  ASSUME NEW G, NEW groups \in Seq(G), groups # << >>
  PROVE  Last(groups) \in G /\ Front(groups) \in Seq(G)
BY DEF Last, Front

LEMMA AddedGroup ==
  ASSUME NEW S, NEW what, NEW groups \in Seq(Seq(S)), NEW e,
         IF what = "piece" THEN e \in S ELSE e \in Seq(S)
  PROVE  Added(what, groups, e) \in Seq(Seq(S))
<1>1. groups # << >> => Last(groups) \in Seq(S) /\ Front(groups) \in Seq(Seq(S))
  BY LastGroup
<1>2. CASE what = "piece"
  <2>1. e \in S /\ <<e>> \in Seq(S)
    BY <1>2
  <2>2. groups # << >> => Append(Last(groups), e) \in Seq(S)
    BY <1>1, <2>1
  <2>3. groups # << >> => Append(Front(groups), Append(Last(groups), e)) \in Seq(Seq(S))
    BY <1>1, <2>2
  <2>4. Append(groups, <<e>>) \in Seq(Seq(S))
    BY <2>1
  <2>5. Piece(groups, e) \in Seq(Seq(S))
    BY <2>3, <2>4, Zenon DEF Piece
  <2> QED BY <2>5, <1>2 DEF Added
<1>3. CASE what # "piece"
  <2>1. e \in Seq(S)
    BY <1>3
  <2>2. groups # << >> => Last(groups) \o e \in Seq(S)
    BY <1>1, <2>1
  <2>3. groups # << >> => Append(Front(groups), Last(groups) \o e) \in Seq(Seq(S))
    BY <1>1, <2>2
  <2>4. Append(groups, e) \in Seq(Seq(S))
    BY <2>1
  <2>5. Chunk(groups, e) \in Seq(Seq(S))
    BY <2>3, <2>4, Zenon DEF Chunk
  <2> QED BY <2>5, <1>3 DEF Added
<1> QED BY <1>2, <1>3

LEMMA GrownGroups ==
  ASSUME NEW S, NEW what, NEW n \in Nat, NEW s,
         \A k \in 1 .. n : IF what = "piece" THEN s[k] \in S ELSE s[k] \in Seq(S),
         NEW f, Grown(f, what, s, n)
  PROVE  f[n] \in Seq(Seq(S))
<1> DEFINE T == {k \in Nat : k <= n => f[k] \in Seq(Seq(S))}
<1>1. 0 \in T
  BY DEF Grown
<1>2. ASSUME NEW k \in Nat, k \in T PROVE k + 1 \in T
  <2> SUFFICES ASSUME k + 1 <= n PROVE f[k + 1] \in Seq(Seq(S))
    OBVIOUS
  <2>1. f[k] \in Seq(Seq(S)) /\ k + 1 \in 1 .. n
    BY <1>2
  <2>2. f[k + 1] = Added(what, f[k], s[k + 1])
    <3>1. k + 1 \in 0 .. n /\ k + 1 # 0 /\ (k + 1) - 1 = k
      BY <2>1
    <3> QED BY <3>1 DEF Grown
  <2> QED BY <2>1, <2>2, AddedGroup
<1> HIDE DEF T
<1>3. Nat \subseteq T
  BY <1>1, <1>2, NatSetInduction
<1> QED BY <1>3 DEF T

LEMMA ChunksType == ASSUME NEW S, NEW ops \in Seq(S) PROVE Chunks(ops) \in Seq(Seq(S))
<1>1. Pieces(ops) \in Seq(Seq(S))
  <2>1. Len(ops) \in Nat /\ \A k \in 1 .. Len(ops) : ops[k] \in S
    OBVIOUS
  <2> DEFINE f == CHOOSE g : Grown(g, "piece", ops, Len(ops))
  <2>2. Pieces(ops) = f[Len(ops)]
    BY DEF Pieces, Grown, Added
  <2>3. Grown(f, "piece", ops, Len(ops))
    BY <2>1, GrownExists
  <2> HIDE DEF f
  <2>4. f[Len(ops)] \in Seq(Seq(S))
    BY <2>1, <2>3, GrownGroups
  <2> QED BY <2>2, <2>4
<1> DEFINE pieces == Pieces(ops)
<1>2. Len(pieces) \in Nat /\ \A k \in 1 .. Len(pieces) : pieces[k] \in Seq(S)
  BY <1>1
<1> DEFINE f == CHOOSE g : Grown(g, "chunk", pieces, Len(pieces))
<1>3. Chunks(ops) = f[Len(pieces)]
  BY DEF Chunks, Grown, Added
<1> HIDE DEF pieces
<1>4. Grown(f, "chunk", pieces, Len(pieces))
  BY <1>2, GrownExists
<1> HIDE DEF f
<1>5. f[Len(pieces)] \in Seq(Seq(S))
  BY <1>2, <1>4, GrownGroups
<1> QED BY <1>3, <1>5

-----------------------------------------------------------------------------
(* The steps of every call.                                                *)
LEMMA Appended ==
  ASSUME NEW S, NEW f \in Seq(S), NEW e \in S
  PROVE  /\ f \o <<e>> \in Seq(S) /\ Len(f \o <<e>>) = Len(f) + 1
         /\ (f \o <<e>>)[Len(f) + 1] = e /\ \A i \in 1 .. Len(f) : (f \o <<e>>)[i] = f[i]
OBVIOUS

LEMMA RunSteps == ASSUME NEW ops \in Seq(Operations) PROVE CallShape(run_ops(ops))
<1> DEFINE chunks == Chunks(ops)
           body == [i \in 1 .. Len(chunks) |-> Submit(chunks[i])]
           s == body \o <<Do("wait")>>
<1>1. chunks \in Seq(Seq(Operations))
  BY ChunksType
<1>2. run_ops(ops) = s
  BY DEF run_ops
<1> HIDE DEF chunks
<1>3. Len(chunks) \in Nat /\ \A i \in 1 .. Len(chunks) : chunks[i] \in Seq(Operations)
  BY <1>1
<1>4. Do("wait") \in StepSet /\ \A i \in 1 .. Len(chunks) : Submit(chunks[i]) \in StepSet
  BY <1>3 DEF Do, Submit, StepSet, Named
<1>5. \A i \in 1 .. Len(chunks) : body[i] = Submit(chunks[i])
  OBVIOUS
<1>7. body \in Seq(StepSet) /\ Len(body) = Len(chunks)
  BY <1>3, <1>4
<1> HIDE DEF body
<1>8. /\ s \in Seq(StepSet) /\ Len(s) = Len(chunks) + 1 /\ s[Len(chunks) + 1] = Do("wait")
      /\ \A i \in 1 .. Len(chunks) : s[i] = Submit(chunks[i])
  <2>1. /\ s \in Seq(StepSet) /\ Len(s) = Len(body) + 1 /\ s[Len(body) + 1] = Do("wait")
        /\ \A i \in 1 .. Len(body) : s[i] = body[i]
    BY <1>4, <1>7, Appended
  <2> HIDE DEF s
  <2> QED BY <2>1, <1>5, <1>7
<1> HIDE DEF s
<1>9. ASSUME NEW i \in 1 .. Len(s) - 1 PROVE Follows(s[i], s[i + 1])
  <2>1. i \in 1 .. Len(chunks) /\ s[i] = Submit(chunks[i])
    BY <1>3, <1>8
  <2>4. chunks[i] # <<OP_HALT>>
    BY <1>3, <2>1, NoHaltAmongOperations
  <2>2. s[i + 1].do \in {"submit", "wait"}
    <3>1. CASE i + 1 \in 1 .. Len(chunks)
      <4>1. s[i + 1] = Submit(chunks[i + 1])
        BY <3>1, <1>8
      <4> QED BY <4>1 DEF Submit
    <3>2. CASE i = Len(chunks)
      BY <3>2, <1>8 DEF Do
    <3> QED BY <3>1, <3>2, <2>1, <1>3
  <2>3. s[i].do = "submit" /\ s[i].ops # <<OP_HALT>>
    BY <2>1, <2>4 DEF Submit
  <2> QED BY <2>2, <2>3 DEF Follows
<1>10. s # << >> /\ s[Len(s)].do = "wait" /\ s[1].do \in {"submit", "wait"}
  <2>1. s[Len(s)].do = "wait" /\ Len(s) >= 1
    BY <1>3, <1>8 DEF Do
  <2>2. CASE Len(chunks) = 0
    BY <2>1, <2>2, <1>8
  <2>3. CASE Len(chunks) # 0
    <3>1. s[1] = Submit(chunks[1])
      BY <2>3, <1>3, <1>8
    <3> QED BY <2>1, <3>1, <1>8 DEF Submit
  <2> QED BY <2>2, <2>3
<1>11. CallShape(s)
  BY <1>8, <1>9, <1>10 DEF CallShape, InOrder
<1> QED BY <1>2, <1>11

LEMMA OperationTypes ==
  ASSUME NEW pins \in PinSets
  PROVE  /\ op_cycle(pins) \in Operations /\ op_write(pins) \in Operations
         /\ op_read(pins) \in Operations /\ op_read_bubble(pins) \in Operations
BY DEF Operations, Plain, KindOf, op_cycle, op_write, op_read, op_read_bubble,
  ADDR_CYC, ADDR_WR, ADDR_RD, ADDR_RDB, ADDR_HALT

LEMMA CallSteps ==
  ASSUME LockstepAssumption, window \in Nat, calls \in Nat, NEW w \in Nat,
         NEW kind \in {"write", "read", "cycle", "reset"}
  PROVE  CallShape(Steps(kind, w))
<1>1. \A a \in Nat : Idle(a) \in PinSets
  BY DEF Idle, UI, PinSets
<1>2. \A a \in Nat : CallShape(cycle(a))
  <2> SUFFICES ASSUME NEW a \in Nat PROVE CallShape(cycle(a))
    OBVIOUS
  <2>1. <<op_cycle(Idle(a))>> \in Seq(Operations)
    BY <1>1, OperationTypes
  <2> QED BY <2>1, RunSteps DEF cycle
<1>3. CASE kind = "write"
  <2> DEFINE frame == op_cycle(Idle(w))
             pins(i) == UI(w, TRUE, FALSE, Nibble(calls + 1, i - 1))
             nibbles == [i \in 1 .. WordLength |-> op_write(pins(i))]
  <2>1. frame \in Operations
    BY <1>1, OperationTypes
  <2>2. \A i \in 1 .. WordLength : op_write(pins(i)) \in Operations
    <3> SUFFICES ASSUME NEW i \in 1 .. WordLength PROVE op_write(pins(i)) \in Operations
      OBVIOUS
    <3>1. Nibble(calls + 1, i - 1) \in Nat
      BY DEF Nibble, WordLength
    <3>2. pins(i) \in PinSets
      BY <3>1 DEF UI, PinSets
    <3> QED BY <3>2, OperationTypes
  <2>3. nibbles \in Seq(Operations)
    <3>1. WordLength \in Nat
      BY DEF WordLength
    <3> HIDE DEF pins
    <3> QED BY <3>1, <2>2
  <2>4. write_word(w, calls + 1) = run_ops(<<frame>> \o nibbles \o <<frame>>)
    BY DEF write_word
  <2> HIDE DEF frame, nibbles
  <2>5. <<frame>> \o nibbles \o <<frame>> \in Seq(Operations)
    BY <2>1, <2>3
  <2> QED BY <1>3, <2>4, <2>5, RunSteps DEF Steps
<1>4. CASE kind = "read"
  <2> DEFINE pins == UI(w, FALSE, TRUE, 0)
             first == IF w = window THEN op_read(pins) ELSE op_read_bubble(pins)
             frame == op_cycle(Idle(w))
  <2>1. pins \in PinSets
    BY DEF UI, PinSets
  <2>2. first \in Operations /\ frame \in Operations
    BY <1>1, <2>1, OperationTypes
  <2>3. read_word(w) = run_ops(<<first, frame>>)
    BY DEF read_word
  <2> HIDE DEF first, frame
  <2>4. <<first, frame>> \in Seq(Operations)
    BY <2>2
  <2> QED BY <1>4, <2>3, <2>4, RunSteps DEF Steps
<1>5. CASE kind = "cycle"
  BY <1>2, <1>5 DEF Steps
<1>6. CASE kind = "reset"
  <2>1. \A on \in BOOLEAN : SetReset(on) \in StepSet /\ SetReset(on).do = "set_reset"
    BY DEF SetReset, StepSet, Named
  <2>2. CallShape(_halt(SetReset(TRUE))) /\ CallShape(_halt(SetReset(FALSE)))
    BY <2>1, HaltSteps
  <2>3. CallShape(run_ops(<<op_cycle(Idle(0))>>))
    BY <1>2 DEF cycle
  <2>4. CallShape(reset)
    BY <2>2, <2>3, JoinedSteps DEF reset
  <2> QED BY <1>6, <2>4 DEF Steps
<1> QED BY <1>3, <1>4, <1>5, <1>6

-----------------------------------------------------------------------------
(* A step of the host leaves the program where it is: it puts a word into  *)
(* the queue or takes a result.                                            *)
LEMMA MachineKept ==
  ASSUME MachineInv, Whole(sm'), sm'.pc = sm.pc, sm'.delay = sm.delay, sm'.osr = sm.osr,
         sm'.x = sm.x, UNCHANGED <<clk, age, paused>>, sm'.tx \in Seq(Words), Discipline',
         sm'.tx = sm.tx \/ sm'.tx # << >>
  PROVE  MachineInv' /\ (Halting' <=> Halting)
<1>1. Halting' <=> Halting
  BY DEF Halting
<1>2. SmShape'
  BY DEF MachineInv, SmShape, Whole
<1>3. OnTime'
  <2>1. Slot(sm.pc)' = Slot(sm.pc)
    BY DEF Slot
  <2> QED BY <2>1 DEF MachineInv, OnTime
<1>4. Branches'
  BY <1>1 DEF MachineInv, Branches
<1> QED BY <1>1, <1>2, <1>3, <1>4 DEF MachineInv

LEMMA MachineStutters ==
  ASSUME MachineInv, UNCHANGED <<sm, clk, age, paused>>
  PROVE  MachineInv' /\ (Halting' <=> Halting) /\ (Owing' <=> Owing)
<1>1. Slot(sm.pc)' = Slot(sm.pc)
  BY DEF Slot
<1>2. SmShape' /\ OnTime' /\ Branches' /\ Discipline'
  BY <1>1 DEF MachineInv, SmShape, OnTime, Branches, Discipline, Halting
<1> QED BY <1>2 DEF MachineInv, Halting, Owing

LEMMA WordAppended ==
  ASSUME NEW S, NEW q \in Seq(S), NEW e \in S
  PROVE  /\ Append(q, e) \in Seq(S) /\ Append(q, e) # << >> /\ Len(Append(q, e)) = Len(q) + 1
         /\ Append(q, e)[Len(q) + 1] = e /\ \A i \in 1 .. Len(q) : Append(q, e)[i] = q[i]
OBVIOUS

LEMMA WordPut ==
  ASSUME MachineInv, NEW word \in Words, Put(word), UNCHANGED <<clk, age, paused>>,
         word = Release <=> Owing
  PROVE  MachineInv' /\ (Owing' <=> word = HALT)
<1> DEFINE n == Len(sm.tx)
           q == Append(sm.tx, word)
<1>1. /\ sm.tx \in Seq(Words) /\ n \in Nat
      /\ sm.tx # << >> => n >= 1
  BY DEF MachineInv, SmShape
<1>2. /\ Whole(sm') /\ sm'.pc = sm.pc /\ sm'.delay = sm.delay /\ sm'.osr = sm.osr /\ sm'.x = sm.x
      /\ sm'.tx = q
  BY DEF Put, MachineInv, SmShape, Whole
<1>3. q \in Seq(Words) /\ q # << >> /\ Len(q) = n + 1 /\ q[n + 1] = word
      /\ \A i \in 1 .. n : q[i] = sm.tx[i]
  BY <1>1, WordAppended
<1>4. Halting' <=> Halting
  BY <1>2 DEF Halting
<1>5. q[1] = Release <=> Halting
  <2>1. CASE sm.tx = << >>
    BY <2>1, <1>3 DEF Owing
  <2>2. CASE sm.tx # << >>
    BY <2>2, <1>1, <1>3 DEF MachineInv, Discipline
  <2> QED BY <2>1, <2>2
<1>6. \A i \in 1 .. Len(q) - 1 : q[i + 1] = Release <=> q[i] = HALT
  <2> SUFFICES ASSUME NEW i \in 1 .. n PROVE q[i + 1] = Release <=> q[i] = HALT
    BY <1>1, <1>3
  <2>1. CASE i < n
    <3>1. i \in 1 .. n - 1 /\ i + 1 \in 1 .. n
      BY <2>1, <1>1
    <3>2. sm.tx[i + 1] = Release <=> sm.tx[i] = HALT
      BY <3>1 DEF MachineInv, Discipline
    <3> QED BY <3>1, <3>2, <1>3
  <2>2. CASE i = n
    <3>1. sm.tx # << >>
      BY <2>2
    <3> QED BY <3>1, <2>2, <1>3 DEF Owing
  <2> QED BY <2>1, <2>2, <1>1
<1> HIDE DEF q, n
<1>7. Discipline'
  BY <1>2, <1>3, <1>4, <1>5, <1>6 DEF Discipline
<1>8. Owing' <=> word = HALT
  BY <1>2, <1>3 DEF Owing
<1>9. MachineInv'
  BY <1>2, <1>3, <1>7, MachineKept
<1> QED BY <1>8, <1>9

LEMMA ResultTaken ==
  ASSUME MachineInv, sm' = [sm EXCEPT !.rx = Tail(@)], UNCHANGED <<clk, age, paused>>
  PROVE  MachineInv' /\ (Owing' <=> Owing)
<1>1. /\ Whole(sm') /\ sm'.pc = sm.pc /\ sm'.delay = sm.delay /\ sm'.osr = sm.osr /\ sm'.x = sm.x
      /\ sm'.tx = sm.tx /\ sm.tx \in Seq(Words)
  BY DEF MachineInv, SmShape, Whole
<1>2. Halting' <=> Halting
  BY <1>1 DEF Halting
<1>3. Discipline' /\ (Owing' <=> Owing)
  BY <1>1, <1>2, QueueKept
<1> QED BY <1>1, <1>3, MachineKept

-----------------------------------------------------------------------------
(* The steps of the host, and what each does to the pins.                  *)
OnSchedule ==
  /\ clk = 0 /\ clk' = 1 => age = 5 \/ paused
  /\ ui' # ui => age = 2 \/ paused'
  /\ rst' # rst => clk = 0 /\ sm.pc = ADDR_HALT /\ sm.tx = << >>

(* The head of what is left to do, when nothing is being put.              *)
LEMMA DoingFacts ==
  ASSUME LockInv, NEW step, Doing(step)
  PROVE  /\ putting = << >> /\ todo # << >> /\ Head(todo).do = step /\ Head(todo) \in StepSet
         /\ Owing <=> step \in Ending
         /\ step \in {"sleep", "set_reset", "put"} => sm.tx = << >>
         /\ step \in {"set_reset", "put"} => sm.pc = ADDR_HALT /\ clk = 0
         /\ Tail(todo) \in Seq(StepSet) /\ InOrder(Tail(todo))
         /\ Tail(todo) # << >> => Follows(Head(todo), Head(Tail(todo)))
         /\ step # "wait" => Tail(todo) # << >>
         /\ call # NoCall
<1>1. putting = << >> /\ todo # << >> /\ Head(todo).do = step
  BY DEF Doing, Step
<1>2. todo \in Seq(StepSet) /\ InOrder(todo) /\ call # NoCall
  BY <1>1 DEF LockInv, HostShape
<1>3. /\ Tail(todo) \in Seq(StepSet) /\ InOrder(Tail(todo)) /\ Head(todo) \in StepSet
      /\ Tail(todo) # << >> => Follows(Head(todo), Head(Tail(todo)))
      /\ Head(todo).do # "wait" => Tail(todo) # << >>
  BY <1>1, <1>2, NextStep
<1>4. /\ Owing <=> step \in Ending
      /\ step \in {"sleep", "set_reset", "put"} => sm.tx = << >>
      /\ step \in {"set_reset", "put"} => sm.pc = ADDR_HALT /\ clk = 0
  BY <1>1 DEF LockInv, InStep
<1> QED BY <1>1, <1>2, <1>3, <1>4

(* The rest of a call, when its head is done and nothing is being put.     *)
LEMMA NextInStep ==
  ASSUME LockInv, NEW step, Doing(step), MachineInv', todo' = Tail(todo),
         putting' = << >>, UNCHANGED call, window' \in Nat, calls' \in Nat, slept' \in Nat,
         Owing' <=> Tail(todo) # << >> /\ Head(Tail(todo)).do \in Ending,
         Tail(todo) # << >> /\ Head(Tail(todo)).do \in {"sleep", "set_reset", "put"}
           => sm'.tx = << >>,
         Tail(todo) # << >> /\ Head(Tail(todo)).do = "sleep" => slept' = 0,
         Tail(todo) # << >> /\ Head(Tail(todo)).do \in {"set_reset", "put"}
           => sm'.pc = ADDR_HALT /\ clk' = 0
  PROVE  LockInv'
<1>1. Tail(todo) \in Seq(StepSet) /\ InOrder(Tail(todo)) /\ call # NoCall
  BY DoingFacts
<1>2. InOrder(todo)' = InOrder(Tail(todo))
  BY DEF InOrder
<1>3. HostShape'
  BY <1>1, <1>2 DEF HostShape
<1>4. InStep'
  BY DEF InStep
<1> QED BY <1>3, <1>4 DEF LockInv

(* A step that moves no pin and leaves the program alone.                  *)
LEMMA QuietPins ==
  ASSUME UNCHANGED <<clk, ui, rst>>, clk \in {0, 1} PROVE OnSchedule
BY DEF OnSchedule

LEMMA CollectStep == ASSUME LockInv, Collect PROVE LockInv' /\ OnSchedule
<1>1. /\ MachineInv /\ sm' = [sm EXCEPT !.rx = Tail(@)]
      /\ UNCHANGED <<clk, ui, rst, age, paused, call, todo, putting, slept, window, calls>>
  BY DEF LockInv, Collect, _collect_one
<1>2. MachineInv' /\ (Owing' <=> Owing) /\ sm'.tx = sm.tx /\ sm'.pc = sm.pc
  BY <1>1, ResultTaken DEF MachineInv, SmShape
<1>3. InOrder(todo)' = InOrder(todo)
  BY <1>1 DEF InOrder
<1>4. HostShape' /\ InStep'
  BY <1>1, <1>2, <1>3 DEF LockInv, HostShape, InStep
<1>5. OnSchedule
  BY <1>1, QuietPins DEF MachineInv, SmShape
<1> QED BY <1>2, <1>4, <1>5 DEF LockInv

LEMMA SubmitStep == ASSUME LockInv, SubmitChunk PROVE LockInv' /\ OnSchedule
<1>1. /\ Doing("submit") /\ putting' = Head(todo).ops /\ todo' = Tail(todo)
      /\ UNCHANGED <<sm, clk, ui, rst, age, paused, call, slept, window, calls>>
  BY DEF SubmitChunk, Done, pioVars, Step
<1>2. /\ Head(todo).do = "submit" /\ Head(todo) \in StepSet /\ ~Owing
      /\ Tail(todo) \in Seq(StepSet) /\ InOrder(Tail(todo)) /\ call # NoCall
      /\ Tail(todo) # << >> /\ Follows(Head(todo), Head(Tail(todo)))
  BY <1>1, DoingFacts DEF Ending
<1>3. MachineInv' /\ (Owing' <=> Owing) /\ clk \in {0, 1}
  BY <1>1, MachineStutters DEF LockInv, MachineInv, SmShape
<1>4. Head(todo).ops \in Seq(Operations) \cup {<<OP_HALT>>}
  BY <1>2 DEF StepSet
<1>5. InOrder(todo)' = InOrder(Tail(todo))
  BY <1>1 DEF InOrder
<1>6. HostShape'
  BY <1>1, <1>2, <1>4, <1>5 DEF LockInv, HostShape
<1>7. ASSUME Head(todo).ops = <<OP_HALT>> PROVE InStep'
  <2>1. Head(Tail(todo)).do = "tx_empty" /\ <<OP_HALT>> # << >>
    BY <1>2, <1>7 DEF Follows
  <2>2. InStep'
    BY <2>1, <1>1, <1>2, <1>3, <1>7 DEF InStep, Ending
  <2> QED BY <2>2
<1>8. ASSUME Head(todo).ops # <<OP_HALT>> PROVE InStep'
  <2>1. Head(Tail(todo)).do \notin Ending
    BY <1>2, <1>8 DEF Follows, Ending
  <2>2. putting' \in Seq(Operations) /\ ~Owing'
    BY <1>1, <1>2, <1>3, <1>4, <1>8
  <2>3. todo' = Tail(todo)
    BY <1>1
  <2>4. CASE putting' = << >>
    BY <2>1, <2>2, <2>3, <2>4, <1>2 DEF InStep, Ending
  <2>5. CASE putting' # << >>
    BY <2>1, <2>2, <2>3, <2>5, <1>2 DEF InStep
  <2> QED BY <2>4, <2>5
<1>9. OnSchedule
  BY <1>1, <1>3, QuietPins
<1> QED BY <1>3, <1>6, <1>7, <1>8, <1>9 DEF LockInv

LEMMA PutStep == ASSUME LockInv, PutWord PROVE LockInv' /\ OnSchedule
<1>1. /\ putting # << >> /\ Put(Head(putting).word) /\ putting' = Tail(putting)
      /\ UNCHANGED <<clk, ui, rst, age, paused, call, todo, slept, window, calls>>
  BY DEF PutWord, PioElse
<1>2. /\ MachineInv /\ ~Owing /\ clk \in {0, 1} /\ HostShape
      /\ IF todo # << >> /\ Head(todo).do \in Ending
         THEN putting = <<OP_HALT>> /\ Head(todo).do = "tx_empty"
         ELSE putting \in Seq(Operations)
  BY <1>1 DEF LockInv, InStep, MachineInv, SmShape
<1>3. InOrder(todo)' = InOrder(todo)
  BY <1>1 DEF InOrder
<1>4. CASE todo # << >> /\ Head(todo).do \in Ending
  <2>1. Head(putting).word = HALT /\ Tail(putting) = << >> /\ HALT \in Words /\ HALT # Release
    <3>0. putting = <<OP_HALT>>
      BY <1>2, <1>4
    <3>1. Head(putting) = OP_HALT /\ Tail(putting) = << >>
      BY <3>0
    <3>2. OP_HALT.word = HALT
      BY DEF OP_HALT, HALT
    <3> QED BY <3>1, <3>2, PlainWords DEF Words
  <2>2. MachineInv' /\ Owing'
    BY <1>1, <1>2, <2>1, WordPut
  <2>3. HostShape'
    <3>1. putting' = << >>
      BY <1>1, <2>1
    <3>2. << >> \in Seq(Operations)
      OBVIOUS
    <3> QED BY <1>1, <1>2, <1>3, <3>1, <3>2 DEF HostShape
  <2>4. InStep'
    BY <1>1, <1>2, <1>4, <2>1, <2>2 DEF InStep
  <2>5. OnSchedule
    BY <1>1, <1>2, QuietPins
  <2> QED BY <2>2, <2>3, <2>4, <2>5 DEF LockInv
<1>5. CASE ~(todo # << >> /\ Head(todo).do \in Ending)
  <2>1. Head(putting) \in Operations /\ Tail(putting) \in Seq(Operations)
    BY <1>1, <1>2, <1>5
  <2>2. /\ Head(putting).word \in Words /\ Head(putting).word # Release
        /\ Head(putting).word # HALT
    BY <2>1, PlainWords DEF Operations, Words
  <2>3. MachineInv' /\ ~Owing'
    BY <1>1, <1>2, <2>2, WordPut
  <2>4. HostShape'
    BY <1>1, <1>2, <1>3, <2>1 DEF HostShape
  <2>5. InStep'
    BY <1>1, <1>5, <2>1, <2>3 DEF InStep, Ending
  <2>6. OnSchedule
    BY <1>1, <1>2, QuietPins
  <2> QED BY <2>3, <2>4, <2>5, <2>6 DEF LockInv
<1> QED BY <1>4, <1>5

LEMMA ResetSteps ==
  ASSUME LockInv, WaitHalted \/ set_reset \/ _release \/ Waited PROVE LockInv' /\ OnSchedule
<1>0. clk \in {0, 1} /\ HostShape /\ MachineInv
  BY DEF LockInv, MachineInv, SmShape
<1>1. CASE WaitHalted
  <2>1. /\ Doing("tx_empty") /\ sm.tx = << >> /\ slept' = 0 /\ todo' = Tail(todo)
        /\ UNCHANGED <<sm, clk, ui, rst, age, paused, call, putting, window, calls>>
    BY <1>1 DEF WaitHalted, Done, pioVars
  <2>2. MachineInv' /\ (Owing' <=> Owing)
    BY <2>1, <1>0, MachineStutters
  <2>3. Owing /\ Tail(todo) # << >> /\ Head(Tail(todo)).do = "sleep" /\ putting = << >>
    BY <2>1, DoingFacts DEF Ending, Follows
  <2>4. LockInv'
    BY <2>1, <2>2, <2>3, <1>0, NextInStep DEF Ending, HostShape
  <2> QED BY <2>1, <2>4, <1>0, QuietPins
<1>2. CASE set_reset
  <2>1. /\ Doing("set_reset") /\ todo' = Tail(todo)
        /\ UNCHANGED <<sm, clk, ui, age, paused, call, putting, slept, window, calls>>
    BY <1>2 DEF set_reset, Done
  <2>2. MachineInv' /\ (Owing' <=> Owing)
    BY <2>1, <1>0, MachineStutters
  <2>3. /\ Owing /\ Tail(todo) # << >> /\ Head(Tail(todo)).do = "put" /\ putting = << >>
        /\ sm.tx = << >> /\ sm.pc = ADDR_HALT /\ clk = 0
    BY <2>1, DoingFacts DEF Ending, Follows
  <2>4. LockInv'
    BY <2>1, <2>2, <2>3, <1>0, NextInStep DEF Ending, HostShape
  <2> QED BY <2>1, <2>3, <2>4 DEF OnSchedule
<1>3. CASE _release
  <2>1. /\ Doing("put") /\ Put(Release) /\ todo' = Tail(todo)
        /\ UNCHANGED <<clk, ui, rst, age, paused, call, putting, slept, window, calls>>
    BY <1>3 DEF _release, Done, PioElse, Release
  <2>2. Owing /\ putting = << >>
    BY <2>1, DoingFacts DEF Ending
  <2>3. Tail(todo) # << >> /\ Head(Tail(todo)).do \notin Ending
    BY <2>1, DoingFacts DEF Ending, Follows
  <2>4. Release \in Words /\ Release # HALT
    BY PlainWords DEF Words
  <2>5. MachineInv' /\ ~Owing'
    BY <2>1, <2>2, <2>4, <1>0, WordPut
  <2>6. LockInv'
    BY <2>1, <2>2, <2>3, <2>5, <1>0, NextInStep DEF Ending, HostShape
  <2> QED BY <2>1, <2>6, <1>0, QuietPins
<1>4. CASE Waited
  <2>1. /\ Doing("wait") /\ todo' = Tail(todo)
        /\ UNCHANGED <<sm, clk, ui, rst, age, paused, call, putting, slept, window, calls>>
    BY <1>4 DEF Waited, Done, pioVars
  <2>2. MachineInv' /\ (Owing' <=> Owing)
    BY <2>1, <1>0, MachineStutters
  <2>3. ~Owing /\ putting = << >>
    BY <2>1, DoingFacts DEF Ending
  <2>4. Tail(todo) # << >> => Head(Tail(todo)).do \notin Ending
    BY <2>1, DoingFacts DEF Ending, Follows
  <2>5. LockInv'
    BY <2>1, <2>2, <2>3, <2>4, <1>0, NextInStep DEF Ending, HostShape
  <2> QED BY <2>1, <2>5, <1>0, QuietPins
<1> QED BY <1>1, <1>2, <1>3, <1>4

LEMMA ReturnStep == ASSUME LockInv, Return PROVE LockInv' /\ OnSchedule
<1>1. /\ todo = << >> /\ putting = << >>
      /\ UNCHANGED <<sm, clk, ui, rst, age, paused, todo, putting, slept, window, calls>>
  BY DEF Return, pioVars
<1>2. MachineInv' /\ (Owing' <=> Owing) /\ clk \in {0, 1}
  BY <1>1, MachineStutters DEF LockInv, MachineInv, SmShape
<1>3. InOrder(todo)' = InOrder(todo)
  BY <1>1 DEF InOrder
<1>4. HostShape' /\ InStep'
  BY <1>1, <1>2, <1>3 DEF LockInv, HostShape, InStep
<1> QED BY <1>1, <1>2, <1>4, QuietPins DEF LockInv

(* A new call, and the one that follows a timeout.                         *)
LEMMA NewSteps ==
  ASSUME MachineInv', NEW s, CallShape(s), todo' = s, ~Owing', putting' = << >>,
         call' # NoCall, window' \in Nat, calls' \in Nat, slept' \in Nat
  PROVE  LockInv'
<1>1. s \in Seq(StepSet) /\ InOrder(s) /\ s # << >> /\ Head(s).do \in {"submit", "wait"}
  BY DEF CallShape
<1>2. InOrder(todo)' = InOrder(s)
  BY DEF InOrder
<1>3. << >> \in Seq(Operations)
  OBVIOUS
<1>4. HostShape'
  BY <1>1, <1>2, <1>3 DEF HostShape
<1>5. InStep'
  BY <1>1 DEF InStep, Ending
<1> QED BY <1>4, <1>5 DEF LockInv

LEMMA CallStep ==
  ASSUME LockstepAssumption, LockInv,
         NEW kind \in {"write", "read", "cycle", "reset"}, NEW w \in WindowsOf(kind), Call(kind, w)
  PROVE  LockInv' /\ OnSchedule
<1>1. /\ call = NoCall /\ call' = [kind |-> kind, window |-> w] /\ todo' = Steps(kind, w)
      /\ window' = w /\ calls' = calls + 1
      /\ UNCHANGED <<sm, clk, ui, rst, age, paused, putting, slept>>
  BY DEF Call, pioVars
<1>2. window \in Nat /\ calls \in Nat /\ slept \in Nat /\ todo = << >> /\ putting = << >>
  BY <1>1 DEF LockInv, HostShape
<1>3. w \in Nat
  BY <1>2 DEF WindowsOf
<1>4. CallShape(Steps(kind, w))
  BY <1>2, <1>3, CallSteps
<1>5. MachineInv' /\ ~Owing' /\ clk \in {0, 1}
  <2>1. ~Owing
    BY <1>2 DEF LockInv, InStep
  <2> QED BY <2>1, <1>1, MachineStutters DEF LockInv, MachineInv, SmShape
<1>6. call' # NoCall
  BY <1>1 DEF NoCall
<1>7. LockInv'
  BY <1>1, <1>2, <1>3, <1>4, <1>5, <1>6, NewSteps
<1> QED BY <1>1, <1>5, <1>7, QuietPins

LEMMA RestartedMachine ==
  ASSUME sm' = Registers, clk' = 0, age' = 7, paused' = TRUE PROVE MachineInv' /\ ~Owing'
<1>1. /\ sm'.pc = 24 /\ sm'.delay = 0 /\ sm'.tx = << >> /\ Whole(sm')
  BY DEF Registers, ADDR_FETCH, Whole
<1>2. ~Halting' /\ ~Owing'
  BY <1>1 DEF Halting, Owing, ADDR_HALT
<1>3. SmShape'
  BY <1>1 DEF SmShape, Whole
<1>4. OnTime'
  BY <1>1 DEF OnTime
<1>5. Branches' /\ Discipline'
  BY <1>1, <1>2 DEF Branches, Discipline
<1> QED BY <1>2, <1>3, <1>4, <1>5 DEF MachineInv

LEMMA TimeoutStep ==
  ASSUME LockstepAssumption, LockInv, Timeout PROVE LockInv' /\ OnSchedule
<1>1. /\ Blocked /\ sm' = Registers /\ clk' = 0 /\ age' = 7 /\ paused' = TRUE /\ rst' = rst
      /\ call' = [kind |-> "bounce", window |-> 1] /\ window' = 1 /\ todo' = bounce
      /\ UNCHANGED <<putting, slept, calls>>
  BY DEF Timeout, Restart
<1>2. putting = << >>
  BY <1>1 DEF Blocked, Collects, Doing
<1>3. calls \in Nat /\ slept \in Nat
  BY DEF LockInv, HostShape
<1>4. MachineInv' /\ ~Owing'
  BY <1>1, RestartedMachine
<1>5. CallShape(bounce)
  <2>1. Idle(1) \in PinSets
    BY DEF Idle, UI, PinSets
  <2>2. <<op_cycle(Idle(1))>> \in Seq(Operations)
    BY <2>1, OperationTypes
  <2> QED BY <2>2, RunSteps DEF bounce, cycle
<1>6. call' # NoCall
  BY <1>1 DEF NoCall
<1>7. LockInv'
  BY <1>1, <1>2, <1>3, <1>4, <1>5, <1>6, NewSteps
<1> QED BY <1>1, <1>7 DEF OnSchedule

-----------------------------------------------------------------------------
(* The program runs on, and a sleep of two cycles is long enough for HALT  *)
(* to be fetched and to pull the clock low.                                *)
LEMMA RunStep ==
  ASSUME SleepCycles \in Nat, SleepCycles >= 2, LockInv, Run PROVE LockInv' /\ OnSchedule
<1>1. /\ MachineInv /\ HostShape /\ Cycle
      /\ UNCHANGED <<call, putting, window, calls>>
      /\ IF Doing("sleep")
         THEN /\ slept' = slept + 1
              /\ todo' = IF slept + 1 >= SleepCycles THEN Tail(todo) ELSE todo
         ELSE UNCHANGED <<slept, todo>>
  BY DEF LockInv, Run
<1>2. OneCycle /\ rst' = rst
  BY <1>1, CycleStep DEF Cycle
<1>3. MachineInv' /\ OnSchedule /\ Served
  BY <1>2 DEF OneCycle, OnSchedule, Scheduled
<1>4. CASE Doing("sleep")
  <2>1. /\ putting = << >> /\ todo # << >> /\ Head(todo).do = "sleep" /\ Owing /\ sm.tx = << >>
        /\ Tail(todo) # << >> /\ Head(Tail(todo)).do = "set_reset"
    BY <1>4, DoingFacts DEF Ending, Follows
  <2>2. slept \in Nat /\ (slept >= 1 => sm.pc = ADDR_HALT)
    BY <2>1 DEF LockInv, InStep, HostShape
  <2>3. Halting
    BY <2>1 DEF Owing
  <2>4. Owing' /\ sm'.tx = << >> /\ sm'.pc = ADDR_HALT
    BY <1>3, <2>1, <2>3 DEF Served
  <2>5. slept >= 1 => clk' = 0
    BY <1>3, <2>1, <2>2 DEF Served
  <2>6. slept' = slept + 1 /\ slept' \in Nat
    BY <1>1, <1>4, <2>2
  <2>7. CASE slept + 1 >= SleepCycles
    <3>1. todo' = Tail(todo)
      BY <1>1, <1>4, <2>7
    <3>2. clk' = 0
      BY <2>2, <2>5, <2>7
    <3>3. LockInv'
      BY <1>1, <1>3, <1>4, <2>1, <2>4, <2>6, <3>1, <3>2, NextInStep DEF Ending, HostShape
    <3> QED BY <1>3, <3>3
  <2>8. CASE ~(slept + 1 >= SleepCycles)
    <3>1. todo' = todo
      BY <1>1, <1>4, <2>8
    <3>2. InOrder(todo)' = InOrder(todo)
      BY <3>1 DEF InOrder
    <3>3. HostShape'
      BY <1>1, <2>6, <3>1, <3>2 DEF HostShape
    <3>4. (slept' >= 1 => sm'.pc = ADDR_HALT) /\ (slept' >= 2 => clk' = 0)
      BY <2>2, <2>4, <2>5, <2>6
    <3>5. InStep'
      BY <1>1, <2>1, <2>4, <3>1, <3>4 DEF InStep, Ending
    <3> QED BY <1>3, <3>3, <3>5 DEF LockInv
  <2> QED BY <2>7, <2>8
<1>5. CASE ~Doing("sleep")
  <2>1. slept' = slept /\ todo' = todo /\ putting' = putting
    BY <1>1, <1>5
  <2>2. InOrder(todo)' = InOrder(todo)
    BY <2>1 DEF InOrder
  <2>3. HostShape'
    BY <1>1, <2>1, <2>2 DEF HostShape
  <2>4. CASE putting = << >>
    <3>1. Owing' <=> todo' # << >> /\ Head(todo').do \in Ending
      BY <2>1, <2>4, <1>3 DEF LockInv, InStep, Served
    <3>2. ASSUME todo # << >>, Head(todo).do \in {"set_reset", "put"}
          PROVE  sm'.tx = << >> /\ sm'.pc = ADDR_HALT /\ clk' = 0
      <4>1. sm.tx = << >> /\ sm.pc = ADDR_HALT
        BY <2>4, <3>2 DEF LockInv, InStep
      <4>2. Halting
        BY <4>1 DEF Halting
      <4> QED BY <4>1, <4>2, <1>3 DEF Served
    <3>3. todo # << >> => Head(todo).do # "sleep"
      BY <1>5, <2>4 DEF Doing, Step
    <3>4. InStep'
      BY <2>1, <2>4, <3>1, <3>2, <3>3 DEF InStep
    <3> QED BY <3>4, <2>3, <1>3 DEF LockInv
  <2>5. putting # << >> => InStep'
    BY <2>1, <1>3 DEF LockInv, InStep, Served
  <2> QED BY <2>3, <2>4, <2>5, <1>3 DEF LockInv
<1> QED BY <1>4, <1>5

LEMMA LockInit == ASSUME Init PROVE LockInv
<1>1. sm = Registers /\ clk = 0 /\ age = 0 /\ paused = TRUE
      /\ call = NoCall /\ todo = << >> /\ putting = << >> /\ slept = 0 /\ window = 0 /\ calls = 0
  BY DEF Init, PioInit
<1>2. /\ sm.pc = 24 /\ sm.delay = 0 /\ sm.tx = << >> /\ Whole(sm)
  BY <1>1 DEF Registers, ADDR_FETCH, Whole
<1>3. ~Halting /\ ~Owing
  BY <1>2 DEF Halting, Owing, ADDR_HALT
<1>4. SmShape /\ OnTime /\ Branches /\ Discipline
  BY <1>1, <1>2, <1>3 DEF SmShape, Whole, OnTime, Branches, Discipline
<1>5. << >> \in Seq(Operations) /\ << >> \in Seq(StepSet) /\ InOrder(<< >>)
  BY DEF InOrder
<1>6. HostShape
  BY <1>1, <1>5 DEF HostShape
<1>7. InStep
  BY <1>1, <1>3 DEF InStep
<1> QED BY <1>4, <1>6, <1>7 DEF LockInv, MachineInv

LEMMA LockNext ==
  ASSUME LockstepAssumption, SleepCycles >= 2, LockInv, [Next]_vars
  PROVE  LockInv' /\ OnSchedule
<1>1. CASE Run
  BY <1>1, RunStep DEF LockstepAssumption
<1>2. CASE HostStep
  BY <1>2, CollectStep, SubmitStep, PutStep, ResetSteps, ReturnStep DEF HostStep
<1>3. CASE Timeout
  BY <1>3, TimeoutStep
<1>4. ASSUME NEW kind \in {"write", "read", "cycle", "reset"}, NEW w \in WindowsOf(kind),
             Call(kind, w)
      PROVE  LockInv' /\ OnSchedule
  BY <1>4, CallStep
<1>5. CASE UNCHANGED vars
  <2>1. UNCHANGED <<sm, clk, ui, rst, age, paused, call, todo, putting, slept, window, calls>>
    BY <1>5 DEF vars, pioVars, hostVars
  <2>2. MachineInv' /\ (Owing' <=> Owing) /\ clk \in {0, 1}
    BY <2>1, MachineStutters DEF LockInv, MachineInv, SmShape
  <2>3. InOrder(todo)' = InOrder(todo)
    BY <2>1 DEF InOrder
  <2>4. HostShape' /\ InStep'
    BY <2>1, <2>2, <2>3 DEF LockInv, HostShape, InStep
  <2> QED BY <2>1, <2>2, <2>4, QuietPins DEF LockInv
<1> QED BY <1>1, <1>2, <1>3, <1>4, <1>5 DEF Next

(* Wherever the steps of the CPU fall, the program is at a place its clock *)
(* agrees with, HALT is followed by the word that releases it and by no    *)
(* operation, and the host's reset steps find the clock halted low, if the *)
(* sleep of wait_halted lasts two PIO cycles (2 us at the clock of the RP2 *)
(* are hundreds).                                                          *)
THEOREM LockInvariant == ASSUME SleepCycles >= 2 PROVE Spec => []LockInv
<1>1. Init => LockInv
  BY LockInit
<1>2. LockInv /\ [Next]_vars => LockInv'
  BY LockNext, LockstepAssumption
<1> QED BY <1>1, <1>2, PTL DEF Spec

(* Hence the clock the engines see keeps its period unless HALT or a       *)
(* restart held it, ui changes half a period away from its edges, and rst  *)
(* changes while it is halted low: set_reset, wait_halted, lockstep_program.*)
THEOREM PinsOnSchedule == ASSUME SleepCycles >= 2 PROVE Spec => PinSchedule
<1>1. LockInv /\ [Next]_vars =>
        [/\ clk = 0 /\ clk' = 1 => age = 5 \/ paused
         /\ ui' # ui => age = 2 \/ paused'
         /\ rst' # rst => clk = 0 /\ sm.pc = ADDR_HALT /\ sm.tx = << >>]_vars
  BY LockNext, LockstepAssumption DEF OnSchedule
<1> QED BY <1>1, LockInvariant, PTL DEF Spec, PinSchedule

-----------------------------------------------------------------------------
(* The count.  The frames an operation is booked with are the rising edges *)
(* and the decrements of Y from its dispatch to its stamp, so Y and the    *)
(* edges, with the frames the program still owes the operation it is at,   *)
(* add up to its sigma modulo YModulus, wherever the program is.           *)
Residues == 0 .. YModulus - 1
Congruent(a, b) == \E k \in Int : a = b + k * YModulus

(* Rising edges less decrements of Y still to come.                        *)
Rest ==
  CASE sm.pc \in {6, 16, 17, 23, 24, 25, 26, 27}  -> 0
    [] sm.pc \in {28, 29}                         -> 0 - 1
    [] sm.pc = 30                                 -> FIXED_FRAMES(sm.osr[1])
    [] sm.pc \in {14, 15, 18, 19, 20, 21, 22}     -> 1
    [] sm.pc \in {7, 8}                           -> 9
    [] sm.pc \in {0, 1, 10, 11, 12, 13, 31}       -> 8
    [] sm.pc = 9                                  -> 7
    [] sm.pc \in {2, 3, 4}                        -> (34 - sm.osr_count) \div 4
    [] sm.pc = 5 -> IF sm.osr_count = 32 THEN 1 ELSE (38 - sm.osr_count) \div 4

(* The bits in the two shift registers: a read gathers 32, a stamp 32.     *)
Nibbled == {6, 10, 14, 18, 22, 26, 30}
Gathered ==
  /\ sm.osr_count \in 0 .. 32 /\ sm.isr_count \in 0 .. 32
  /\ sm.pc \in {2, 3} => sm.osr_count \in Nibbled /\ sm.isr_count = sm.osr_count - 2
  /\ sm.pc = 4 => sm.osr_count \in Nibbled /\ sm.isr_count = sm.osr_count + 2
  /\ sm.pc = 5 => \/ sm.osr_count \in Nibbled \ {6} /\ sm.isr_count = sm.osr_count - 2
                  \/ sm.osr_count = 32 /\ sm.isr_count = 32
  /\ sm.pc = 6 => sm.isr_count = 32
  /\ sm.pc = 11 => sm.osr_count = 0
  /\ sm.pc = 12 => sm.osr_count = 4
  /\ sm.pc = 13 => sm.osr_count = 5
  /\ sm.pc = 1 => sm.osr_count = 6
  /\ sm.pc = 23 => sm.isr_count = 24
  /\ sm.pc \in {24, 25} => sm.isr_count \in {0, 32}
  /\ sm.pc \notin {2, 3, 4, 5, 6, 23, 24, 25} => sm.isr_count = 0
  /\ sm.isr_count = 0 => sm.isr = << >>

(* The addresses of the operation word, and its result as far as it is.    *)
Serves(word) ==
  /\ sm.pc = 30 => sm.osr = word
  /\ sm.pc \in {19, 20, 21, 22, 23} => KindOf(word) = "stamp"
  /\ sm.pc \in 14 .. 18 => KindOf(word) = "none"
  /\ sm.pc \in 0 .. 13 \cup {31} => KindOf(word) = "data"
  /\ sm.isr_count = 32 => KindOf(word) # "none"
  /\ sm.pc = 23 => sm.isr = <<sm.y>>
  /\ sm.pc \in {24, 25} /\ sm.isr_count = 32 /\ KindOf(word) = "stamp" => sm.isr = <<sm.y, edges>>

(* Where the program is in the operation of this entry.                    *)
At(entry) ==
  /\ sm.y \in Residues /\ edges \in Residues
  /\ Gathered /\ Serves(entry.word)
  /\ Congruent(sm.y + edges + Rest, entry.sigma)

(* Its result is neither in the RX FIFO nor taken from it.                 *)
Unanswered(word) == KindOf(word) # "none" /\ (sm.pc \notin 24 .. 29 \/ sm.isr_count = 32)

LEMMA Increment ==
  ASSUME NEW M \in Nat \ {0}, NEW a \in 0 .. M - 1
  PROVE  /\ ((a + 1) % M) = IF a + 1 = M THEN 0 ELSE a + 1
         /\ ((a + M - 1) % M) = IF a = 0 THEN M - 1 ELSE a - 1
OBVIOUS

LEMMA Multiples ==
  ASSUME NEW M \in Nat \ {0}, NEW k \in Int
  PROVE  (k + 1) * M = k * M + M /\ (k - 1) * M = k * M - M /\ 0 * M = 0
OBVIOUS

(* A frame with its edge, or a decrement of Y, is one frame less to come   *)
(* or one more.                                                            *)
LEMMA CongruentShift ==
  ASSUME YModulus \in Nat \ {0}, NEW a \in Int, NEW b \in Int, Congruent(a, b)
  PROVE  Congruent(a - YModulus, b) /\ Congruent(a + YModulus, b)
<1>1. PICK k \in Int : a = b + k * YModulus
  BY DEF Congruent
<1>2. a - YModulus = b + (k - 1) * YModulus /\ a + YModulus = b + (k + 1) * YModulus
  <2>1. (k + 1) * YModulus = k * YModulus + YModulus /\ (k - 1) * YModulus = k * YModulus - YModulus
    BY Multiples
  <2> QED BY <1>1, <2>1
<1> QED BY <1>2 DEF Congruent

LEMMA FrameCounted ==
  ASSUME YModulus \in Nat \ {0}, NEW y \in Residues, NEW e \in Residues, NEW r \in Int,
         NEW s \in Int, Congruent(y + e + r, s)
  PROVE  /\ ((e + 1) % YModulus) \in Residues /\ ((y + YModulus - 1) % YModulus) \in Residues
         /\ Congruent(y + ((e + 1) % YModulus) + (r - 1), s)
         /\ Congruent(((y + YModulus - 1) % YModulus) + e + (r + 1), s)
<1>0. /\ y \in Int /\ e \in Int /\ YModulus \in Int
      /\ Congruent((y + e + r) - YModulus, s) /\ Congruent((y + e + r) + YModulus, s)
  BY CongruentShift DEF Residues
<1>1. /\ ((e + 1) % YModulus) = IF e + 1 = YModulus THEN 0 ELSE e + 1
      /\ ((y + YModulus - 1) % YModulus) = IF y = 0 THEN YModulus - 1 ELSE y - 1
  BY Increment DEF Residues
<1>2. Congruent(y + ((e + 1) % YModulus) + (r - 1), s)
  <2>1. y + ((e + 1) % YModulus) + (r - 1) = IF e + 1 = YModulus THEN (y + e + r) - YModulus
                                             ELSE y + e + r
    BY <1>0, <1>1
  <2> QED BY <1>0, <2>1
<1>3. Congruent(((y + YModulus - 1) % YModulus) + e + (r + 1), s)
  <2>1. ((y + YModulus - 1) % YModulus) + e + (r + 1) = IF y = 0 THEN (y + e + r) + YModulus
                                                        ELSE y + e + r
    BY <1>0, <1>1
  <2> QED BY <1>0, <2>1
<1> QED BY <1>1, <1>2, <1>3 DEF Residues

-----------------------------------------------------------------------------
(* What each instruction does to the registers the count lives in.         *)
Rising == {0, 1, 5, 8, 15, 22, 27}
Counting == {9, 17, 28}
LEMMA Decoded ==
  ASSUME NEW pc \in 0 .. 31, NEW i, i = lockstep_program(pc)
  PROVE  /\ i.op = "jmp" <=> pc \in {0, 5, 6, 8, 9, 16, 17, 18, 20, 27, 28}
         /\ i.op = "in" <=> pc \in {1, 3, 22, 23}
         /\ i.op = "out" <=> pc \in {4, 7, 11, 12, 13, 14, 21, 30, 31}
         /\ i.op = "push" <=> pc = 25
         /\ i.op = "mov" <=> pc \in {10, 26}
         /\ i.op = "jmp" /\ i.arg = "y_dec" <=> pc \in Counting
         /\ pc \in {1, 3} => i.n = 4
         /\ pc = 22 => i.n = 24 /\ i.arg = "y"
         /\ pc = 23 => i.n = 8 /\ i.arg = "pins"
         /\ pc = 25 => i.n = 32
         /\ pc \in {4, 11} => i.n = 4
         /\ pc \in {12, 13} => i.n = 1
         /\ pc \in {7, 14, 21, 30, 31} => i.n \in Nat
         /\ pc = 5 => i.arg = "not_osre" /\ i.n = 2
         /\ pc = 10 <=> i.op = "mov" /\ i.arg = "osr"
BY DEF lockstep_program, Program, Jmp, In, Out, I, Counting

LEMMA Followers ==
  ASSUME NEW pc \in 0 .. 31, NEW next \in Targets(pc)
  PROVE  /\ pc \in {1, 2, 3, 4, 7, 10, 11, 12, 14, 15, 19, 21, 22, 23, 24, 25, 26, 29}
              => next = pc + 1
         /\ pc = 0 => next = 9
         /\ pc = 5 => next \in {2, 6}
         /\ pc \in {6, 28} => next = 24
         /\ pc = 8 => next = 31
         /\ pc = 9 => next = 10
         /\ pc = 13 => next \in {0, 1}
         /\ pc = 16 => next \in {17, 24}
         /\ pc = 17 => next = 18
         /\ pc = 18 => next = 15
         /\ pc = 20 => next = 22
         /\ pc = 27 => next \in {28, 29}
         /\ pc = 30 => next \in {ADDR_CYC, ADDR_WR, ADDR_RD, ADDR_RDB, ADDR_HALT}
         /\ pc = 31 => next = 0
<1> USE DEF Targets, After, lockstep_program, Program, Jmp, In, Out, I, wrap_top, wrap_bottom
<1>0. CASE pc = 0
  BY <1>0
<1>1. CASE pc = 1
  BY <1>1
<1>2. CASE pc = 2
  BY <1>2
<1>3. CASE pc = 3
  BY <1>3
<1>4. CASE pc = 4
  BY <1>4
<1>5. CASE pc = 5
  BY <1>5
<1>6. CASE pc = 6
  BY <1>6
<1>7. CASE pc = 7
  BY <1>7
<1>8. CASE pc = 8
  BY <1>8
<1>9. CASE pc = 9
  BY <1>9
<1>10. CASE pc = 10
  BY <1>10
<1>11. CASE pc = 11
  BY <1>11
<1>12. CASE pc = 12
  BY <1>12
<1>13. CASE pc = 13
  BY <1>13
<1>14. CASE pc = 14
  BY <1>14
<1>15. CASE pc = 15
  BY <1>15
<1>16. CASE pc = 16
  BY <1>16
<1>17. CASE pc = 17
  BY <1>17
<1>18. CASE pc = 18
  BY <1>18
<1>19. CASE pc = 19
  BY <1>19
<1>20. CASE pc = 20
  BY <1>20
<1>21. CASE pc = 21
  BY <1>21
<1>22. CASE pc = 22
  BY <1>22
<1>23. CASE pc = 23
  BY <1>23
<1>24. CASE pc = 24
  BY <1>24
<1>25. CASE pc = 25
  BY <1>25
<1>26. CASE pc = 26
  BY <1>26
<1>27. CASE pc = 27
  BY <1>27
<1>28. CASE pc = 28
  BY <1>28
<1>29. CASE pc = 29
  BY <1>29
<1>30. CASE pc = 30
  BY <1>30
<1>31. CASE pc = 31
  BY <1>31
<1> QED BY <1>0, <1>1, <1>2, <1>3, <1>4, <1>5, <1>6, <1>7, <1>8, <1>9, <1>10, <1>11, <1>12, <1>13, <1>14, <1>15,
  <1>16, <1>17, <1>18, <1>19, <1>20, <1>21, <1>22, <1>23, <1>24, <1>25, <1>26, <1>27, <1>28, <1>29, <1>30, <1>31

LEMMA JmpCounts ==
  ASSUME Whole(sm), NEW i, NEW uo, i.op = "jmp", NEW s, s = Executed(i, uo)
  PROVE  /\ s.y = IF i.arg = "y_dec" THEN (sm.y + YModulus - 1) % YModulus ELSE sm.y
         /\ s.isr = sm.isr /\ s.isr_count = sm.isr_count /\ s.osr_count = sm.osr_count
         /\ s.rx = sm.rx
BY DEF Executed, Whole

LEMMA InCounts ==
  ASSUME Whole(sm), NEW i, NEW uo, i.op = "in", NEW s, s = Executed(i, uo)
  PROVE  /\ s.isr = Append(sm.isr, Source(i, uo)) /\ s.isr_count = Least(32, sm.isr_count + i.n)
         /\ s.y = sm.y /\ s.osr_count = sm.osr_count /\ s.rx = sm.rx
BY DEF Executed, Whole

LEMMA OutCounts ==
  ASSUME Whole(sm), NEW i, NEW uo, i.op = "out", NEW s, s = Executed(i, uo)
  PROVE  /\ s.osr_count = Least(32, sm.osr_count + i.n)
         /\ s.y = sm.y /\ s.isr = sm.isr /\ s.isr_count = sm.isr_count /\ s.rx = sm.rx
BY DEF Executed, Whole

LEMMA PushCounts ==
  ASSUME Whole(sm), NEW i, NEW uo, i.op = "push", NEW s, s = Executed(i, uo)
  PROVE  /\ s.y = sm.y /\ s.osr_count = sm.osr_count
         /\ sm.isr_count < i.n => s.isr = sm.isr /\ s.isr_count = sm.isr_count /\ s.rx = sm.rx
         /\ ~(sm.isr_count < i.n) =>
              /\ s.isr = << >> /\ s.isr_count = 0
              /\ s.rx = IF Len(sm.rx) < RxDepth THEN Append(sm.rx, sm.isr) ELSE sm.rx
BY DEF Executed, Whole

LEMMA OtherCounts ==
  ASSUME Whole(sm), NEW i, NEW uo, i.op \in {"pull", "mov", "nop", "set"},
         NEW s, s = Executed(i, uo)
  PROVE  /\ s.osr_count = IF i.op = "pull" \/ (i.op = "mov" /\ i.arg = "osr") THEN 0
                          ELSE sm.osr_count
         /\ s.y = sm.y /\ s.isr = sm.isr /\ s.isr_count = sm.isr_count /\ s.rx = sm.rx
BY DEF Executed, Whole

(* The clock rises with the instructions of slot 5 only.                   *)
LEMMA EdgeCounts ==
  ASSUME MachineInv, Cycle, sm.delay = 0, NEW i, i = lockstep_program(sm.pc), ~Stalled(i)
  PROVE  edges' = IF sm.pc \in Rising THEN (edges + 1) % YModulus ELSE edges
<1>1. edges' = IF i.side = 1 /\ clk = 0 THEN (edges + 1) % YModulus ELSE edges
  <2>1. ~(sm.delay > 0) /\ ~Stalled(lockstep_program(sm.pc))
    OBVIOUS
  <2>2. Pins(i.side, Driven(i))
    BY <2>1, Zenon DEF Cycle
  <2> QED BY <2>2 DEF Pins
<1>2. sm'.pc \in Targets(sm.pc) /\ sm'.delay = i.delay /\ sm.pc \in 0 .. 31
  BY Moves DEF MachineInv, SmShape
<1>3. Fits(sm.pc, sm'.pc, i.delay, i.side)
  BY <1>2, ProgramFits
<1>4. i.side = IF Slot(sm.pc) \in {2, 3, 4} THEN 0 ELSE 1
  BY <1>3 DEF Fits
<1>5. i.side = 1 /\ clk = 0 <=> sm.pc \in Rising
  <2>1. CASE paused
    <3>1. clk = 0 /\ sm.pc \in Held
      BY <2>1 DEF MachineInv, OnTime, Held
    <3> QED BY <3>1, <1>4 DEF Held, Rising, Slot
  <2>2. CASE ~paused
    <3>1. clk = 1 <=> Slot(sm.pc) <= 2
      BY <2>2 DEF MachineInv, OnTime
    <3>2. clk \in {0, 1} /\ Slot(sm.pc) \in 0 .. 5
      BY <1>2, SlotType DEF MachineInv, SmShape
    <3>3. i.side = 1 /\ clk = 0 <=> Slot(sm.pc) = 5
      BY <3>1, <3>2, <1>4
    <3>4. Slot(sm.pc) = 5 <=> sm.pc \in Rising
      BY <1>2 DEF Slot, Rising
    <3> QED BY <3>3, <3>4
  <2> QED BY <2>1, <2>2
<1> QED BY <1>1, <1>5

LEMMA Effects ==
  ASSUME MachineInv, Cycle, sm.delay = 0, ~Stalled(lockstep_program(sm.pc)),
         NEW pc, pc = sm.pc
  PROVE  /\ sm'.y = IF pc \in Counting THEN (sm.y + YModulus - 1) % YModulus ELSE sm.y
         /\ edges' = IF pc \in Rising THEN (edges + 1) % YModulus ELSE edges
         /\ sm'.isr_count = CASE pc \in {1, 3} -> Least(32, sm.isr_count + 4)
                              [] pc = 22 -> Least(32, sm.isr_count + 24)
                              [] pc = 23 -> Least(32, sm.isr_count + 8)
                              [] pc = 25 -> IF sm.isr_count < 32 THEN sm.isr_count ELSE 0
                              [] pc \notin {1, 3, 22, 23, 25} -> sm.isr_count
         /\ pc = 22 => sm'.isr = Append(sm.isr, sm.y)
         /\ pc = 23 => sm'.isr = Append(sm.isr, edges)
         /\ pc = 25 => sm'.isr = IF sm.isr_count < 32 THEN sm.isr ELSE << >>
         /\ pc \notin {1, 3, 22, 23, 25} => sm'.isr = sm.isr
         /\ pc \in {4, 11} => sm'.osr_count = Least(32, sm.osr_count + 4)
         /\ pc \in {12, 13} => sm'.osr_count = Least(32, sm.osr_count + 1)
         /\ pc \in {7, 14, 21, 30, 31} =>
              \E n \in Nat : sm'.osr_count = Least(32, sm.osr_count + n)
         /\ pc \in {10, 19, 29} => sm'.osr_count = 0
         /\ pc \notin {4, 7, 10, 11, 12, 13, 14, 19, 21, 29, 30, 31} =>
              sm'.osr_count = sm.osr_count
         /\ sm'.rx = IF pc = 25 /\ ~(sm.isr_count < 32) /\ Len(sm.rx) < RxDepth
                     THEN Append(sm.rx, sm.isr) ELSE sm.rx
         /\ pc = 5 => sm'.pc = IF sm.osr_count < 32 THEN 2 ELSE 6
         /\ pc = 30 => sm'.pc = Field
         /\ pc = 29 => sm'.osr = Head(sm.tx)
<1> DEFINE i == lockstep_program(pc)
           Bits == sm'.isr_count = CASE pc \in {1, 3} -> Least(32, sm.isr_count + 4)
                                     [] pc = 22 -> Least(32, sm.isr_count + 24)
                                     [] pc = 23 -> Least(32, sm.isr_count + 8)
                                     [] pc = 25 -> IF sm.isr_count < 32 THEN sm.isr_count ELSE 0
                                     [] pc \notin {1, 3, 22, 23, 25} -> sm.isr_count
           Shifted == /\ pc = 22 => sm'.isr = Append(sm.isr, sm.y)
                      /\ pc = 23 => sm'.isr = Append(sm.isr, edges)
                      /\ pc = 25 => sm'.isr = IF sm.isr_count < 32 THEN sm.isr ELSE << >>
                      /\ pc \notin {1, 3, 22, 23, 25} => sm'.isr = sm.isr
           Left == /\ pc \in {4, 11} => sm'.osr_count = Least(32, sm.osr_count + 4)
                   /\ pc \in {12, 13} => sm'.osr_count = Least(32, sm.osr_count + 1)
                   /\ pc \in {7, 14, 21, 30, 31} =>
                        \E n \in Nat : sm'.osr_count = Least(32, sm.osr_count + n)
                   /\ pc \in {10, 19, 29} => sm'.osr_count = 0
                   /\ pc \notin {4, 7, 10, 11, 12, 13, 14, 19, 21, 29, 30, 31} =>
                        sm'.osr_count = sm.osr_count
           Pushed == sm'.rx = IF pc = 25 /\ ~(sm.isr_count < 32) /\ Len(sm.rx) < RxDepth
                              THEN Append(sm.rx, sm.isr) ELSE sm.rx
           Counted == sm'.y = IF pc \in Counting THEN (sm.y + YModulus - 1) % YModulus ELSE sm.y
           Goes == /\ pc = 5 => sm'.pc = IF sm.osr_count < 32 THEN 2 ELSE 6
                   /\ pc = 30 => sm'.pc = Field
                   /\ pc = 29 => sm'.osr = Head(sm.tx)
<1>1. sm' = Executed(i, sync2) /\ Whole(sm) /\ sm.pc \in 0 .. 31
  BY Executes DEF MachineInv, SmShape, Whole
<1>2. edges' = IF pc \in Rising THEN (edges + 1) % YModulus ELSE edges
  BY EdgeCounts
<1>3. pc \in 0 .. 31
  BY <1>1
<1>4. /\ i.op = "jmp" <=> pc \in {0, 5, 6, 8, 9, 16, 17, 18, 20, 27, 28}
      /\ i.op = "in" <=> pc \in {1, 3, 22, 23}
      /\ i.op = "out" <=> pc \in {4, 7, 11, 12, 13, 14, 21, 30, 31}
      /\ i.op = "push" <=> pc = 25
      /\ i.op = "mov" <=> pc \in {10, 26}
      /\ i.op = "jmp" /\ i.arg = "y_dec" <=> pc \in Counting
      /\ pc \in {1, 3} => i.n = 4
      /\ pc = 22 => i.n = 24 /\ i.arg = "y"
      /\ pc = 23 => i.n = 8 /\ i.arg = "pins"
      /\ pc = 25 => i.n = 32
      /\ pc \in {4, 11} => i.n = 4
      /\ pc \in {12, 13} => i.n = 1
      /\ pc \in {7, 14, 21, 30, 31} => i.n \in Nat
      /\ pc = 5 => i.arg = "not_osre" /\ i.n = 2
      /\ pc = 10 <=> i.op = "mov" /\ i.arg = "osr"
  BY <1>3, Decoded
<1>5. /\ i.op \in {"jmp", "in", "out", "push", "pull", "mov", "nop", "set"}
      /\ i.op = "pull" <=> pc \in {19, 29}
      /\ i.op = "out" /\ i.arg = "pc" <=> pc \in {13, 30}
  BY <1>3, Kinds
<1> HIDE DEF i
<1> SUFFICES Bits /\ Shifted /\ Left /\ Pushed /\ Counted /\ Goes
  BY <1>2
<1>6. CASE i.op = "jmp"
  <2>1. /\ sm'.y = IF i.arg = "y_dec" THEN (sm.y + YModulus - 1) % YModulus ELSE sm.y
        /\ sm'.isr = sm.isr /\ sm'.isr_count = sm.isr_count /\ sm'.osr_count = sm.osr_count
        /\ sm'.rx = sm.rx
    BY <1>1, <1>6, JmpCounts
  <2>2. sm'.pc = IF Taken(i.arg, sync2) THEN i.n ELSE FallThrough
    BY <1>1, <1>6, JmpStep
  <2>3. pc \in {0, 5, 6, 8, 9, 16, 17, 18, 20, 27, 28}
    BY <1>4, <1>6
  <2>4. pc = 5 => sm'.pc = IF sm.osr_count < 32 THEN 2 ELSE 6
    <3> SUFFICES ASSUME pc = 5 PROVE sm'.pc = IF sm.osr_count < 32 THEN 2 ELSE 6
      OBVIOUS
    <3>1. FallThrough = 6
      BY DEF FallThrough, wrap_top
    <3>2. Taken(i.arg, sync2) = (sm.osr_count < 32) /\ i.n = 2
      BY <1>4 DEF Taken
    <3> QED BY <3>1, <3>2, <2>2
  <2>5. sm'.y = IF pc \in Counting THEN (sm.y + YModulus - 1) % YModulus ELSE sm.y
    BY <2>1, <1>4, <1>6
  <2>21. Bits
    BY <2>1, <2>3, <2>4, <2>5
  <2>22. Shifted
    BY <2>1, <2>3, <2>4, <2>5
  <2>23. Left
    BY <2>1, <2>3, <2>4, <2>5
  <2>24. Pushed
    BY <2>1, <2>3, <2>4, <2>5
  <2>25. Counted
    BY <2>1, <2>3, <2>4, <2>5
  <2>26. Goes
    BY <2>1, <2>3, <2>4, <2>5
  <2> HIDE DEF Bits, Shifted, Left, Pushed, Counted, Goes
  <2> QED BY <2>21, <2>22, <2>23, <2>24, <2>25, <2>26
<1>7. CASE i.op = "in"
  <2>1. /\ sm'.isr = Append(sm.isr, Source(i, sync2))
        /\ sm'.isr_count = Least(32, sm.isr_count + i.n)
        /\ sm'.y = sm.y /\ sm'.osr_count = sm.osr_count /\ sm'.rx = sm.rx
    BY <1>1, <1>7, InCounts
  <2>2. pc \in {1, 3, 22, 23} /\ pc \notin Counting
    BY <1>4, <1>7 DEF Counting
  <2>3. (pc = 22 => Source(i, sync2) = sm.y) /\ (pc = 23 => Source(i, sync2) = edges)
    BY <1>4 DEF Source
  <2>4. i.n = CASE pc \in {1, 3} -> 4 [] pc = 22 -> 24 [] pc = 23 -> 8
    BY <1>4, <2>2
  <2>21. Bits
    BY <2>1, <2>2, <2>3, <2>4
  <2>22. Shifted
    BY <2>1, <2>2, <2>3, <2>4
  <2>23. Left
    BY <2>1, <2>2, <2>3, <2>4
  <2>24. Pushed
    BY <2>1, <2>2, <2>3, <2>4
  <2>25. Counted
    BY <2>1, <2>2, <2>3, <2>4
  <2>26. Goes
    BY <2>1, <2>2, <2>3, <2>4
  <2> HIDE DEF Bits, Shifted, Left, Pushed, Counted, Goes
  <2> QED BY <2>21, <2>22, <2>23, <2>24, <2>25, <2>26
<1>8. CASE i.op = "out"
  <2>1. /\ sm'.osr_count = Least(32, sm.osr_count + i.n)
        /\ sm'.y = sm.y /\ sm'.isr = sm.isr /\ sm'.isr_count = sm.isr_count /\ sm'.rx = sm.rx
    BY <1>1, <1>8, OutCounts
  <2>2. pc \in {4, 7, 11, 12, 13, 14, 21, 30, 31} /\ pc \notin Counting
    BY <1>4, <1>8 DEF Counting
  <2>3. pc = 30 => sm'.pc = Field
    BY <1>1, <1>5, <1>8, OutStep
  <2>4. /\ pc \in {4, 11} => i.n = 4
        /\ pc \in {12, 13} => i.n = 1
        /\ pc \in {7, 14, 21, 30, 31} => i.n \in Nat
    BY <1>4
  <2>5. pc \in {7, 14, 21, 30, 31} => \E n \in Nat : sm'.osr_count = Least(32, sm.osr_count + n)
    BY <2>1, <2>4
  <2>6. /\ pc \in {4, 11} => sm'.osr_count = Least(32, sm.osr_count + 4)
        /\ pc \in {12, 13} => sm'.osr_count = Least(32, sm.osr_count + 1)
    BY <2>1, <2>4
  <2>21. Bits
    BY <2>1, <2>2, <2>3, <2>5, <2>6
  <2>22. Shifted
    BY <2>1, <2>2, <2>3, <2>5, <2>6
  <2>23. Left
    BY <2>1, <2>2, <2>3, <2>5, <2>6
  <2>24. Pushed
    BY <2>1, <2>2, <2>3, <2>5, <2>6
  <2>25. Counted
    BY <2>1, <2>2, <2>3, <2>5, <2>6
  <2>26. Goes
    BY <2>1, <2>2, <2>3, <2>5, <2>6
  <2> HIDE DEF Bits, Shifted, Left, Pushed, Counted, Goes
  <2> QED BY <2>21, <2>22, <2>23, <2>24, <2>25, <2>26
<1>9. CASE i.op = "push"
  <2>1. /\ sm'.y = sm.y /\ sm'.osr_count = sm.osr_count
        /\ sm.isr_count < i.n => sm'.isr = sm.isr /\ sm'.isr_count = sm.isr_count /\ sm'.rx = sm.rx
        /\ ~(sm.isr_count < i.n) =>
             /\ sm'.isr = << >> /\ sm'.isr_count = 0
             /\ sm'.rx = IF Len(sm.rx) < RxDepth THEN Append(sm.rx, sm.isr) ELSE sm.rx
    BY <1>1, <1>9, PushCounts
  <2>2. pc = 25 /\ i.n = 32 /\ pc \notin Counting
    BY <1>4, <1>9 DEF Counting
  <2>21. Bits
    BY <2>1, <2>2
  <2>22. Shifted
    BY <2>1, <2>2
  <2>23. Left
    BY <2>1, <2>2
  <2>24. Pushed
    BY <2>1, <2>2
  <2>25. Counted
    BY <2>1, <2>2
  <2>26. Goes
    BY <2>1, <2>2
  <2> HIDE DEF Bits, Shifted, Left, Pushed, Counted, Goes
  <2> QED BY <2>21, <2>22, <2>23, <2>24, <2>25, <2>26
<1>10. CASE i.op \in {"pull", "mov", "nop", "set"}
  <2>1. /\ sm'.osr_count = IF i.op = "pull" \/ (i.op = "mov" /\ i.arg = "osr") THEN 0
                           ELSE sm.osr_count
        /\ sm'.y = sm.y /\ sm'.isr = sm.isr /\ sm'.isr_count = sm.isr_count /\ sm'.rx = sm.rx
    BY <1>1, <1>10, OtherCounts
  <2>2. pc \notin {0, 5, 6, 8, 9, 16, 17, 18, 20, 27, 28, 1, 3, 22, 23, 4, 7, 11, 12, 13, 14,
                   21, 30, 31, 25}
    BY <1>4, <1>10
  <2>3. pc \notin Counting
    BY <2>2 DEF Counting
  <2>4. pc \in {10, 19, 29} <=> i.op = "pull" \/ (i.op = "mov" /\ i.arg = "osr")
    BY <1>4, <1>5
  <2>5. pc = 29 => sm'.osr = Head(sm.tx)
    BY <1>1, <1>5, PullStep
  <2>21. Bits
    BY <2>1, <2>2, <2>3, <2>4, <2>5
  <2>22. Shifted
    BY <2>1, <2>2, <2>3, <2>4, <2>5
  <2>23. Left
    BY <2>1, <2>2, <2>3, <2>4, <2>5
  <2>24. Pushed
    BY <2>1, <2>2, <2>3, <2>4, <2>5
  <2>25. Counted
    BY <2>1, <2>2, <2>3, <2>4, <2>5
  <2>26. Goes
    BY <2>1, <2>2, <2>3, <2>4, <2>5
  <2> HIDE DEF Bits, Shifted, Left, Pushed, Counted, Goes
  <2> QED BY <2>21, <2>22, <2>23, <2>24, <2>25, <2>26
<1> QED BY <1>5, <1>6, <1>7, <1>8, <1>9, <1>10

-----------------------------------------------------------------------------
LEMMA PairAppended ==
  ASSUME NEW S, NEW a \in S, NEW b \in S PROVE Append(<<a>>, b) = <<a, b>>
<1>1. <<a>> \in Seq(S) /\ Len(<<a>>) = 1 /\ <<a>>[1] = a
  OBVIOUS
<1>2. Append(<<a>>, b) \in Seq(S) /\ Len(Append(<<a>>, b)) = 2
  BY <1>1
<1>3. Append(<<a>>, b)[1] = a /\ Append(<<a>>, b)[2] = b
  BY <1>1
<1>4. \A s \in Seq(S) : Len(s) = 2 => s = <<s[1], s[2]>>
  OBVIOUS
<1> QED BY <1>2, <1>3, <1>4

(* An instruction that neither pulls the next operation nor pushes a       *)
(* result leaves the program in the same operation, its count balanced.    *)
LEMMA PlaceKept ==
  ASSUME YModulus \in Nat \ {0}, MachineInv, Cycle, sm.delay = 0,
         ~Stalled(lockstep_program(sm.pc)), sm.pc \notin {25, 29},
         NEW entry, entry.word \in Plain \cup {HALT}, entry.sigma \in Residues, At(entry)
  PROVE  At(entry)' /\ sm'.rx = sm.rx /\ (Unanswered(entry.word)' <=> Unanswered(entry.word))
<1>1. /\ sm'.isr_count = CASE sm.pc \in {1, 3} -> Least(32, sm.isr_count + 4)
                           [] sm.pc = 22 -> Least(32, sm.isr_count + 24)
                           [] sm.pc = 23 -> Least(32, sm.isr_count + 8)
                           [] sm.pc = 25 -> IF sm.isr_count < 32 THEN sm.isr_count ELSE 0
                           [] sm.pc \notin {1, 3, 22, 23, 25} -> sm.isr_count
      /\ sm.pc \notin {1, 3, 22, 23, 25} => sm'.isr = sm.isr
  BY Effects
<1>8. /\ sm.pc \in {4, 11} => sm'.osr_count = Least(32, sm.osr_count + 4)
      /\ sm.pc \in {12, 13} => sm'.osr_count = Least(32, sm.osr_count + 1)
      /\ sm.pc \in {7, 14, 21, 30, 31} =>
           \E n \in Nat : sm'.osr_count = Least(32, sm.osr_count + n)
      /\ sm.pc \in {10, 19, 29} => sm'.osr_count = 0
      /\ sm.pc \notin {4, 7, 10, 11, 12, 13, 14, 19, 21, 29, 30, 31} =>
           sm'.osr_count = sm.osr_count
  BY Effects
<1>9. /\ sm.pc = 5 => sm'.pc = IF sm.osr_count < 32 THEN 2 ELSE 6
      /\ sm.pc = 30 => sm'.pc = Field
  BY Effects
<1>10. /\ sm'.y = IF sm.pc \in Counting THEN (sm.y + YModulus - 1) % YModulus ELSE sm.y
       /\ edges' = IF sm.pc \in Rising THEN (edges + 1) % YModulus ELSE edges
       /\ sm.pc = 22 => sm'.isr = Append(sm.isr, sm.y)
       /\ sm.pc = 23 => sm'.isr = Append(sm.isr, edges)
       /\ sm'.rx = IF sm.pc = 25 /\ ~(sm.isr_count < 32) /\ Len(sm.rx) < RxDepth
                   THEN Append(sm.rx, sm.isr) ELSE sm.rx
  BY Effects
<1>2. sm.pc \in 0 .. 31 /\ sm.pc # 25 /\ sm.pc # 29
  BY DEF MachineInv, SmShape
<1>3. sm'.pc \in Targets(sm.pc)
  BY Moves
<1>4. /\ sm.pc \in {1, 2, 3, 4, 7, 10, 11, 12, 14, 15, 19, 21, 22, 23, 24, 25, 26, 29}
           => sm'.pc = sm.pc + 1
      /\ sm.pc = 0 => sm'.pc = 9
      /\ sm.pc = 5 => sm'.pc \in {2, 6}
      /\ sm.pc \in {6, 28} => sm'.pc = 24
      /\ sm.pc = 8 => sm'.pc = 31
      /\ sm.pc = 9 => sm'.pc = 10
      /\ sm.pc = 13 => sm'.pc \in {0, 1}
      /\ sm.pc = 16 => sm'.pc \in {17, 24}
      /\ sm.pc = 17 => sm'.pc = 18
      /\ sm.pc = 18 => sm'.pc = 15
      /\ sm.pc = 20 => sm'.pc = 22
      /\ sm.pc = 27 => sm'.pc \in {28, 29}
      /\ sm.pc = 30 => sm'.pc \in {ADDR_CYC, ADDR_WR, ADDR_RD, ADDR_RDB, ADDR_HALT}
      /\ sm.pc = 31 => sm'.pc = 0
  BY <1>2, <1>3, Followers
<1>5. /\ sm.y \in Residues /\ edges \in Residues /\ Serves(entry.word)
      /\ Congruent(sm.y + edges + Rest, entry.sigma)
  BY DEF At
<1>11. Gathered
  BY DEF At
<1>6. sm.pc = 30 => sm'.pc = entry.word[1] /\ sm.osr = entry.word
  <2> SUFFICES ASSUME sm.pc = 30 PROVE Field = entry.word[1] /\ sm.osr = entry.word
    BY <1>9
  <2>1. sm.osr = entry.word
    BY <1>5 DEF Serves
  <2>2. entry.word # << >> /\ Head(entry.word) = entry.word[1]
    BY PlainWords DEF Head
  <2> QED BY <2>1, <2>2 DEF Field
<1>7. Gathered'
  <2>1. CASE sm.pc = 1
    <3>1. /\ sm'.pc = 2 /\ sm'.isr_count = Least(32, sm.isr_count + 4)
          /\ sm'.osr_count = sm.osr_count
      BY <2>1, <1>1, <1>4, <1>8, <1>9
    <3> QED BY <2>1, <3>1, <1>11 DEF Gathered, Nibbled, Least
  <2>2. CASE sm.pc = 2
    <3>1. /\ sm'.pc = 3 /\ sm'.isr_count = sm.isr_count
          /\ sm'.osr_count = sm.osr_count
          /\ sm'.isr = sm.isr
      BY <2>2, <1>1, <1>4, <1>8, <1>9
    <3> QED BY <2>2, <3>1, <1>11 DEF Gathered, Nibbled, Least
  <2>3. CASE sm.pc = 3
    <3>1. /\ sm'.pc = 4 /\ sm'.isr_count = Least(32, sm.isr_count + 4)
          /\ sm'.osr_count = sm.osr_count
      BY <2>3, <1>1, <1>4, <1>8, <1>9
    <3>2. sm.osr_count \in Nibbled /\ sm.isr_count = sm.osr_count - 2
      BY <2>3, <1>11 DEF Gathered
    <3>3. sm'.osr_count \in Nibbled /\ sm'.isr_count = sm'.osr_count + 2
      BY <3>1, <3>2 DEF Nibbled, Least
    <3>4. sm'.isr_count # 0 /\ sm'.isr_count \in 0 .. 32 /\ sm'.osr_count \in 0 .. 32
      BY <3>1, <3>2 DEF Nibbled, Least
    <3> QED BY <3>1, <3>3, <3>4 DEF Gathered
  <2>4. CASE sm.pc = 4
    <3>1. /\ sm'.pc = 5 /\ sm'.isr_count = sm.isr_count
          /\ sm'.osr_count = Least(32, sm.osr_count + 4)
          /\ sm'.isr = sm.isr
      BY <2>4, <1>1, <1>4, <1>8, <1>9
    <3>2. sm.osr_count \in Nibbled /\ sm.isr_count = sm.osr_count + 2
      BY <2>4, <1>11 DEF Gathered
    <3>3. \/ sm'.osr_count \in Nibbled \ {6} /\ sm'.isr_count = sm'.osr_count - 2
          \/ sm'.osr_count = 32 /\ sm'.isr_count = 32
      BY <3>1, <3>2 DEF Nibbled, Least
    <3>4. sm'.isr_count # 0 /\ sm'.isr_count \in 0 .. 32 /\ sm'.osr_count \in 0 .. 32
      BY <3>1, <3>2 DEF Nibbled, Least
    <3> QED BY <3>1, <3>3, <3>4 DEF Gathered
  <2>5. CASE sm.pc = 5
    <3>1. /\ sm'.pc = (IF sm.osr_count < 32 THEN 2 ELSE 6) /\ sm'.isr_count = sm.isr_count
          /\ sm'.osr_count = sm.osr_count
          /\ sm'.isr = sm.isr
      BY <2>5, <1>1, <1>4, <1>8, <1>9
    <3> QED BY <2>5, <3>1, <1>11 DEF Gathered, Nibbled, Least
  <2>6. CASE sm.pc = 6
    <3>1. /\ sm'.pc = 24 /\ sm'.isr_count = sm.isr_count
          /\ sm'.osr_count = sm.osr_count
          /\ sm'.isr = sm.isr
      BY <2>6, <1>1, <1>4, <1>8, <1>9
    <3> QED BY <2>6, <3>1, <1>11 DEF Gathered, Nibbled, Least
  <2>10. CASE sm.pc = 10
    <3>1. /\ sm'.pc = 11 /\ sm'.isr_count = sm.isr_count
          /\ sm'.osr_count = 0
          /\ sm'.isr = sm.isr
      BY <2>10, <1>1, <1>4, <1>8, <1>9
    <3> QED BY <2>10, <3>1, <1>11 DEF Gathered, Nibbled, Least
  <2>11. CASE sm.pc = 11
    <3>1. /\ sm'.pc = 12 /\ sm'.isr_count = sm.isr_count
          /\ sm'.osr_count = Least(32, sm.osr_count + 4)
          /\ sm'.isr = sm.isr
      BY <2>11, <1>1, <1>4, <1>8, <1>9
    <3> QED BY <2>11, <3>1, <1>11 DEF Gathered, Nibbled, Least
  <2>12. CASE sm.pc = 12
    <3>1. /\ sm'.pc = 13 /\ sm'.isr_count = sm.isr_count
          /\ sm'.osr_count = Least(32, sm.osr_count + 1)
          /\ sm'.isr = sm.isr
      BY <2>12, <1>1, <1>4, <1>8, <1>9
    <3> QED BY <2>12, <3>1, <1>11 DEF Gathered, Nibbled, Least
  <2>13. CASE sm.pc = 13
    <3>1. /\ sm'.pc \in {0, 1} /\ sm'.isr_count = sm.isr_count
          /\ sm'.osr_count = Least(32, sm.osr_count + 1)
          /\ sm'.isr = sm.isr
      BY <2>13, <1>1, <1>4, <1>8, <1>9
    <3> QED BY <2>13, <3>1, <1>11 DEF Gathered, Nibbled, Least
  <2>22. CASE sm.pc = 22
    <3>1. /\ sm'.pc = 23 /\ sm'.isr_count = Least(32, sm.isr_count + 24)
          /\ sm'.osr_count = sm.osr_count
      BY <2>22, <1>1, <1>4, <1>8, <1>9
    <3> QED BY <2>22, <3>1, <1>11 DEF Gathered, Nibbled, Least
  <2>23. CASE sm.pc = 23
    <3>1. /\ sm'.pc = 24 /\ sm'.isr_count = Least(32, sm.isr_count + 8)
          /\ sm'.osr_count = sm.osr_count
      BY <2>23, <1>1, <1>4, <1>8, <1>9
    <3> QED BY <2>23, <3>1, <1>11 DEF Gathered, Nibbled, Least
  <2>24. CASE sm.pc = 24
    <3>1. /\ sm'.pc = 25 /\ sm'.isr_count = sm.isr_count
          /\ sm'.osr_count = sm.osr_count
          /\ sm'.isr = sm.isr
      BY <2>24, <1>1, <1>4, <1>8, <1>9
    <3> QED BY <2>24, <3>1, <1>11 DEF Gathered, Nibbled, Least
  <2>40. CASE sm.pc \in {0, 7, 8, 9, 14, 15, 16, 17, 18, 19, 20, 21, 26, 27, 28, 30, 31}
    <3>1. sm'.isr_count = sm.isr_count /\ sm'.isr = sm.isr
      BY <2>40, <1>1
    <3>2. sm'.osr_count \in 0 .. 32
      <4>1. sm'.osr_count = sm.osr_count \/ sm'.osr_count = 0
            \/ \E n \in Nat : sm'.osr_count = Least(32, sm.osr_count + n)
        BY <2>40, <1>8
      <4>2. sm.osr_count \in 0 .. 32
        BY <1>11 DEF Gathered
      <4> QED BY <4>1, <4>2 DEF Least
    <3>3. sm'.pc \notin {1, 2, 3, 4, 5, 6, 11, 12, 13, 23, 25}
      BY <2>40, <1>4 DEF ADDR_CYC, ADDR_WR, ADDR_RD, ADDR_RDB, ADDR_HALT
    <3>4. sm.pc \notin {2, 3, 4, 5, 6, 23, 24, 25}
      BY <2>40
    <3>5. sm.isr_count = 0
      BY <3>4, <1>11 DEF Gathered
    <3>6. sm.isr = << >>
      BY <3>5, <1>11 DEF Gathered
    <3>7. sm'.isr_count = 0 /\ sm'.isr = << >>
      BY <3>1, <3>5, <3>6
    <3> QED BY <3>2, <3>3, <3>7 DEF Gathered
  <2> QED BY <1>2, <2>1, <2>2, <2>3, <2>4, <2>5, <2>6, <2>10, <2>11, <2>12, <2>13, <2>22, <2>23, <2>24, <2>40
<1>12. Serves(entry.word)'
  <2>1. CASE sm.pc \in {19, 20, 21}
    <3>1. sm'.pc \in {20, 22}
      BY <2>1, <1>4
    <3>2. sm'.isr_count = 0 /\ KindOf(entry.word) = "stamp"
      BY <3>1, <2>1, <1>5, <1>7 DEF Gathered, Serves
    <3> QED BY <3>1, <3>2 DEF Serves
  <2>2. CASE sm.pc = 22
    <3>1. sm'.pc = 23 /\ sm'.y = sm.y /\ sm'.isr = Append(sm.isr, sm.y)
      BY <2>2, <1>4, <1>10 DEF Counting
    <3>2. sm.isr = << >> /\ sm'.isr_count = 24
      BY <2>2, <3>1, <1>7, <1>11 DEF Gathered
    <3>3. sm'.isr = <<sm'.y>> /\ KindOf(entry.word) = "stamp"
      BY <2>2, <3>1, <3>2, <1>5 DEF Serves
    <3> QED BY <3>1, <3>2, <3>3 DEF Serves
  <2>3. CASE sm.pc = 23
    <3>1. /\ sm'.pc = 24 /\ sm'.y = sm.y /\ edges' = edges /\ sm'.isr = Append(sm.isr, edges)
      BY <2>3, <1>4, <1>10 DEF Counting, Rising
    <3>2. sm.isr = <<sm.y>> /\ KindOf(entry.word) = "stamp"
      BY <2>3, <1>5 DEF Serves
    <3>3. sm'.isr = <<sm'.y, edges'>>
      <4>0. sm.y \in Residues /\ edges \in Residues
        BY <1>5
      <4>1. Append(<<sm.y>>, edges) = <<sm.y, edges>>
        BY <4>0, PairAppended
      <4>2. sm'.isr = Append(<<sm.y>>, edges)
        BY <3>1, <3>2
      <4>3. sm'.isr = <<sm.y, edges>>
        BY <4>1, <4>2, Zenon
      <4> QED BY <3>1, <4>3, Zenon
    <3>4. sm'.pc # 23 /\ sm'.pc # 30 /\ sm'.pc \notin {19, 20, 21, 22, 23}
          /\ sm'.pc \notin 14 .. 18 /\ sm'.pc \notin 0 .. 13 \cup {31}
      BY <3>1
    <3>5. KindOf(entry.word) # "none"
      BY <3>2
    <3> QED BY <3>3, <3>4, <3>5, Zenon DEF Serves
  <2>4. CASE sm.pc = 24
    <3>1. sm'.pc = 25 /\ sm'.y = sm.y /\ edges' = edges
      BY <2>4, <1>4, <1>10 DEF Counting, Rising
    <3>2. sm'.isr_count = sm.isr_count /\ sm'.isr = sm.isr
      BY <2>4, <1>1
    <3> QED BY <2>4, <3>1, <3>2, <1>5 DEF Serves
  <2>5. CASE sm.pc \in 14 .. 18
    <3>1. sm'.pc \in {15, 16, 17, 18, 24}
      BY <2>5, <1>4
    <3>2. sm.isr_count = 0 /\ sm'.isr_count = sm.isr_count
      <4>1. sm.pc \notin {1, 3, 22, 23, 25}
        BY <2>5
      <4>2. sm.pc \notin {2, 3, 4, 5, 6, 23, 24, 25}
        BY <2>5
      <4> QED BY <4>1, <4>2, <1>1, <1>11 DEF Gathered
    <3>3. KindOf(entry.word) = "none"
      BY <2>5, <1>5 DEF Serves
    <3> QED BY <3>1, <3>2, <3>3 DEF Serves
  <2>6. CASE sm.pc \in 0 .. 13 \cup {31}
    <3>1. sm'.pc \in 0 .. 13 \cup {31, 24}
      BY <2>6, <1>2, <1>4
    <3>2. KindOf(entry.word) = "data"
      BY <2>6, <1>5 DEF Serves
    <3> QED BY <3>1, <3>2 DEF Serves
  <2>7. CASE sm.pc \in {26, 27, 28}
    <3>1. sm'.pc \in {27, 28, 29, 24}
      BY <2>7, <1>4
    <3>2. sm.isr_count = 0 /\ sm'.isr_count = sm.isr_count
      <4>1. sm.pc \notin {1, 3, 22, 23, 25}
        BY <2>7
      <4>2. sm.pc \notin {2, 3, 4, 5, 6, 23, 24, 25}
        BY <2>7
      <4> QED BY <4>1, <4>2, <1>1, <1>11 DEF Gathered
    <3> QED BY <3>1, <3>2 DEF Serves
  <2>8. CASE sm.pc = 30
    <3>1. sm'.pc = entry.word[1] /\ sm'.pc \in {ADDR_CYC, ADDR_WR, ADDR_RD, ADDR_RDB, ADDR_HALT}
      BY <2>8, <1>4, <1>6
    <3>2. sm.isr_count = 0 /\ sm'.isr_count = sm.isr_count
      BY <2>8, <1>1, <1>11 DEF Gathered
    <3> QED BY <3>1, <3>2
      DEF Serves, KindOf, ADDR_CYC, ADDR_WR, ADDR_RD, ADDR_RDB, ADDR_HALT
  <2> QED BY <1>2, <2>1, <2>2, <2>3, <2>4, <2>5, <2>6, <2>7, <2>8
<1>13. Rest' = Rest + (IF sm.pc \in Counting THEN 1 ELSE 0) - (IF sm.pc \in Rising THEN 1 ELSE 0)
  <2>1. CASE sm.pc \in {10, 11, 12, 13, 31}
    <3>1. sm'.pc \in {0, 1, 11, 12, 13}
      BY <2>1, <1>4
    <3> QED BY <2>1, <3>1 DEF Rest, Counting, Rising
  <2>2. CASE sm.pc = 0
    BY <2>2, <1>4 DEF Rest, Counting, Rising
  <2>3. CASE sm.pc = 9
    BY <2>3, <1>4 DEF Rest, Counting, Rising
  <2>4. CASE sm.pc = 1
    <3>1. sm'.pc = 2 /\ sm'.osr_count = 6
      BY <2>4, <1>4, <1>8, <1>11 DEF Gathered
    <3> QED BY <2>4, <3>1 DEF Rest, Counting, Rising
  <2>5. CASE sm.pc \in {2, 3}
    <3>1. sm'.pc \in {3, 4} /\ sm'.osr_count = sm.osr_count
      BY <2>5, <1>4, <1>8
    <3>0. sm.osr_count \in 0 .. 32
      BY <1>11 DEF Gathered
    <3>2. sm.osr_count \in Nat
      BY <3>0
    <3>3. Rest = (34 - sm.osr_count) \div 4 /\ Rest' = (34 - sm.osr_count) \div 4
      BY <2>5, <3>1 DEF Rest
    <3>4. Rest' = Rest /\ Rest \in Int
      BY <3>2, <3>3
    <3> QED BY <2>5, <3>4 DEF Counting, Rising
  <2>6. CASE sm.pc = 4
    <3>1. sm'.pc = 5 /\ sm'.osr_count = Least(32, sm.osr_count + 4) /\ sm.osr_count \in Nibbled
      BY <2>6, <1>4, <1>8, <1>11 DEF Gathered
    <3>2. Rest = (34 - sm.osr_count) \div 4
      BY <2>6 DEF Rest
    <3>3. Rest' = IF sm'.osr_count = 32 THEN 1 ELSE (38 - sm'.osr_count) \div 4
      BY <3>1 DEF Rest
    <3>4. Rest' = Rest
      BY <3>1, <3>2, <3>3 DEF Nibbled, Least
    <3>5. Rest \in Int
      BY <3>1, <3>2 DEF Nibbled
    <3> QED BY <2>6, <3>4, <3>5 DEF Counting, Rising
  <2>7. CASE sm.pc = 5
    <3>1. /\ sm'.pc = (IF sm.osr_count < 32 THEN 2 ELSE 6) /\ sm'.osr_count = sm.osr_count
          /\ sm.osr_count \in Nibbled \cup {32}
      BY <2>7, <1>8, <1>9, <1>11 DEF Gathered
    <3>2. Rest = IF sm.osr_count = 32 THEN 1 ELSE (38 - sm.osr_count) \div 4
      BY <2>7 DEF Rest
    <3>3. Rest' = IF sm.osr_count = 32 THEN 0 ELSE (34 - sm.osr_count) \div 4
      BY <3>1 DEF Rest, Nibbled
    <3>4. Rest' = Rest - 1
      BY <3>1, <3>2, <3>3 DEF Nibbled
    <3>5. Rest \in Int
      BY <3>1, <3>2 DEF Nibbled
    <3> QED BY <2>7, <3>4, <3>5 DEF Counting, Rising
  <2>8. CASE sm.pc \in {6, 16, 23, 24, 26}
    <3>1. sm'.pc \in {17, 24, 25, 27}
      BY <2>8, <1>4
    <3> QED BY <2>8, <3>1 DEF Rest, Counting, Rising
  <2>9. CASE sm.pc \in {7, 8}
    <3>1. sm'.pc = IF sm.pc = 7 THEN 8 ELSE 31
      BY <2>9, <1>4
    <3> QED BY <2>9, <3>1 DEF Rest, Counting, Rising
  <2>10. CASE sm.pc \in {14, 18, 19, 20, 21}
    <3>1. sm'.pc \in {15, 20, 22}
      BY <2>10, <1>4
    <3> QED BY <2>10, <3>1 DEF Rest, Counting, Rising
  <2>11. CASE sm.pc \in {15, 22}
    <3>1. sm'.pc \in {16, 23}
      BY <2>11, <1>4
    <3> QED BY <2>11, <3>1 DEF Rest, Counting, Rising
  <2>12. CASE sm.pc = 17
    BY <2>12, <1>4 DEF Rest, Counting, Rising
  <2>13. CASE sm.pc = 27
    BY <2>13, <1>4 DEF Rest, Counting, Rising
  <2>14. CASE sm.pc = 28
    BY <2>14, <1>4 DEF Rest, Counting, Rising
  <2>15. CASE sm.pc = 30
    <3>1. sm'.pc \in {ADDR_CYC, ADDR_WR, ADDR_RD, ADDR_RDB, ADDR_HALT} /\ sm.osr[1] = sm'.pc
      BY <2>15, <1>4, <1>6
    <3>2. Rest = FIXED_FRAMES(sm'.pc)
      BY <2>15, <3>1 DEF Rest
    <3>3. Rest' = FIXED_FRAMES(sm'.pc) /\ FIXED_FRAMES(sm'.pc) \in Int
      BY <3>1 DEF Rest, FIXED_FRAMES, ADDR_CYC, ADDR_WR, ADDR_RD, ADDR_RDB, ADDR_HALT
    <3> QED BY <2>15, <3>2, <3>3 DEF Counting, Rising
  <2> QED BY <1>2, <2>1, <2>2, <2>3, <2>4, <2>5, <2>6, <2>7, <2>8, <2>9, <2>10, <2>11, <2>12,
        <2>13, <2>14, <2>15
<1>14. Rest \in Int
  <2>1. CASE sm.pc \in {2, 3, 4, 5}
    <3>0. sm.osr_count \in 0 .. 32
      BY <1>11 DEF Gathered
    <3>1. sm.osr_count \in Nat
      BY <3>0
    <3>2. (34 - sm.osr_count) \div 4 \in Int /\ (38 - sm.osr_count) \div 4 \in Int
      BY <3>1
    <3> QED BY <2>1, <3>2 DEF Rest
  <2>2. CASE sm.pc = 30
    <3>1. sm.osr[1] \in {ADDR_CYC, ADDR_WR, ADDR_RD, ADDR_RDB, ADDR_HALT}
      BY <2>2, <1>4, <1>6
    <3> QED BY <2>2, <3>1
      DEF Rest, FIXED_FRAMES, ADDR_CYC, ADDR_WR, ADDR_RD, ADDR_RDB, ADDR_HALT
  <2>3. CASE sm.pc \notin {2, 3, 4, 5, 30}
    BY <2>3, <1>2 DEF Rest
  <2> QED BY <2>1, <2>2, <2>3
<1>15. sm'.y \in Residues /\ edges' \in Residues
       /\ Congruent(sm'.y + edges' + Rest', entry.sigma)
  <2>0. entry.sigma \in Int /\ sm.y \in Residues /\ edges \in Residues
    BY <1>5 DEF Residues
  <2>1. /\ ((edges + 1) % YModulus) \in Residues /\ ((sm.y + YModulus - 1) % YModulus) \in Residues
        /\ Congruent(sm.y + ((edges + 1) % YModulus) + (Rest - 1), entry.sigma)
        /\ Congruent(((sm.y + YModulus - 1) % YModulus) + edges + (Rest + 1), entry.sigma)
    BY <2>0, <1>5, <1>14, FrameCounted
  <2>2. CASE sm.pc \in Counting
    <3>1. /\ sm'.y = (sm.y + YModulus - 1) % YModulus /\ edges' = edges
          /\ Rest' = Rest + 1 - 0
      BY <2>2, <1>10, <1>13 DEF Counting, Rising
    <3>2. Rest' = Rest + 1
      BY <3>1, <1>14
    <3> QED BY <2>0, <2>1, <3>1, <3>2
  <2>3. CASE sm.pc \in Rising
    <3>1. /\ sm'.y = sm.y /\ edges' = (edges + 1) % YModulus
          /\ Rest' = Rest + 0 - 1
      BY <2>3, <1>10, <1>13 DEF Counting, Rising
    <3>2. Rest' = Rest - 1
      BY <3>1, <1>14
    <3> QED BY <2>0, <2>1, <3>1, <3>2
  <2>4. CASE sm.pc \notin Counting \cup Rising
    <3>1. sm'.y = sm.y /\ edges' = edges /\ Rest' = Rest + 0 - 0
      BY <2>4, <1>10, <1>13
    <3>2. Rest' = Rest
      BY <3>1, <1>14
    <3> QED BY <2>0, <1>5, <3>1, <3>2
  <2> QED BY <2>2, <2>3, <2>4
<1>16. Unanswered(entry.word)' <=> Unanswered(entry.word)
  <2>1. CASE sm.pc \in {6, 23}
    <3>1. sm'.pc = 24 /\ sm'.isr_count = 32
      <4>1. CASE sm.pc = 6
        BY <4>1, <1>1, <1>4, <1>11 DEF Gathered
      <4>2. CASE sm.pc = 23
        <5>1. sm.isr_count = 24
          BY <4>2, <1>11 DEF Gathered
        <5> QED BY <4>2, <5>1, <1>1, <1>4 DEF Least
      <4> QED BY <2>1, <4>1, <4>2
    <3> QED BY <2>1, <3>1 DEF Unanswered
  <2>2. CASE sm.pc = 16
    <3>1. KindOf(entry.word) = "none"
      BY <2>2, <1>5 DEF Serves
    <3> QED BY <3>1 DEF Unanswered
  <2>3. CASE sm.pc \in {24, 26, 27, 28}
    <3>1. sm'.pc \in 24 .. 29 /\ sm'.isr_count = sm.isr_count
      BY <2>3, <1>1, <1>4
    <3> QED BY <2>3, <3>1 DEF Unanswered
  <2>4. CASE sm.pc \notin {6, 16, 23, 24, 26, 27, 28}
    <3>1. sm'.pc \notin 24 .. 29
      BY <2>4, <1>2, <1>4 DEF ADDR_CYC, ADDR_WR, ADDR_RD, ADDR_RDB, ADDR_HALT
    <3>2. sm.pc \notin 24 .. 29
      BY <2>4, <1>2
    <3> QED BY <3>1, <3>2 DEF Unanswered
  <2> QED BY <2>1, <2>2, <2>3, <2>4
<1> QED BY <1>2, <1>7, <1>10, <1>12, <1>15, <1>16 DEF At

-----------------------------------------------------------------------------
(* The ledger of the host: the operation under way, or the last one, and   *)
(* then the operations whose words are still to be pulled, each with the   *)
(* count it is booked at and how many results there are up to it, of which *)
(* n were taken.                                                           *)
Entry == [word : Plain \cup {HALT}, sigma : Residues, at : Nat]
Due == [kind : {"stamp", "data"}, sigma : Residues]
One(word) == IF KindOf(word) = "none" THEN 0 ELSE 1
Books(a, b) ==
  /\ b.sigma = (a.sigma + 1 + FIXED_FRAMES(b.word[1])) % YModulus
  /\ b.at = a.at + One(b.word)
Ledger(C, n, s, r) ==
  /\ C \in Seq(Entry) /\ C # << >> /\ n \in Nat /\ s \in Residues /\ r \in Seq(Due)
  /\ C[Len(C)].sigma = s /\ C[Len(C)].at = n + Len(r)
  /\ \A i \in 1 .. Len(C) - 1 : Books(C[i], C[i + 1])
  /\ \A i, j \in 1 .. Len(C) : i < j => C[i].at + One(C[j].word) <= C[j].at
  /\ \A i \in 1 .. Len(C) : KindOf(C[i].word) # "none" /\ C[i].at > n =>
       r[C[i].at - n] = [kind |-> KindOf(C[i].word), sigma |-> C[i].sigma]

(* The words still to be pulled are those of the ledger, in its order.     *)
Queued == IF sm.tx # << >> /\ sm.tx[1] = Release THEN Tail(sm.tx) ELSE sm.tx
Waiting(C, q, put) ==
  /\ Len(C) = 1 + Len(q) + Len(put)
  /\ \A i \in 1 .. Len(q) : C[1 + i].word = q[i]
  /\ \A i \in 1 .. Len(put) : C[1 + Len(q) + i].word = put[i].word

(* The results in the RX FIFO are those of the operations before, and each *)
(* stamp is the one its sigma was booked for.                              *)
Stamps(value, s) == \E a, b \in Residues : value = <<a, b>> /\ Congruent(a + b, s)
Returned(entry, n) ==
  /\ n + Len(sm.rx) = entry.at - (IF Unanswered(entry.word) THEN 1 ELSE 0)
  /\ \E V : sm.rx \in Seq(V)
  /\ \A j \in 1 .. Len(sm.rx) : results[j].kind = "stamp" => Stamps(sm.rx[j], results[j].sigma)

CountOf(C, n) ==
  /\ Ledger(C, n, sigma, results) /\ Waiting(C, Queued, putting)
  /\ At(C[1]) /\ Returned(C[1], n)
  /\ Len(results) <= RxDepth
(* What the port has counted, and there really was.                        *)
Accounts == <<_d, idled, drift>>
Agree == _d \in Residues /\ idled = _d /\ drift = 0
CountInv == Agree /\ \E C, n : CountOf(C, n)

(* No cycle of the program touches what the host has booked.               *)
Booking == <<results, putting, sigma>>

LEMMA FirstEntry ==
  ASSUME NEW C, NEW n, Ledger(C, n, sigma, results)
  PROVE  C[1] \in Entry /\ 1 \in 1 .. Len(C) /\ Len(C) \in Nat
BY DEF Ledger

LEMMA SamePlace ==
  ASSUME sm'.pc = sm.pc, sm'.y = sm.y, edges' = edges, sm'.isr = sm.isr, sm'.osr = sm.osr,
         sm'.isr_count = sm.isr_count, sm'.osr_count = sm.osr_count, NEW entry, At(entry)
  PROVE  At(entry)' /\ (Unanswered(entry.word)' <=> Unanswered(entry.word))
<1>1. Rest' = Rest
  BY DEF Rest
<1>2. Gathered' /\ Serves(entry.word)'
  BY DEF At, Gathered, Serves
<1> QED BY <1>1, <1>2 DEF At, Unanswered

LEMMA SameCount ==
  ASSUME NEW C, NEW n, CountOf(C, n), At(C[1])', Queued' = Queued, sm'.rx = sm.rx,
         Unanswered(C[1].word)' <=> Unanswered(C[1].word), UNCHANGED Booking
  PROVE  CountOf(C, n)'
<1>1. UNCHANGED <<results, putting, sigma>>
  BY DEF Booking
<1>2. Returned(C[1], n)'
  BY <1>1 DEF CountOf, Returned
<1> QED BY <1>1, <1>2 DEF CountOf

LEMMA QueuedKept == ASSUME sm'.tx = sm.tx PROVE Queued' = Queued
BY DEF Queued

LEMMA IdleCounts ==
  ASSUME MachineInv, Cycle, NEW C, NEW n, CountOf(C, n), UNCHANGED Booking,
         sm.delay # 0 \/ Stalled(lockstep_program(sm.pc))
  PROVE  CountOf(C, n)'
<1>1. sm.delay \in 0 .. 2 /\ Whole(sm) /\ clk \in {0, 1} /\ sm.pc \in 0 .. 31
  BY DEF MachineInv, SmShape, Whole
<1>2. CASE sm.delay # 0
  <2>1. sm' = [sm EXCEPT !.delay = @ - 1] /\ Pins(clk, ui)
    <3>1. sm.delay > 0
      BY <1>1, <1>2
    <3> QED BY <3>1 DEF Cycle
  <2>2. edges' = edges
    BY <2>1, <1>1 DEF Pins
  <2>3. /\ sm'.pc = sm.pc /\ sm'.y = sm.y /\ sm'.isr = sm.isr /\ sm'.osr = sm.osr
        /\ sm'.isr_count = sm.isr_count /\ sm'.osr_count = sm.osr_count
        /\ sm'.tx = sm.tx /\ sm'.rx = sm.rx
    BY <2>1, <1>1 DEF Whole
  <2>4. At(C[1])' /\ (Unanswered(C[1].word)' <=> Unanswered(C[1].word))
    BY <2>2, <2>3, SamePlace DEF CountOf
  <2> QED BY <2>3, <2>4, QueuedKept, SameCount
<1>3. CASE sm.delay = 0 /\ Stalled(lockstep_program(sm.pc))
  <2>1. lockstep_program(sm.pc).op = "pull" /\ sm.tx = << >>
    BY <1>3 DEF Stalled
  <2>2. sm.pc = ADDR_HALT
    <3>1. sm.pc \in {19, 29}
      BY <1>1, <2>1, Kinds
    <3> QED BY <3>1, <2>1 DEF MachineInv, Branches, ADDR_HALT
  <2>3. lockstep_program(sm.pc).side = 0
    BY <1>1, <2>2, Kinds DEF ADDR_HALT
  <2>4. UNCHANGED sm /\ Pins(0, ui)
    BY <1>3, <2>3 DEF Cycle
  <2>5. edges' = edges
    BY <2>4 DEF Pins
  <2>6. /\ sm'.pc = sm.pc /\ sm'.y = sm.y /\ sm'.isr = sm.isr /\ sm'.osr = sm.osr
        /\ sm'.isr_count = sm.isr_count /\ sm'.osr_count = sm.osr_count
        /\ sm'.tx = sm.tx /\ sm'.rx = sm.rx
    BY <2>4
  <2>7. At(C[1])' /\ (Unanswered(C[1].word)' <=> Unanswered(C[1].word))
    BY <2>5, <2>6, SamePlace DEF CountOf
  <2> QED BY <2>6, <2>7, QueuedKept, SameCount
<1> QED BY <1>2, <1>3

(* The queue: its words are those of the ledger, so none of them is the    *)
(* word that ends a HALT, and pulling that one leaves them as they are.    *)
LEMMA QueueWords ==
  ASSUME LockInv, NEW C, NEW n, CountOf(C, n)
  PROVE  /\ Queued \in Seq(Words) /\ Len(Queued) \in Nat
         /\ \A i \in 1 .. Len(Queued) : Queued[i] # Release
         /\ sm.tx # << >> /\ sm.tx[1] = Release => Queued = Tail(sm.tx)
         /\ ~(sm.tx # << >> /\ sm.tx[1] = Release) => Queued = sm.tx
<1>1. sm.tx \in Seq(Words)
  BY DEF LockInv, MachineInv, SmShape
<1>2. Queued \in Seq(Words)
  BY <1>1 DEF Queued
<1>3. ASSUME NEW i \in 1 .. Len(Queued) PROVE Queued[i] # Release
  <2>1. /\ Len(C) = 1 + Len(Queued) + Len(putting) /\ C[1 + i].word = Queued[i]
        /\ C \in Seq(Entry) /\ Len(C) \in Nat
    BY DEF CountOf, Waiting, Ledger
  <2>2. Len(putting) \in Nat
    <3>1. putting \in Seq(Operations) \/ putting = <<OP_HALT>>
      BY DEF LockInv, HostShape
    <3> QED BY <3>1
  <2>3. 1 + i \in 1 .. Len(C)
    BY <1>2, <2>1, <2>2
  <2>4. C[1 + i] \in Entry
    BY <2>1, <2>3
  <2> QED BY <2>1, <2>4, PlainWords DEF Entry
<1>4. /\ sm.tx # << >> /\ sm.tx[1] = Release => Queued = Tail(sm.tx)
      /\ ~(sm.tx # << >> /\ sm.tx[1] = Release) => Queued = sm.tx
  BY DEF Queued
<1>5. Len(Queued) \in Nat
  BY <1>2
<1> QED BY <1>2, <1>3, <1>4, <1>5

LEMMA MovesCounts ==
  ASSUME LockstepAssumption, LockInv, Cycle, sm.delay = 0,
         ~Stalled(lockstep_program(sm.pc)), sm.pc \notin {25, 29},
         NEW C, NEW n, CountOf(C, n), UNCHANGED Booking
  PROVE  CountOf(C, n)'
<1>1. C[1].word \in Plain \cup {HALT} /\ C[1].sigma \in Residues
  <2>1. C[1] \in Entry
    BY FirstEntry DEF CountOf
  <2> QED BY <2>1 DEF Entry
<1>2. At(C[1]) /\ MachineInv /\ YModulus \in Nat \ {0}
  BY DEF CountOf, LockInv, LockstepAssumption
<1>3. At(C[1])' /\ sm'.rx = sm.rx /\ (Unanswered(C[1].word)' <=> Unanswered(C[1].word))
  BY <1>1, <1>2, PlaceKept
<1>4. Queued' = Queued
  <2>1. sm.pc \in 0 .. 31
    BY <1>2 DEF MachineInv, SmShape
  <2>2. sm'.tx = IF lockstep_program(sm.pc).op = "pull" THEN Tail(sm.tx) ELSE sm.tx
    BY <1>2, Moves
  <2>3. CASE sm.pc # 19
    <3>1. lockstep_program(sm.pc).op # "pull"
      BY <2>1, <2>3, Kinds
    <3> QED BY <2>2, <3>1, QueuedKept
  <2>4. CASE sm.pc = 19
    <3>1. lockstep_program(sm.pc).op = "pull"
      BY <2>1, <2>4, Kinds
    <3>2. sm.tx # << >> /\ sm'.tx = Tail(sm.tx)
      BY <2>2, <3>1 DEF Stalled
    <3>3. sm.tx[1] = Release
      BY <2>4, <3>2, <1>2 DEF MachineInv, Discipline, Halting, ADDR_HALT
    <3>4. Queued = Tail(sm.tx) /\ Queued \in Seq(Words) /\ \A i \in 1 .. Len(Queued) : Queued[i] # Release
      BY <3>2, <3>3, QueueWords
    <3>5. Queued # << >> => Queued[1] # Release
      BY <3>4
    <3> QED BY <3>2, <3>4, <3>5 DEF Queued
  <2> QED BY <2>3, <2>4
<1> QED BY <1>3, <1>4, SameCount

(* The push: the result of the operation under way, if it has one, goes    *)
(* where the host looks for it.                                            *)
LEMMA LedgerBounds ==
  ASSUME NEW C, NEW n, NEW s, NEW r, Ledger(C, n, s, r)
  PROVE  /\ C[1] \in Entry /\ C[1].at \in Nat /\ Len(C) \in Nat /\ Len(C) >= 1 /\ Len(r) \in Nat
         /\ n \in Nat /\ C[1].at <= n + Len(r)
<1>1. C \in Seq(Entry) /\ Len(C) \in Nat /\ Len(C) >= 1 /\ Len(r) \in Nat /\ n \in Nat
  BY DEF Ledger
<1>2. C[1] \in Entry /\ C[1].at \in Nat
  <2>1. C[1] \in Entry
    BY <1>1
  <2> QED BY <2>1 DEF Entry
<1>3. C[1].at <= n + Len(r)
  <2>1. C[Len(C)].at = n + Len(r)
    BY DEF Ledger
  <2>2. CASE Len(C) = 1
    BY <2>1, <2>2, <1>1
  <2>3. CASE Len(C) > 1
    <3>1. C[1].at + One(C[Len(C)].word) <= C[Len(C)].at
      BY <1>1, <2>3 DEF Ledger
    <3>2. One(C[Len(C)].word) \in Nat
      BY DEF One
    <3> QED BY <2>1, <3>1, <3>2, <1>1, <1>2
  <2>4. \A k \in Nat : k >= 1 => k = 1 \/ k > 1
    OBVIOUS
  <2>5. Len(C) = 1 \/ Len(C) > 1
    BY <1>1, <2>4, Zenon
  <2> QED BY <2>2, <2>3, <2>5
<1> QED BY <1>1, <1>2, <1>3

LEMMA Pushed ==
  ASSUME NEW V, NEW q \in Seq(V), NEW e
  PROVE  /\ Append(q, e) \in Seq(V \cup {e}) /\ Len(Append(q, e)) = Len(q) + 1
         /\ Append(q, e)[Len(q) + 1] = e /\ \A i \in 1 .. Len(q) : Append(q, e)[i] = q[i]
<1>1. q \in Seq(V \cup {e}) /\ e \in V \cup {e}
  OBVIOUS
<1> QED BY <1>1, WordAppended

LEMMA OneMore ==
  ASSUME NEW a \in Nat, NEW b \in Nat, NEW c \in Nat, a + b = c - 1
  PROVE  a + (b + 1) = c - 0
OBVIOUS

LEMMA PushStep ==
  ASSUME LockstepAssumption, LockInv, Cycle, sm.delay = 0, sm.pc = 25,
         NEW C, NEW n, CountOf(C, n), UNCHANGED Booking
  PROVE  CountOf(C, n)'
<1>0. ~Stalled(lockstep_program(sm.pc)) /\ MachineInv
  <2>1. lockstep_program(sm.pc).op = "push"
    BY Decoded
  <2> QED BY <2>1 DEF Stalled, LockInv
<1>1. /\ sm'.y = sm.y /\ edges' = edges /\ sm'.osr_count = sm.osr_count
      /\ sm'.isr_count = (IF sm.isr_count < 32 THEN sm.isr_count ELSE 0)
      /\ sm'.isr = (IF sm.isr_count < 32 THEN sm.isr ELSE << >>)
      /\ sm'.rx = IF ~(sm.isr_count < 32) /\ Len(sm.rx) < RxDepth
                  THEN Append(sm.rx, sm.isr) ELSE sm.rx
  <2>1. sm'.y = sm.y /\ edges' = edges
    <3>1. sm.pc \notin Counting /\ sm.pc \notin Rising
      BY DEF Counting, Rising
    <3>2. sm'.y = IF sm.pc \in Counting THEN (sm.y + YModulus - 1) % YModulus ELSE sm.y
      BY <1>0, Effects
    <3>3. edges' = IF sm.pc \in Rising THEN (edges + 1) % YModulus ELSE edges
      BY <1>0, Effects
    <3> QED BY <3>1, <3>2, <3>3
  <2>2. sm'.osr_count = sm.osr_count
    <3>1. sm.pc \notin {4, 7, 10, 11, 12, 13, 14, 19, 21, 29, 30, 31} => sm'.osr_count = sm.osr_count
      BY <1>0, Effects
    <3> QED BY <3>1
  <2>3. /\ sm'.isr_count = (IF sm.isr_count < 32 THEN sm.isr_count ELSE 0)
        /\ sm'.isr = (IF sm.isr_count < 32 THEN sm.isr ELSE << >>)
    <3>1. sm'.isr_count = CASE sm.pc \in {1, 3} -> Least(32, sm.isr_count + 4)
                            [] sm.pc = 22 -> Least(32, sm.isr_count + 24)
                            [] sm.pc = 23 -> Least(32, sm.isr_count + 8)
                            [] sm.pc = 25 -> IF sm.isr_count < 32 THEN sm.isr_count ELSE 0
                            [] sm.pc \notin {1, 3, 22, 23, 25} -> sm.isr_count
      BY <1>0, Effects
    <3>2. sm.pc = 25 => sm'.isr = IF sm.isr_count < 32 THEN sm.isr ELSE << >>
      BY <1>0, Effects
    <3> QED BY <1>0, <3>1, <3>2
  <2>4. sm'.rx = IF ~(sm.isr_count < 32) /\ Len(sm.rx) < RxDepth
                 THEN Append(sm.rx, sm.isr) ELSE sm.rx
    BY <1>0, Effects
  <2> QED BY <2>1, <2>2, <2>3, <2>4
<1>2. sm'.pc = 26
  <2>1. sm'.pc \in Targets(sm.pc)
    BY <1>0, Moves
  <2> QED BY <2>1, Followers
<1>3. sm'.tx = sm.tx
  <2>1. lockstep_program(sm.pc).op = "push"
    BY Decoded
  <2>2. sm'.tx = IF lockstep_program(sm.pc).op = "pull" THEN Tail(sm.tx) ELSE sm.tx
    BY <1>0, Moves
  <2> QED BY <2>1, <2>2
<1>4. /\ sm.isr_count \in {0, 32} /\ (sm.isr_count = 0 => sm.isr = << >>)
      /\ sm.osr_count \in 0 .. 32 /\ At(C[1]) /\ Serves(C[1].word)
      /\ sm.y \in Residues /\ edges \in Residues /\ Congruent(sm.y + edges + Rest, C[1].sigma)
  <2>1. Gathered /\ At(C[1])
    BY DEF CountOf, At
  <2>2. sm.osr_count \in 0 .. 32
    BY <2>1 DEF Gathered
  <2>3. sm.isr_count \in {0, 32}
    BY <2>1 DEF Gathered
  <2>4. sm.isr_count = 0 => sm.isr = << >>
    BY <2>1 DEF Gathered
  <2> QED BY <2>1, <2>2, <2>3, <2>4 DEF At
<1>5. sm'.isr_count = 0 /\ sm'.isr = << >>
  BY <1>1, <1>4
<1>6. At(C[1])'
  <2>1. Gathered'
    BY <1>1, <1>2, <1>4, <1>5 DEF Gathered
  <2>2. Serves(C[1].word)'
    BY <1>2, <1>5 DEF Serves
  <2>3. Rest = 0 /\ Rest' = 0
    BY <1>2 DEF Rest
  <2> QED BY <2>1, <2>2, <2>3, <1>1, <1>4 DEF At
<1>7. ~Unanswered(C[1].word)'
  BY <1>2, <1>5 DEF Unanswered
<1>8. CASE sm.isr_count = 0
  <2>1. ~Unanswered(C[1].word) /\ sm'.rx = sm.rx
    BY <1>1, <1>8 DEF Unanswered
  <2> QED BY <2>1, <1>3, <1>6, <1>7, QueuedKept, SameCount
<1>9. CASE sm.isr_count = 32
  <2>1. KindOf(C[1].word) # "none" /\ Unanswered(C[1].word)
    BY <1>4, <1>9 DEF Serves, Unanswered
  <2>2. /\ Ledger(C, n, sigma, results) /\ Len(results) <= RxDepth
        /\ n + Len(sm.rx) = C[1].at - 1
        /\ \A j \in 1 .. Len(sm.rx) : results[j].kind = "stamp" => Stamps(sm.rx[j], results[j].sigma)
    BY <2>1 DEF CountOf, Returned
  <2>3. PICK V : sm.rx \in Seq(V)
    BY DEF CountOf, Returned
  <2>4. Len(sm.rx) \in Nat /\ C[1].at \in Nat /\ n \in Nat /\ Len(results) \in Nat
        /\ C[1].at <= n + Len(results) /\ 1 \in 1 .. Len(C)
    BY <2>2, <2>3, LedgerBounds
  <2>5. Len(sm.rx) < RxDepth /\ C[1].at > n /\ C[1].at - n = Len(sm.rx) + 1
    BY <2>2, <2>4 DEF RxDepth
  <2>6. results[Len(sm.rx) + 1] = [kind |-> KindOf(C[1].word), sigma |-> C[1].sigma]
    BY <2>1, <2>2, <2>4, <2>5 DEF Ledger
  <2>7. sm'.rx = Append(sm.rx, sm.isr)
    BY <1>1, <1>9, <2>5
  <2>8. /\ sm'.rx \in Seq(V \cup {sm.isr}) /\ Len(sm'.rx) = Len(sm.rx) + 1
        /\ sm'.rx[Len(sm.rx) + 1] = sm.isr /\ \A i \in 1 .. Len(sm.rx) : sm'.rx[i] = sm.rx[i]
    BY <2>3, <2>7, Pushed
  <2>9. KindOf(C[1].word) = "stamp" => Stamps(sm.isr, C[1].sigma)
    <3>1. Rest = 0
      BY DEF Rest
    <3>2. Congruent(sm.y + edges, C[1].sigma)
      <4>1. sm.y + edges + 0 = sm.y + edges
        BY <1>4 DEF Residues
      <4> QED BY <1>4, <3>1, <4>1
    <3>3. KindOf(C[1].word) = "stamp" => sm.isr = <<sm.y, edges>>
      BY <1>4, <1>9 DEF Serves
    <3> QED BY <3>2, <3>3, <1>4 DEF Stamps
  <2>10. ASSUME NEW j \in 1 .. Len(sm'.rx), results[j].kind = "stamp"
         PROVE  Stamps(sm'.rx[j], results[j].sigma)
    <3>1. CASE j = Len(sm.rx) + 1
      BY <3>1, <2>6, <2>8, <2>9, <2>10
    <3>2. CASE j # Len(sm.rx) + 1
      <4>1. j \in 1 .. Len(sm.rx)
        BY <3>2, <2>4, <2>8
      <4> QED BY <4>1, <2>2, <2>8, <2>10
    <3> QED BY <3>1, <3>2
  <2>11. UNCHANGED <<results, putting, sigma>>
    BY DEF Booking
  <2>12. n + Len(sm'.rx) = C[1].at - 0
    <3>1. Len(sm'.rx) = Len(sm.rx) + 1 /\ n + Len(sm.rx) = C[1].at - 1
      BY <2>2, <2>8
    <3>2. n \in Nat /\ Len(sm.rx) \in Nat /\ C[1].at \in Nat /\ n + Len(sm.rx) = C[1].at - 1
      BY <3>1, <2>4
    <3>3. n + (Len(sm.rx) + 1) = C[1].at - 0
      BY <3>2, OneMore
    <3> QED BY <3>1, <3>3, Zenon
  <2>13. Returned(C[1], n)'
    <3>1. n + Len(sm'.rx) = C[1].at - (IF Unanswered(C[1].word)' THEN 1 ELSE 0)
      BY <2>12, <1>7
    <3> QED BY <3>1, <2>8, <2>10, <2>11 DEF Returned
  <2>14. Queued' = Queued
    BY <1>3, QueuedKept
  <2> QED BY <1>6, <2>11, <2>13, <2>14 DEF CountOf
<1> QED BY <1>4, <1>8, <1>9

(* The pull: the next operation of the ledger is under way, and owes the   *)
(* frames it is booked for.                                                *)
LEMMA LedgerTail ==
  ASSUME NEW C, NEW n, NEW s, NEW r, Ledger(C, n, s, r), Len(C) >= 2
  PROVE  /\ Ledger(Tail(C), n, s, r) /\ Len(Tail(C)) = Len(C) - 1
         /\ \A i \in 1 .. Len(C) - 1 : Tail(C)[i] = C[i + 1]
         /\ C[1] \in Entry /\ C[2] \in Entry /\ Books(C[1], C[2])
<1>1. C \in Seq(Entry) /\ Len(C) \in Nat
  BY DEF Ledger
<1>2. /\ Tail(C) \in Seq(Entry) /\ Len(Tail(C)) = Len(C) - 1
      /\ \A i \in 1 .. Len(C) - 1 : Tail(C)[i] = C[i + 1]
      /\ C[1] \in Entry /\ C[2] \in Entry
  BY <1>1
<1> DEFINE D == Tail(C)
           m == Len(C) - 1
<1>3. m \in Nat /\ m >= 1 /\ Len(D) = m /\ Len(C) = m + 1 /\ D \in Seq(Entry)
  BY <1>1, <1>2
<1>4. \A i \in 1 .. m : i + 1 \in 1 .. Len(C) /\ D[i] = C[i + 1]
  BY <1>2, <1>3
<1> HIDE DEF D, m
<1>5. D # << >> /\ D[Len(D)] = C[Len(C)]
  <2>1. m \in 1 .. m
    BY <1>3
  <2>2. D[m] = C[m + 1]
    BY <1>4, <2>1
  <2>3. D # << >>
    BY <1>3
  <2> QED BY <1>3, <2>2, <2>3
<1>6. ASSUME NEW i \in 1 .. Len(D) - 1 PROVE Books(D[i], D[i + 1])
  <2>1. i \in 1 .. m /\ i + 1 \in 1 .. m /\ i + 1 \in 1 .. Len(C) - 1
    BY <1>3
  <2>2. D[i] = C[i + 1] /\ D[i + 1] = C[i + 1 + 1]
    BY <1>4, <2>1
  <2>3. Books(C[i + 1], C[i + 1 + 1])
    BY <2>1 DEF Ledger
  <2> QED BY <2>2, <2>3
<1>7. ASSUME NEW i \in 1 .. Len(D), NEW j \in 1 .. Len(D), i < j
      PROVE  D[i].at + One(D[j].word) <= D[j].at
  <2>1. i + 1 \in 1 .. Len(C) /\ j + 1 \in 1 .. Len(C) /\ i + 1 < j + 1
    BY <1>3, <1>4, <1>7
  <2>2. D[i] = C[i + 1] /\ D[j] = C[j + 1]
    BY <1>3, <1>4
  <2>3. C[i + 1].at + One(C[j + 1].word) <= C[j + 1].at
    BY <2>1 DEF Ledger
  <2> QED BY <2>2, <2>3
<1>8. ASSUME NEW i \in 1 .. Len(D), KindOf(D[i].word) # "none", D[i].at > n
      PROVE  r[D[i].at - n] = [kind |-> KindOf(D[i].word), sigma |-> D[i].sigma]
  <2>1. i + 1 \in 1 .. Len(C) /\ D[i] = C[i + 1]
    BY <1>3, <1>4
  <2> QED BY <2>1, <1>8 DEF Ledger
<1>9. n \in Nat /\ s \in Residues /\ r \in Seq(Due) /\ D[Len(D)].sigma = s
      /\ D[Len(D)].at = n + Len(r)
  BY <1>5 DEF Ledger
<1>10. Ledger(D, n, s, r)
  BY <1>3, <1>5, <1>6, <1>7, <1>8, <1>9 DEF Ledger
<1>11. Books(C[1], C[2])
  <2>1. 1 \in 1 .. Len(C) - 1
    BY <1>3
  <2>2. Books(C[1], C[1 + 1])
    BY <2>1 DEF Ledger
  <2> QED BY <2>2
<1> QED BY <1>2, <1>10, <1>11 DEF D

LEMMA Remainder ==
  ASSUME NEW M \in Nat \ {0}, NEW a \in Nat
  PROVE  (a % M) \in 0 .. M - 1 /\ \E k \in Int : a = (a % M) + k * M
<1>1. a = (a % M) + (a \div M) * M /\ (a \div M) \in Int
  OBVIOUS
<1>2. (a % M) \in 0 .. M - 1
  OBVIOUS
<1> QED BY <1>1, <1>2

LEMMA Distributes ==
  ASSUME NEW a \in Int, NEW b \in Int, NEW M \in Int PROVE (a + b) * M = a * M + b * M
OBVIOUS

LEMMA CongruentBooked ==
  ASSUME YModulus \in Nat \ {0}, NEW a \in Int, NEW s \in Residues, NEW f \in Nat,
         Congruent(a - 1, s)
  PROVE  Congruent(a + f, (s + 1 + f) % YModulus)
<1> DEFINE t == s + 1 + f
<1>1. t \in Nat /\ s \in Int /\ YModulus \in Int
  BY DEF Residues
<1>2. PICK k \in Int : a - 1 = s + k * YModulus
  BY DEF Congruent
<1>3. PICK j \in Int : t = (t % YModulus) + j * YModulus
  BY <1>1, Remainder
<1>4. (t % YModulus) \in 0 .. YModulus - 1
  BY <1>1, Remainder
<1>5. (k + j) * YModulus = k * YModulus + j * YModulus /\ k * YModulus \in Int
      /\ j * YModulus \in Int /\ k + j \in Int
  BY <1>1, Distributes
<1>6. a + f = t + k * YModulus
  BY <1>1, <1>2, <1>5
<1>7. a + f = (t % YModulus) + (k + j) * YModulus
  BY <1>3, <1>4, <1>5, <1>6
<1> QED BY <1>5, <1>7 DEF Congruent

LEMMA QueueTail ==
  ASSUME NEW C, NEW q, NEW put, NEW V, q \in Seq(V), q # << >>, Waiting(C, q, put),
         Len(put) \in Nat, C # << >>, NEW E, C \in Seq(E)
  PROVE  /\ Waiting(Tail(C), Tail(q), put) /\ C[2].word = q[1] /\ Len(C) >= 2
<1>1. /\ Len(q) \in Nat /\ Len(q) >= 1 /\ Len(C) = 1 + Len(q) + Len(put)
      /\ Len(Tail(q)) = Len(q) - 1 /\ \A i \in 1 .. Len(q) - 1 : Tail(q)[i] = q[i + 1]
  BY DEF Waiting
<1>2. /\ Len(C) \in Nat /\ Len(Tail(C)) = Len(C) - 1
      /\ \A i \in 1 .. Len(C) - 1 : Tail(C)[i] = C[i + 1]
  OBVIOUS
<1> DEFINE p == Tail(q)
           D == Tail(C)
<1>3. \A i \in 1 .. Len(q) : C[1 + i].word = q[i]
  BY DEF Waiting
<1>4. \A i \in 1 .. Len(put) : C[1 + Len(q) + i].word = put[i].word
  BY DEF Waiting
<1>5. C[2].word = q[1] /\ Len(C) >= 2
  <2>1. 1 \in 1 .. Len(q)
    BY <1>1
  <2>2. C[1 + 1].word = q[1]
    BY <1>3, <2>1
  <2> QED BY <2>2, <1>1
<1>6. Len(D) = 1 + Len(p) + Len(put)
  BY <1>1, <1>2
<1>7. ASSUME NEW i \in 1 .. Len(p) PROVE D[1 + i].word = p[i]
  <2>1. i \in 1 .. Len(q) - 1 /\ i + 1 \in 1 .. Len(q) /\ 1 + i \in 1 .. Len(C) - 1
    BY <1>1
  <2>2. D[1 + i] = C[(1 + i) + 1] /\ p[i] = q[i + 1]
    BY <1>1, <1>2, <2>1
  <2>3. C[1 + (i + 1)].word = q[i + 1]
    BY <1>3, <2>1
  <2>4. (1 + i) + 1 = 1 + (i + 1)
    BY <2>1
  <2> QED BY <2>2, <2>3, <2>4
<1>8. ASSUME NEW i \in 1 .. Len(put) PROVE D[1 + Len(p) + i].word = put[i].word
  <2>1. 1 + Len(p) + i \in 1 .. Len(C) - 1 /\ (1 + Len(p) + i) + 1 = 1 + Len(q) + i
    BY <1>1
  <2>2. D[1 + Len(p) + i] = C[1 + Len(q) + i]
    BY <1>2, <2>1
  <2> QED BY <2>2, <1>4
<1>9. Waiting(D, p, put)
  BY <1>6, <1>7, <1>8 DEF Waiting
<1> QED BY <1>5, <1>9

LEMMA SecondOf ==
  ASSUME NEW S, NEW q \in Seq(S), q # << >>
  PROVE  Tail(q) = << >> \/ (Tail(q)[1] = q[2] /\ 2 \in 1 .. Len(q))
<1>1. Len(q) \in Nat /\ Len(q) >= 1 /\ Len(Tail(q)) = Len(q) - 1 /\ Tail(q) \in Seq(S)
  OBVIOUS
<1>2. CASE Len(q) = 1
  <2> DEFINE t == Tail(q)
  <2>1. t \in Seq(S) /\ Len(t) = 0
    BY <1>1, <1>2
  <2> HIDE DEF t
  <2>2. t = << >>
    BY <2>1
  <2> QED BY <2>2 DEF t
<1>3. CASE Len(q) > 1
  <2>1. Tail(q)[1] = q[1 + 1]
    BY <1>1, <1>3
  <2>2. 2 \in 1 .. Len(q) /\ 1 + 1 = 2
    BY <1>1, <1>3
  <2> QED BY <2>1, <2>2
<1> QED BY <1>1, <1>2, <1>3

LEMMA FramesType ==
  ASSUME NEW word \in Plain \cup {HALT} PROVE FIXED_FRAMES(word[1]) \in Nat
<1>1. word[1] \in {ADDR_CYC, ADDR_WR, ADDR_RD, ADDR_RDB, ADDR_HALT}
  BY DEF Plain, HALT
<1> QED BY <1>1 DEF FIXED_FRAMES, ADDR_CYC, ADDR_WR, ADDR_RD, ADDR_RDB, ADDR_HALT

LEMMA PullCounts ==
  ASSUME LockstepAssumption, LockInv, Cycle, sm.delay = 0, sm.pc = 29,
         ~Stalled(lockstep_program(sm.pc)),
         NEW C, NEW n, CountOf(C, n), UNCHANGED Booking
  PROVE  CountOf(Tail(C), n)'
<1>0. MachineInv /\ YModulus \in Nat \ {0} /\ sm.tx # << >> /\ sm.tx \in Seq(Words)
  BY DEF LockInv, MachineInv, Branches, SmShape, LockstepAssumption
<1>1. sm.tx[1] # Release
  <2>1. ~Halting
    BY DEF Halting, ADDR_HALT
  <2> QED BY <2>1, <1>0 DEF MachineInv, Discipline
<1>2. /\ Queued = sm.tx /\ Queued \in Seq(Words)
      /\ \A i \in 1 .. Len(Queued) : Queued[i] # Release
  BY <1>1, QueueWords
<1>3. Ledger(C, n, sigma, results) /\ Waiting(C, sm.tx, putting) /\ At(C[1]) /\ Returned(C[1], n)
      /\ Len(results) <= RxDepth
  BY <1>2 DEF CountOf
<1>4. Len(putting) \in Nat
  <2>1. putting \in Seq(Operations) \/ putting = <<OP_HALT>>
    BY DEF LockInv, HostShape
  <2> QED BY <2>1
<1>5. Waiting(Tail(C), Tail(sm.tx), putting) /\ C[2].word = sm.tx[1] /\ Len(C) >= 2
  <2>1. C \in Seq(Entry) /\ C # << >>
    BY <1>3 DEF Ledger
  <2> QED BY <1>0, <1>3, <1>4, <2>1, QueueTail
<1>6. /\ Ledger(Tail(C), n, sigma, results) /\ Tail(C)[1] = C[2]
      /\ C[1] \in Entry /\ C[2] \in Entry /\ Books(C[1], C[2])
  <2>1. /\ Ledger(Tail(C), n, sigma, results)
        /\ \A i \in 1 .. Len(C) - 1 : Tail(C)[i] = C[i + 1]
        /\ C[1] \in Entry /\ C[2] \in Entry /\ Books(C[1], C[2])
    BY <1>3, <1>5, LedgerTail
  <2>2. 1 \in 1 .. Len(C) - 1
    BY <1>3, <1>5 DEF Ledger
  <2>3. Tail(C)[1] = C[1 + 1] /\ 1 + 1 = 2
    BY <2>1, <2>2
  <2>4. Tail(C)[1] = C[2]
    BY <2>3, Zenon
  <2> QED BY <2>1, <2>4
<1> DEFINE w == C[2].word
           f == FIXED_FRAMES(w[1])
<1>7. w \in Plain \cup {HALT} /\ f \in Nat /\ C[1].sigma \in Residues /\ C[1].at \in Nat
  <2>1. C[2].word \in Plain \cup {HALT} /\ C[1].sigma \in Residues /\ C[1].at \in Nat
    BY <1>6 DEF Entry
  <2> QED BY <2>1, FramesType
<1>8. sm'.pc = 30
  <2>1. sm'.pc \in Targets(sm.pc)
    BY <1>0, Moves
  <2> QED BY <2>1, Followers
<1>9. sm'.tx = Tail(sm.tx)
  <2>1. lockstep_program(sm.pc).op = "pull"
    BY Kinds
  <2>2. sm'.tx = IF lockstep_program(sm.pc).op = "pull" THEN Tail(sm.tx) ELSE sm.tx
    BY <1>0, Moves
  <2> QED BY <2>1, <2>2
<1>10. sm'.osr = sm.tx[1]
  <2>1. sm'.osr = Head(sm.tx)
    BY <1>0, Effects
  <2> QED BY <2>1, <1>0
<1>11. sm'.y = sm.y /\ edges' = edges
  <2>1. sm.pc \notin Counting /\ sm.pc \notin Rising
    BY DEF Counting, Rising
  <2>2. sm'.y = IF sm.pc \in Counting THEN (sm.y + YModulus - 1) % YModulus ELSE sm.y
    BY <1>0, Effects
  <2>3. edges' = IF sm.pc \in Rising THEN (edges + 1) % YModulus ELSE edges
    BY <1>0, Effects
  <2> QED BY <2>1, <2>2, <2>3
<1>12. sm'.osr_count = 0
  BY <1>0, Effects
<1>13. sm'.isr_count = sm.isr_count /\ sm'.isr = sm.isr
  <2>1. sm'.isr_count = CASE sm.pc \in {1, 3} -> Least(32, sm.isr_count + 4)
                           [] sm.pc = 22 -> Least(32, sm.isr_count + 24)
                           [] sm.pc = 23 -> Least(32, sm.isr_count + 8)
                           [] sm.pc = 25 -> IF sm.isr_count < 32 THEN sm.isr_count ELSE 0
                           [] sm.pc \notin {1, 3, 22, 23, 25} -> sm.isr_count
    BY <1>0, Effects
  <2>2. sm.pc \notin {1, 3, 22, 23, 25} => sm'.isr = sm.isr
    BY <1>0, Effects
  <2> QED BY <2>1, <2>2
<1>14. sm'.rx = sm.rx
  <2>1. sm'.rx = IF sm.pc = 25 /\ ~(sm.isr_count < 32) /\ Len(sm.rx) < RxDepth
                 THEN Append(sm.rx, sm.isr) ELSE sm.rx
    BY <1>0, Effects
  <2> QED BY <2>1
<1>15. /\ sm.isr_count = 0 /\ sm.isr = << >> /\ sm.y \in Residues /\ edges \in Residues
       /\ Congruent(sm.y + edges + Rest, C[1].sigma)
  <2>1. Gathered /\ sm.y \in Residues /\ edges \in Residues
        /\ Congruent(sm.y + edges + Rest, C[1].sigma)
    BY <1>3 DEF At
  <2>2. sm.isr_count = 0
    BY <2>1 DEF Gathered
  <2>3. sm.isr = << >>
    BY <2>1, <2>2 DEF Gathered
  <2> QED BY <2>1, <2>2, <2>3
<1>16. Congruent(sm.y + edges + f, C[2].sigma)
  <2>1. Rest = 0 - 1
    BY DEF Rest
  <2>2. sm.y + edges \in Int /\ (sm.y + edges) + (0 - 1) = (sm.y + edges) - 1
    BY <1>15 DEF Residues
  <2>3. Congruent((sm.y + edges) - 1, C[1].sigma)
    BY <1>15, <2>1, <2>2
  <2>4. Congruent((sm.y + edges) + f, (C[1].sigma + 1 + f) % YModulus)
    BY <1>0, <1>7, <2>2, <2>3, CongruentBooked
  <2> QED BY <2>4, <1>6 DEF Books
<1>17. UNCHANGED <<results, putting, sigma>>
  BY DEF Booking
<1>18. At(C[2])'
  <2>1. Gathered'
    BY <1>8, <1>12, <1>13, <1>15 DEF Gathered
  <2>2. Serves(C[2].word)'
    BY <1>8, <1>10, <1>5, <1>13, <1>15 DEF Serves
  <2>3. Rest' = f
    BY <1>8, <1>10, <1>5 DEF Rest
  <2> HIDE DEF f
  <2>4. Congruent(sm'.y + edges' + Rest', C[2].sigma)
    BY <2>3, <1>11, <1>16
  <2> QED BY <2>1, <2>2, <2>4, <1>11, <1>15 DEF At
<1>19. Returned(C[2], n)'
  <2>1. n + Len(sm.rx) = C[1].at - 0
    <3>1. ~Unanswered(C[1].word)
      BY <1>15 DEF Unanswered
    <3>2. n + Len(sm.rx) = C[1].at - (IF Unanswered(C[1].word) THEN 1 ELSE 0)
      BY <1>3 DEF Returned
    <3> QED BY <3>1, <3>2
  <2>2. Unanswered(C[2].word)' <=> KindOf(w) # "none"
    BY <1>8 DEF Unanswered
  <2>3. C[2].at = C[1].at + One(w)
    BY <1>6 DEF Books
  <2>4. n + Len(sm'.rx) = C[2].at - (IF Unanswered(C[2].word)' THEN 1 ELSE 0)
    <3>1. CASE KindOf(w) = "none"
      BY <3>1, <2>1, <2>2, <2>3, <1>7, <1>14 DEF One
    <3>2. CASE KindOf(w) # "none"
      <4>1. C[2].at = C[1].at + 1
        BY <3>2, <2>3 DEF One
      <4> QED BY <3>2, <4>1, <2>1, <2>2, <1>7, <1>14
    <3> QED BY <3>1, <3>2
  <2>5. \E V : sm'.rx \in Seq(V)
    BY <1>3, <1>14 DEF Returned
  <2>6. \A j \in 1 .. Len(sm'.rx) : results'[j].kind = "stamp" => Stamps(sm'.rx[j], results'[j].sigma)
    BY <1>3, <1>14, <1>17 DEF Returned
  <2> QED BY <2>4, <2>5, <2>6 DEF Returned
<1>20. Queued' = Tail(sm.tx)
  <2>1. sm'.tx = << >> \/ sm'.tx[1] # Release
    <3>1. Tail(sm.tx) = << >> \/ (Tail(sm.tx)[1] = sm.tx[2] /\ 2 \in 1 .. Len(sm.tx))
      BY <1>0, SecondOf
    <3> QED BY <3>1, <1>2, <1>9
  <2> QED BY <2>1, <1>9 DEF Queued
<1>21. At(Tail(C)[1])' /\ Returned(Tail(C)[1], n)'
  BY <1>6, <1>18, <1>19
<1>22. Len(results') <= RxDepth
  BY <1>3, <1>17
<1> QED BY <1>3, <1>5, <1>6, <1>17, <1>20, <1>21, <1>22 DEF CountOf

LEMMA CycleCounts ==
  ASSUME LockstepAssumption, LockInv, Cycle, NEW C, NEW n, CountOf(C, n), UNCHANGED Booking
  PROVE  \E D : CountOf(D, n)'
<1>1. CASE sm.delay # 0 \/ Stalled(lockstep_program(sm.pc))
  BY <1>1, IdleCounts DEF LockInv
<1>2. CASE sm.delay = 0 /\ ~Stalled(lockstep_program(sm.pc)) /\ sm.pc \notin {25, 29}
  BY <1>2, MovesCounts
<1>3. CASE sm.delay = 0 /\ sm.pc = 25
  BY <1>3, PushStep
<1>4. CASE sm.delay = 0 /\ ~Stalled(lockstep_program(sm.pc)) /\ sm.pc = 29
  BY <1>4, PullCounts
<1> QED BY <1>1, <1>2, <1>3, <1>4

-----------------------------------------------------------------------------
(* The host: a result is taken from the front, and its stamp is exact.     *)
LEMMA ResultsBounded ==
  ASSUME NEW C, NEW n, NEW s, NEW r, Ledger(C, n, s, r), NEW i \in 1 .. Len(C)
  PROVE  C[i] \in Entry /\ C[i].at \in Nat /\ C[i].at <= n + Len(r)
<1>1. C \in Seq(Entry) /\ Len(C) \in Nat /\ Len(r) \in Nat /\ n \in Nat
      /\ C[Len(C)].at = n + Len(r)
  BY DEF Ledger
<1>2. C[i] \in Entry /\ C[i].at \in Nat
  <2>1. C[i] \in Entry
    BY <1>1
  <2> QED BY <2>1 DEF Entry
<1>3. CASE i = Len(C)
  BY <1>1, <1>2, <1>3
<1>4. CASE i < Len(C)
  <2>1. Len(C) \in 1 .. Len(C)
    BY <1>1
  <2>2. C[i].at + One(C[Len(C)].word) <= C[Len(C)].at
    BY <1>4, <2>1 DEF Ledger
  <2>3. One(C[Len(C)].word) \in Nat
    BY DEF One
  <2> QED BY <1>1, <1>2, <2>2, <2>3
<1>5. i = Len(C) \/ i < Len(C)
  BY <1>1
<1> QED BY <1>2, <1>3, <1>4, <1>5

LEMMA TakenPlace ==
  ASSUME NEW a \in Nat, NEW n \in Nat, NEW l \in Nat, a > n + 1, a <= n + l
  PROVE  a > n /\ a - (n + 1) \in 1 .. l - 1 /\ (a - (n + 1)) + 1 = a - n
OBVIOUS

LEMMA LedgerTaken ==
  ASSUME NEW C, NEW n, NEW s, NEW r, Ledger(C, n, s, r), r # << >>
  PROVE  Ledger(C, n + 1, s, Tail(r))
<1>1. /\ C \in Seq(Entry) /\ C # << >> /\ n \in Nat /\ s \in Residues /\ r \in Seq(Due)
      /\ C[Len(C)].sigma = s /\ C[Len(C)].at = n + Len(r)
      /\ \A i \in 1 .. Len(C) - 1 : Books(C[i], C[i + 1])
      /\ \A i, j \in 1 .. Len(C) : i < j => C[i].at + One(C[j].word) <= C[j].at
  BY DEF Ledger
<1>2. /\ Tail(r) \in Seq(Due) /\ Len(Tail(r)) = Len(r) - 1 /\ Len(r) \in Nat /\ Len(r) >= 1
      /\ \A k \in 1 .. Len(r) - 1 : Tail(r)[k] = r[k + 1]
  BY <1>1
<1>3. ASSUME NEW i \in 1 .. Len(C), KindOf(C[i].word) # "none", C[i].at > n + 1
      PROVE  Tail(r)[C[i].at - (n + 1)] = [kind |-> KindOf(C[i].word), sigma |-> C[i].sigma]
  <2>1. C[i].at \in Nat /\ C[i].at <= n + Len(r)
    BY ResultsBounded
  <2>2. C[i].at > n /\ C[i].at - (n + 1) \in 1 .. Len(r) - 1
        /\ (C[i].at - (n + 1)) + 1 = C[i].at - n
    BY <1>1, <1>2, <1>3, <2>1, TakenPlace
  <2>3. r[C[i].at - n] = [kind |-> KindOf(C[i].word), sigma |-> C[i].sigma]
    BY <1>3, <2>2 DEF Ledger
  <2>4. Tail(r)[C[i].at - (n + 1)] = r[(C[i].at - (n + 1)) + 1]
    BY <1>2, <2>2
  <2>5. Tail(r)[C[i].at - (n + 1)] = r[C[i].at - n]
    BY <2>2, <2>4
  <2> QED BY <2>3, <2>5
<1> DEFINE t == Tail(r)
<1>4. t \in Seq(Due) /\ n + 1 \in Nat /\ C[Len(C)].at = (n + 1) + Len(t)
  BY <1>1, <1>2
<1>5. ASSUME NEW i \in 1 .. Len(C), KindOf(C[i].word) # "none", C[i].at > n + 1
      PROVE  t[C[i].at - (n + 1)] = [kind |-> KindOf(C[i].word), sigma |-> C[i].sigma]
  BY <1>3, <1>5
<1> HIDE DEF t
<1>6. Ledger(C, n + 1, s, t)
  BY <1>1, <1>4, <1>5 DEF Ledger
<1> QED BY <1>6 DEF t

LEMMA MultipleBounds ==
  ASSUME NEW M \in Nat \ {0}, NEW k \in Int, NEW x \in Int, x = k * M, x < M + M, x > 0 - M
  PROVE  k = 0 \/ k = 1
OBVIOUS

LEMMA Wrapped ==
  ASSUME NEW M \in Nat \ {0}, NEW b \in 0 .. M - 1
  PROVE  (b % M) = b /\ ((b + M) % M) = b
OBVIOUS

(* What is missing from one residue to another.                            *)
LEMMA Difference ==
  ASSUME YModulus \in Nat \ {0}, NEW f \in Residues, NEW d \in Residues
  PROVE  LET delta == (f + YModulus - d) % YModulus IN
         delta \in Residues /\ ((d + delta) % YModulus) = f
<1> DEFINE e == IF f >= d THEN f - d ELSE f + YModulus - d
<1>1. f \in 0 .. YModulus - 1 /\ d \in 0 .. YModulus - 1
  BY DEF Residues
<1>2. e \in 0 .. YModulus - 1
  BY <1>1
<1>3. f + YModulus - d = e \/ f + YModulus - d = e + YModulus
  BY <1>1
<1>4. d + e = f \/ d + e = f + YModulus
  BY <1>1
<1> HIDE DEF e
<1>5. ((f + YModulus - d) % YModulus) = e
  BY <1>2, <1>3, Wrapped
<1>6. ((d + e) % YModulus) = f
  BY <1>1, <1>4, Wrapped
<1> QED BY <1>2, <1>5, <1>6 DEF Residues

LEMMA DividedBy ==
  ASSUME NEW M \in Nat \ {0}, NEW y \in Int
  PROVE  (y \div M) \in Int /\ (y % M) \in 0 .. M - 1 /\ y = M * (y \div M) + (y % M)
OBVIOUS

LEMMA RemainderOf ==
  ASSUME NEW M \in Nat \ {0}, NEW y \in Int, NEW k \in Int, NEW r \in 0 .. M - 1, y = k * M + r
  PROVE  (y % M) = r
OBVIOUS

(* A number of wraps more or less leaves the residue.                      *)
LEMMA MultiplesLeave ==
  ASSUME YModulus \in Nat \ {0}, NEW d \in Nat, NEW e \in Nat, NEW q \in Nat
  PROVE  ((d + (e + q * YModulus)) % YModulus) = ((d + e) % YModulus)
<1> DEFINE r == (d + e) % YModulus
           p == (d + e) \div YModulus
<1>0. YModulus \in Nat \ {0} /\ d + e \in Int
  OBVIOUS
<1>1. r \in 0 .. YModulus - 1 /\ p \in Int /\ d + e = YModulus * p + r
  BY <1>0, DividedBy
<1> HIDE DEF r, p
<1>2. d + (e + q * YModulus) = (p + q) * YModulus + r
  <2>1. (p + q) * YModulus = YModulus * p + q * YModulus
    BY <1>1
  <2>2. q * YModulus \in Int /\ YModulus * p \in Int
    BY <1>1
  <2> QED BY <1>1, <2>1, <2>2
<1>3. p + q \in Int /\ d + (e + q * YModulus) \in Int
  BY <1>1
<1>4. ((d + (e + q * YModulus)) % YModulus) = r
  BY <1>1, <1>2, <1>3, RemainderOf
<1> QED BY <1>4 DEF r

(* The counter and the edges tell the same frames, modulo YModulus.        *)
LEMMA StampFrames ==
  ASSUME YModulus \in Nat \ {0}, NEW s \in Residues, NEW value, Stamps(value, s)
  PROVE  /\ ByCounter(value) \in Residues
         /\ ByEdges([kind |-> "stamp", sigma |-> s], value) = ByCounter(value)
<1>1. PICK a \in Residues, b \in Residues : value = <<a, b>> /\ Congruent(a + b, s)
  BY DEF Stamps
<1>2. PICK k \in Int : a + b = s + k * YModulus
  BY <1>1 DEF Congruent
<1>3. a \in 0 .. YModulus - 1 /\ b \in 0 .. YModulus - 1 /\ s \in 0 .. YModulus - 1
  BY DEF Residues
<1> DEFINE x == k * YModulus
           f == IF a = 0 THEN 0 ELSE YModulus - a
<1>4. x \in Int /\ a + b = s + x
  BY <1>2
<1>5. k = 0 \/ k = 1
  <2>1. x = k * YModulus
    OBVIOUS
  <2> HIDE DEF x
  <2>2. x < YModulus + YModulus /\ x > 0 - YModulus
    BY <1>3, <1>4
  <2> QED BY <1>4, <2>1, <2>2, MultipleBounds
<1>6. x = 0 \/ x = YModulus
  BY <1>5
<1> HIDE DEF x
<1>7. f \in 0 .. YModulus - 1
  BY <1>3
<1>8. YModulus - a = f \/ YModulus - a = f + YModulus
  BY <1>3
<1>9. b + YModulus - s = f \/ b + YModulus - s = f + YModulus
  BY <1>3, <1>4, <1>6
<1> HIDE DEF f
<1>10. ((YModulus - a) % YModulus) = f /\ ((b + YModulus - s) % YModulus) = f
  <2>1. (f % YModulus) = f /\ ((f + YModulus) % YModulus) = f
    BY <1>7, Wrapped
  <2> QED BY <1>8, <1>9, <2>1
<1>11. value[1] = a /\ value[2] = b
  BY <1>1
<1> QED BY <1>7, <1>10, <1>11 DEF ByCounter, ByEdges, Residues

(* Two multiples less than YModulus apart are one.                         *)
LEMMA SameMultiple ==
  ASSUME NEW M \in Nat \ {0}, NEW k \in Int, NEW q \in Int,
         k * M < q * M + M, q * M < k * M + M
  PROVE  q * M = k * M
<1>1. (k - q) * M = k * M - q * M
  OBVIOUS
<1>2. k - q \in Int /\ (k - q) * M < M + M /\ (k - q) * M > 0 - M
  BY <1>1
<1>3. k - q = 0 \/ k - q = 1
  BY <1>2, MultipleBounds
<1>4. k - q # 1
  BY <1>1
<1> QED BY <1>3, <1>4

(* Bounds less than a wrap apart leave one number that agrees with Y.      *)
LEMMA Resolved ==
  ASSUME YModulus \in Nat \ {0}, NEW delta \in Residues, NEW wraps \in Nat, NEW low \in Int,
         low <= delta + wraps * YModulus, delta + wraps * YModulus < low + YModulus
  PROVE  Resolve(delta, low) = delta + wraps * YModulus
<1> DEFINE x == wraps * YModulus
<1>1. x \in Nat /\ delta \in 0 .. YModulus - 1 /\ low <= delta + x /\ delta + x < low + YModulus
  BY DEF Residues
<1>2. CASE delta >= low
  <2>1. Resolve(delta, low) = delta
    BY <1>2 DEF Resolve
  <2>2. delta + x < low + YModulus
    BY <1>1
  <2>3. wraps * YModulus < 0 * YModulus + YModulus => wraps = 0
    OBVIOUS
  <2> QED BY <1>1, <1>2, <2>1, <2>3
<1>3. CASE delta < low
  <2> DEFINE y == low - delta + YModulus - 1
             q == y \div YModulus
             z == q * YModulus
  <2>1. y \in Int /\ q \in Int /\ z \in Int /\ z <= y /\ y < z + YModulus
    <3>1. y \in Int
      BY <1>1
    <3> HIDE DEF y
    <3>2. q \in Int /\ (y % YModulus) \in 0 .. YModulus - 1 /\ y = YModulus * q + (y % YModulus)
      BY <3>1, DividedBy
    <3> HIDE DEF q
    <3>3. YModulus * q = z /\ z \in Int
      BY <3>2
    <3> QED BY <3>1, <3>2, <3>3
  <2>2. Resolve(delta, low) = delta + YModulus * q
    BY <1>1, <1>3 DEF Resolve
  <2>3. y = low - delta + YModulus - 1
    OBVIOUS
  <2>4. YModulus * q = z
    BY <2>1
  <2> HIDE DEF y, q
  <2>5. z < x + YModulus /\ x < z + YModulus
    <3> HIDE DEF x, z
    <3> QED BY <1>1, <2>1, <2>3
  <2>6. z = x
    BY <2>1, <2>5, SameMultiple
  <2> QED BY <2>2, <2>4, <2>6
<1> QED BY <1>1, <1>2, <1>3 DEF Residues

(* A stamp is counted as it was: any wraps since the last one included, if *)
(* the count is still exact.                                               *)
LEMMA StampKeeps ==
  ASSUME LockstepAssumption, Agree, NEW s \in Residues, NEW value, Stamps(value, s),
         _stamp([kind |-> "stamp", sigma |-> s], value)
  PROVE  Agree'
<1> DEFINE entry == [kind |-> "stamp", sigma |-> s]
           f == ByCounter(value)
           delta == (f + YModulus - _d) % YModulus
<1>1. YModulus \in Nat \ {0} /\ MaxWraps \in Nat /\ Slack \in Nat
  BY DEF LockstepAssumption
<1>2. f \in Residues /\ ByEdges(entry, value) = f
  BY <1>1, StampFrames
<1> HIDE DEF f, entry
<1>3. _d \in Residues /\ idled = _d /\ drift = 0
  BY DEF Agree
<1>4. PICK wraps \in 0 .. MaxWraps, early \in 0 .. Slack, late \in 0 .. Slack :
        LET frames == delta + wraps * YModulus
            low == frames - early
            high == frames + late
            counted == IF _last_stamp THEN Resolve(delta, low) ELSE delta IN
        /\ _d' = (_d + counted) % YModulus
        /\ count_exact' = (count_exact /\ (_last_stamp => high - low < YModulus))
        /\ idled' = f
        /\ drift' = IF _last_stamp /\ count_exact' THEN drift + counted - frames ELSE drift
  BY <1>2, <1>3 DEF _stamp, entry, f
<1> DEFINE frames == delta + wraps * YModulus
           low == frames - early
           high == frames + late
           counted == IF _last_stamp THEN Resolve(delta, low) ELSE delta
<1>5. delta \in Residues /\ ((_d + delta) % YModulus) = f
  BY <1>1, <1>2, <1>3, Difference
<1> HIDE DEF delta
<1>6. wraps \in Nat /\ early \in Nat /\ late \in Nat
  BY <1>1
<1>7. \E q \in Nat : counted = delta + q * YModulus
  <2>1. CASE ~_last_stamp \/ delta >= low
    <3>1. counted = delta
      BY <2>1 DEF Resolve
    <3>2. delta = delta + 0 * YModulus
      BY <1>1, <1>5 DEF Residues
    <3> QED BY <3>1, <3>2
  <2>2. CASE _last_stamp /\ ~(delta >= low)
    <3> DEFINE q == (low - delta + YModulus - 1) \div YModulus
    <3>1. counted = delta + YModulus * q
      BY <2>2 DEF Resolve
    <3>2. low - delta + YModulus - 1 \in Nat
      BY <1>1, <1>5, <1>6, <2>2 DEF Residues
    <3>3. q \in Nat
      BY <1>1, <3>2
    <3>4. YModulus * q = q * YModulus
      BY <1>1, <3>3
    <3> QED BY <3>1, <3>3, <3>4
  <2> QED BY <2>1, <2>2
<1>8. _d' = f
  <2>1. PICK q \in Nat : counted = delta + q * YModulus
    BY <1>7
  <2>2. ((_d + (delta + q * YModulus)) % YModulus) = ((_d + delta) % YModulus)
    <3>1. _d \in Nat /\ delta \in Nat
      BY <1>1, <1>3, <1>5 DEF Residues
    <3> QED BY <1>1, <3>1, MultiplesLeave
  <2> QED BY <1>4, <1>5, <2>1, <2>2
<1>9. drift' = 0
  <2>1. CASE ~(_last_stamp /\ count_exact')
    BY <1>3, <1>4, <2>1
  <2>2. CASE _last_stamp /\ count_exact'
    <3>1. high - low < YModulus
      BY <1>4, <2>2
    <3>2. frames \in Int /\ low \in Int /\ low <= frames /\ frames < low + YModulus
      <4>1. frames \in Int
        BY <1>1, <1>5, <1>6 DEF Residues
      <4> HIDE DEF frames
      <4> QED BY <1>1, <1>6, <3>1, <4>1
    <3>3. Resolve(delta, low) = frames
      BY <1>1, <1>5, <1>6, <3>2, Resolved
    <3>4. drift' = 0 + frames - frames
      BY <1>3, <1>4, <2>2, <3>3
    <3> HIDE DEF frames
    <3> QED BY <3>2, <3>4
  <2> QED BY <2>1, <2>2
<1> QED BY <1>2, <1>4, <1>8, <1>9 DEF Agree

LEMMA TailFacts ==
  ASSUME NEW S, NEW q \in Seq(S), q # << >>
  PROVE  /\ Len(q) \in Nat /\ Len(q) >= 1 /\ Tail(q) \in Seq(S) /\ Len(Tail(q)) = Len(q) - 1
         /\ Head(q) = q[1] /\ q[1] \in S /\ \A j \in 1 .. Len(q) - 1 : Tail(q)[j] = q[j + 1]
OBVIOUS

LEMMA Below ==
  ASSUME NEW a \in Nat, NEW b \in Nat, NEW c \in Nat, NEW d \in Nat, a + b <= c, c <= a + d
  PROVE  b <= d
OBVIOUS

(* Steps that leave the program, its FIFOs and what is booked as they are. *)
LEMMA QuietCounts ==
  ASSUME CountInv, UNCHANGED <<sm, edges, results, putting, sigma, Accounts>>
  PROVE  CountInv'
<1>1. PICK C, n : CountOf(C, n)
  BY DEF CountInv
<1>2. At(C[1])' /\ (Unanswered(C[1].word)' <=> Unanswered(C[1].word))
  BY <1>1, SamePlace DEF CountOf
<1>3. CountOf(C, n)'
  BY <1>1, <1>2, QueuedKept, SameCount DEF Booking
<1> QED BY <1>3 DEF CountInv, Agree, Accounts

LEMMA AtMost == ASSUME NEW a \in Nat PROVE a - 1 <= a /\ a - 0 <= a
OBVIOUS

LEMMA RxWithin ==
  ASSUME NEW C, NEW n, CountOf(C, n) PROVE Len(sm.rx) \in Nat /\ Len(sm.rx) <= Len(results)
<1>1. Ledger(C, n, sigma, results) /\ Returned(C[1], n)
  BY DEF CountOf
<1>2. /\ Len(results) \in Nat /\ n \in Nat /\ C[1].at \in Nat /\ C[1].at <= n + Len(results)
  BY <1>1, LedgerBounds
<1>3. Len(sm.rx) \in Nat
  <2>1. PICK V : sm.rx \in Seq(V)
    BY <1>1 DEF Returned
  <2> QED BY <2>1
<1>4. n + Len(sm.rx) <= C[1].at
  <2>1. n + Len(sm.rx) = C[1].at - (IF Unanswered(C[1].word) THEN 1 ELSE 0)
    BY <1>1 DEF Returned
  <2>2. n + Len(sm.rx) = C[1].at - 1 \/ n + Len(sm.rx) = C[1].at - 0
    BY <2>1
  <2>3. C[1].at - 1 <= C[1].at /\ C[1].at - 0 <= C[1].at
    BY <1>2, AtMost
  <2> QED BY <2>2, <2>3
<1> QED BY <1>2, <1>3, <1>4, Below

LEMMA Balanced == ASSUME NEW a \in Nat, NEW b \in Nat PROVE (a + 1) + (b - 1) = a + b
OBVIOUS

LEMMA CollectCounts ==
  ASSUME LockstepAssumption, LockInv, CountInv, Collect PROVE CountInv'
<1>1. PICK C, n : CountOf(C, n)
  BY DEF CountInv
<1>2. /\ results # << >> /\ sm.rx # << >> /\ sm' = [sm EXCEPT !.rx = Tail(@)]
      /\ results' = Tail(results)
      /\ IF Head(results).kind = "stamp" THEN _stamp(Head(results), Head(sm.rx))
         ELSE UNCHANGED stampVars
      /\ UNCHANGED <<edges, putting, sigma>>
  BY DEF Collect, _collect_one, RxReady
<1>3. /\ sm'.pc = sm.pc /\ sm'.y = sm.y /\ sm'.isr = sm.isr /\ sm'.osr = sm.osr
      /\ sm'.isr_count = sm.isr_count /\ sm'.osr_count = sm.osr_count
      /\ sm'.tx = sm.tx /\ sm'.rx = Tail(sm.rx)
  BY <1>2 DEF LockInv, MachineInv, SmShape
<1>4. /\ Ledger(C, n, sigma, results) /\ Waiting(C, Queued, putting) /\ At(C[1])
      /\ Returned(C[1], n) /\ Len(results) <= RxDepth
  BY <1>1 DEF CountOf
<1>5. Ledger(C, n + 1, sigma, Tail(results))
  BY <1>2, <1>4, LedgerTaken
<1>6. At(C[1])' /\ (Unanswered(C[1].word)' <=> Unanswered(C[1].word)) /\ Queued' = Queued
  BY <1>2, <1>3, <1>4, SamePlace, QueuedKept
<1>7. results \in Seq(Due) /\ Len(results) \in Nat /\ n \in Nat /\ C[1].at \in Nat
  BY <1>4, LedgerBounds DEF Ledger
<1>8. PICK V : sm.rx \in Seq(V)
  BY <1>4 DEF Returned
<1>9. /\ n + Len(sm.rx) = C[1].at - (IF Unanswered(C[1].word) THEN 1 ELSE 0)
      /\ \A j \in 1 .. Len(sm.rx) : results[j].kind = "stamp" => Stamps(sm.rx[j], results[j].sigma)
  BY <1>4 DEF Returned
<1>10. /\ Len(sm.rx) \in Nat /\ Len(sm.rx) >= 1 /\ Tail(sm.rx) \in Seq(V)
       /\ Len(Tail(sm.rx)) = Len(sm.rx) - 1 /\ Head(sm.rx) = sm.rx[1]
       /\ \A j \in 1 .. Len(sm.rx) - 1 : Tail(sm.rx)[j] = sm.rx[j + 1]
  BY <1>2, <1>8, TailFacts
<1>11. /\ Len(results) >= 1 /\ Len(Tail(results)) = Len(results) - 1
       /\ Head(results) = results[1] /\ results[1] \in Due
       /\ \A j \in 1 .. Len(results) - 1 : Tail(results)[j] = results[j + 1]
  BY <1>2, <1>7, TailFacts
<1>12. Len(sm.rx) <= Len(results)
  BY <1>1, RxWithin
<1>13. ASSUME NEW j \in 1 .. Len(sm'.rx), Tail(results)[j].kind = "stamp"
       PROVE  Stamps(sm'.rx[j], Tail(results)[j].sigma)
  <2>1. j \in 1 .. Len(sm.rx) - 1 /\ j \in 1 .. Len(results) - 1 /\ j + 1 \in 1 .. Len(sm.rx)
    BY <1>3, <1>7, <1>10, <1>11, <1>12
  <2>2. Tail(sm.rx)[j] = sm.rx[j + 1] /\ Tail(results)[j] = results[j + 1]
    BY <2>1, <1>10, <1>11
  <2> QED BY <2>1, <2>2, <1>3, <1>9, <1>13
<1>14. Returned(C[1], n + 1)'
  <2>1. (n + 1) + Len(sm'.rx) = n + Len(sm.rx)
    <3>1. (n + 1) + (Len(sm.rx) - 1) = n + Len(sm.rx)
      BY <1>7, <1>10, Balanced
    <3>2. Len(sm'.rx) = Len(sm.rx) - 1
      BY <1>3, <1>10
    <3> QED BY <3>1, <3>2
  <2>2. (n + 1) + Len(sm'.rx) = C[1].at - (IF Unanswered(C[1].word)' THEN 1 ELSE 0)
    BY <2>1, <1>6, <1>9
  <2>3. sm'.rx \in Seq(V)
    BY <1>3, <1>10
  <2> QED BY <2>2, <2>3, <1>2, <1>13 DEF Returned
<1>15. Len(results') <= RxDepth
  BY <1>2, <1>4, <1>7, <1>11 DEF RxDepth
<1>16. CountOf(C, n + 1)'
  BY <1>2, <1>4, <1>5, <1>6, <1>14, <1>15 DEF CountOf
<1>17. Agree'
  <2>1. CASE Head(results).kind = "stamp"
    <3>1. 1 \in 1 .. Len(sm.rx) /\ results[1].kind = "stamp"
      BY <2>1, <1>10, <1>11
    <3>2. Stamps(sm.rx[1], results[1].sigma)
      BY <3>1, <1>9
    <3>3. results[1].sigma \in Residues /\ results[1] = [kind |-> "stamp", sigma |-> results[1].sigma]
      BY <3>1, <1>11 DEF Due
    <3>4. _stamp(results[1], sm.rx[1])
      BY <2>1, <1>2, <1>10, <1>11
    <3>5. Agree
      BY DEF CountInv
    <3> QED BY <3>2, <3>3, <3>4, <3>5, StampKeeps
  <2>2. CASE Head(results).kind # "stamp"
    BY <2>2, <1>2 DEF CountInv, Agree, stampVars
  <2> QED BY <2>1, <2>2
<1> QED BY <1>16, <1>17 DEF CountInv

(* A chunk is booked operation by operation, each an entry more.           *)
Bookings(f, ops, n, a) == f = [k \in 0 .. n |-> IF k = 0 THEN a ELSE Booked(f[k - 1], ops[k])]

LEMMA BookingsExist == \A ops, a : \A n \in Nat : \E f : Bookings(f, ops, n, a)
<1> SUFFICES ASSUME NEW ops, NEW a PROVE \A n \in Nat : \E f : Bookings(f, ops, n, a)
  OBVIOUS
<1> DEFINE S == {n \in Nat : \E f : Bookings(f, ops, n, a)}
<1>1. 0 \in S
  <2>1. Bookings([k \in 0 .. 0 |-> a], ops, 0, a)
    BY DEF Bookings
  <2> QED BY <2>1
<1>2. ASSUME NEW n \in Nat, n \in S PROVE n + 1 \in S
  <2>1. PICK f : Bookings(f, ops, n, a)
    BY <1>2
  <2> DEFINE g == [k \in 0 .. n + 1 |-> IF k = 0 THEN a ELSE Booked(f[k - 1], ops[k])]
  <2>2. \A k \in 0 .. n : f[k] = g[k]
    BY <2>1, n \in Nat DEF Bookings
  <2>3. \A k \in 0 .. n + 1 : k # 0 => k - 1 \in 0 .. n /\ g[k] = Booked(g[k - 1], ops[k])
    <3> SUFFICES ASSUME NEW k \in 0 .. n + 1, k # 0
                 PROVE  k - 1 \in 0 .. n /\ g[k] = Booked(g[k - 1], ops[k])
      OBVIOUS
    <3>1. k - 1 \in 0 .. n
      OBVIOUS
    <3>2. g[k] = Booked(f[k - 1], ops[k])
      OBVIOUS
    <3> HIDE DEF g
    <3> QED BY <3>1, <3>2, <2>2
  <2>4. g = [k \in 0 .. n + 1 |-> g[k]] /\ g[0] = a
    OBVIOUS
  <2> HIDE DEF g
  <2>5. Bookings(g, ops, n + 1, a)
    BY <2>3, <2>4 DEF Bookings
  <2> QED BY <2>5
<1> HIDE DEF S
<1>3. Nat \subseteq S
  BY <1>1, <1>2, NatSetInduction
<1> QED BY <1>3 DEF S

LEMMA AddedBelow ==
  ASSUME NEW a \in Nat, NEW b \in Nat, NEW c \in Nat, NEW d \in Nat, a <= b + c
  PROVE  a + d <= b + c + d
OBVIOUS

LEMMA Lifted ==
  ASSUME NEW a, NEW n \in Nat, NEW l \in Nat, a = n + l + 1 PROVE a - n = l + 1
OBVIOUS

LEMMA Between ==
  ASSUME NEW a \in Nat, NEW n \in Nat, NEW l \in Nat, a <= n + l, a > n PROVE a - n \in 1 .. l
OBVIOUS

Bookable(op) ==
  /\ op.word \in Plain \cup {HALT} /\ op.kind = KindOf(op.word)
  /\ op.kind \in {"none", "stamp", "data"}
NewEntry(C, a, op) ==
  [word |-> op.word, sigma |-> Booked(a, op).sigma, at |-> C[Len(C)].at + One(op.word)]

SamePart(r, q) == \A j \in 1 .. Len(r) : q[j] = r[j]

LEMMA LedgerBooked ==
  ASSUME YModulus \in Nat \ {0}, NEW C, NEW n, NEW a, Ledger(C, n, a.sigma, a.results),
         NEW op, Bookable(op)
  PROVE  /\ Ledger(Append(C, NewEntry(C, a, op)), n, Booked(a, op).sigma, Booked(a, op).results)
         /\ Len(Booked(a, op).results) >= Len(a.results)
         /\ SamePart(a.results, Booked(a, op).results)
<1> DEFINE r == a.results
           q == Booked(a, op).results
           total == (a.sigma + 1 + FIXED_FRAMES(op.word[1])) % YModulus
           m == Len(C)
           e == NewEntry(C, a, op)
           D == Append(C, e)
<1>0. /\ op.word \in Plain \cup {HALT} /\ op.kind = KindOf(op.word)
      /\ op.kind \in {"none", "stamp", "data"}
  BY DEF Bookable
<1>1. /\ C \in Seq(Entry) /\ n \in Nat /\ a.sigma \in Residues /\ r \in Seq(Due)
      /\ m \in Nat /\ m >= 1 /\ C[m].sigma = a.sigma /\ C[m].at = n + Len(r)
      /\ \A i \in 1 .. m - 1 : Books(C[i], C[i + 1])
      /\ \A i, j \in 1 .. m : i < j => C[i].at + One(C[j].word) <= C[j].at
      /\ Len(r) \in Nat
  <2>1. m \in Nat /\ m >= 1 /\ Len(r) \in Nat
    BY LedgerBounds
  <2> HIDE DEF e, D, q, total
  <2> QED BY <2>1 DEF Ledger
<1>2. \A i \in 1 .. m : C[i].at \in Nat /\ C[i].at <= n + Len(r)
  BY ResultsBounded
<1>3. total \in Residues
  <2>1. FIXED_FRAMES(op.word[1]) \in Nat
    BY <1>0, FramesType
  <2>2. a.sigma + 1 + FIXED_FRAMES(op.word[1]) \in Nat
    BY <1>1, <2>1 DEF Residues
  <2> QED BY <2>2, Remainder DEF Residues
<1>4. /\ Booked(a, op).sigma = total
      /\ q = IF op.kind = "none" THEN r ELSE Append(r, [kind |-> op.kind, sigma |-> total])
  BY DEF Booked
<1>5. e.word = op.word /\ e.sigma = total /\ e.at = n + Len(r) + One(op.word) /\ e \in Entry
  <2>1. One(op.word) \in {0, 1}
    BY DEF One
  <2>2. n + Len(r) + One(op.word) \in Nat
    BY <1>1, <2>1
  <2>3. e = [word |-> op.word, sigma |-> total, at |-> n + Len(r) + One(op.word)]
    BY <1>1, <1>4 DEF NewEntry
  <2> HIDE DEF total, r, e
  <2> QED BY <2>2, <2>3, <1>0, <1>3 DEF Entry
<1>6. /\ q \in Seq(Due) /\ Len(q) = Len(r) + One(op.word)
      /\ \A j \in 1 .. Len(r) : q[j] = r[j]
      /\ op.kind # "none" => q[Len(r) + 1] = [kind |-> op.kind, sigma |-> total]
  <2> DEFINE due == [kind |-> op.kind, sigma |-> total]
  <2>1. CASE op.kind = "none"
    <3>1. One(op.word) = 0 /\ q = r
      BY <2>1, <1>0, <1>4 DEF One
    <3> HIDE DEF q, r, total
    <3> QED BY <2>1, <3>1, <1>1
  <2>2. CASE op.kind # "none"
    <3>1. One(op.word) = 1 /\ q = Append(r, due)
      BY <2>2, <1>0, <1>4 DEF One
    <3>2. due \in Due
      BY <2>2, <1>0, <1>3 DEF Due
    <3> HIDE DEF q, r, due
    <3>3. /\ Append(r, due) \in Seq(Due) /\ Len(Append(r, due)) = Len(r) + 1
          /\ Append(r, due)[Len(r) + 1] = due
          /\ \A j \in 1 .. Len(r) : Append(r, due)[j] = r[j]
      BY <1>1, <3>2, WordAppended
    <3>4. q[Len(r) + 1] = due
      BY <3>1, <3>3
    <3> QED BY <3>1, <3>3, <3>4 DEF due
  <2> QED BY <2>1, <2>2
<1>7. /\ D \in Seq(Entry) /\ D # << >> /\ Len(D) = m + 1 /\ D[m + 1] = e
      /\ \A i \in 1 .. m : D[i] = C[i]
  BY <1>1, <1>5, WordAppended
<1> HIDE DEF r, q, total, m, D, e
<1>8. ASSUME NEW i \in 1 .. Len(D) - 1 PROVE Books(D[i], D[i + 1])
  <2>1. CASE i = m
    <3>1. D[i] = C[m] /\ D[i + 1] = e
      BY <2>1, <1>1, <1>7
    <3>2. e.sigma = (C[m].sigma + 1 + FIXED_FRAMES(e.word[1])) % YModulus
      BY <1>1, <1>5 DEF total
    <3>3. e.at = C[m].at + One(e.word)
      BY <1>1, <1>5
    <3> QED BY <3>1, <3>2, <3>3 DEF Books
  <2>2. CASE i # m
    <3>1. i \in 1 .. m - 1 /\ i \in 1 .. m /\ i + 1 \in 1 .. m
      BY <2>2, <1>1, <1>7
    <3> QED BY <3>1, <1>1, <1>7
  <2> QED BY <2>1, <2>2
<1>9. ASSUME NEW i \in 1 .. Len(D), NEW j \in 1 .. Len(D), i < j
      PROVE  D[i].at + One(D[j].word) <= D[j].at
  <2>1. i \in 1 .. m /\ D[i] = C[i]
    BY <1>1, <1>7, <1>9
  <2>2. CASE j = m + 1
    <3>1. D[j] = e /\ C[i].at <= n + Len(r) /\ C[i].at \in Nat /\ e.at = n + Len(r) + One(e.word)
      BY <2>1, <2>2, <1>2, <1>5, <1>7
    <3>2. One(e.word) \in Nat
      BY DEF One
    <3>3. C[i].at + One(e.word) <= n + Len(r) + One(e.word)
      BY <3>1, <3>2, <1>1, AddedBelow
    <3> QED BY <2>1, <3>1, <3>3
  <2>3. CASE j # m + 1
    <3>1. j \in 1 .. m
      BY <2>3, <1>1, <1>7
    <3> QED BY <3>1, <2>1, <1>1, <1>7, <1>9
  <2> QED BY <2>2, <2>3
<1>10. ASSUME NEW i \in 1 .. Len(D), KindOf(D[i].word) # "none", D[i].at > n
       PROVE  q[D[i].at - n] = [kind |-> KindOf(D[i].word), sigma |-> D[i].sigma]
  <2>1. CASE i = m + 1
    <3>1. D[i] = e /\ op.kind # "none" /\ One(op.word) = 1
      BY <2>1, <1>0, <1>5, <1>7, <1>10 DEF One
    <3>2. e.at - n = Len(r) + 1
      BY <3>1, <1>1, <1>5, Lifted
    <3> QED BY <3>1, <3>2, <1>0, <1>5, <1>6
  <2>2. CASE i # m + 1
    <3>1. i \in 1 .. m /\ D[i] = C[i]
      BY <2>2, <1>1, <1>7
    <3>2. C[i].at \in Nat /\ C[i].at <= n + Len(r) /\ C[i].at > n
      BY <3>1, <1>2, <1>10
    <3>3. C[i].at - n \in 1 .. Len(r)
      BY <3>2, <1>1, Between
    <3>4. r[C[i].at - n] = [kind |-> KindOf(C[i].word), sigma |-> C[i].sigma]
      BY <3>1, <1>10 DEF Ledger, m, r
    <3> QED BY <3>1, <3>3, <3>4, <1>6
  <2> QED BY <2>1, <2>2
<1>11. D[Len(D)].sigma = total /\ D[Len(D)].at = n + Len(q)
  <2>1. D[Len(D)] = e /\ One(op.word) \in Nat
    BY <1>7 DEF One
  <2>2. n + Len(r) + One(op.word) = n + (Len(r) + One(op.word))
    BY <2>1, <1>1
  <2> QED BY <2>1, <2>2, <1>5, <1>6
<1>12. Ledger(D, n, total, q)
  BY <1>1, <1>3, <1>6, <1>7, <1>8, <1>9, <1>10, <1>11 DEF Ledger
<1>13. Len(q) >= Len(r)
  <2>1. One(op.word) \in Nat
    BY DEF One
  <2> QED BY <2>1, <1>1, <1>6
<1> QED BY <1>4, <1>6, <1>12, <1>13 DEF D, e, q, r, SamePart

(* The ledger after the first k operations of the chunk.                   *)
Extended(C, n, ops, k, a) ==
  \E D : /\ Ledger(D, n, a.sigma, a.results) /\ Len(D) = Len(C) + k
         /\ \A i \in 1 .. Len(C) : D[i] = C[i]
         /\ \A i \in 1 .. k : D[Len(C) + i].word = ops[i].word
         /\ Len(a.results) >= Len(results) /\ \A j \in 1 .. Len(results) : a.results[j] = results[j]

LEMMA ExtendedStep ==
  ASSUME YModulus \in Nat \ {0}, NEW C, NEW n, NEW ops, NEW k \in Nat, NEW a,
         Len(C) \in Nat, Len(results) \in Nat, Extended(C, n, ops, k, a),
         NEW op, op = ops[k + 1], Bookable(op)
  PROVE  Extended(C, n, ops, k + 1, Booked(a, op))
<1>1. PICK D : /\ Ledger(D, n, a.sigma, a.results) /\ Len(D) = Len(C) + k
               /\ \A i \in 1 .. Len(C) : D[i] = C[i]
               /\ \A i \in 1 .. k : D[Len(C) + i].word = ops[i].word
               /\ Len(a.results) >= Len(results)
               /\ \A j \in 1 .. Len(results) : a.results[j] = results[j]
  BY DEF Extended
<1> DEFINE e == NewEntry(D, a, op)
           E == Append(D, e)
           b == Booked(a, op)
<1>2. /\ Ledger(E, n, b.sigma, b.results) /\ Len(b.results) >= Len(a.results)
      /\ \A j \in 1 .. Len(a.results) : b.results[j] = a.results[j]
  <2>1. Ledger(D, n, a.sigma, a.results)
    BY <1>1
  <2>2. Ledger(Append(D, NewEntry(D, a, op)), n, Booked(a, op).sigma, Booked(a, op).results)
    BY <2>1, LedgerBooked
  <2>3. Len(Booked(a, op).results) >= Len(a.results)
    BY <2>1, LedgerBooked
  <2>4. \A j \in 1 .. Len(a.results) : Booked(a, op).results[j] = a.results[j]
    <3>1. SamePart(a.results, Booked(a, op).results)
      BY <2>1, LedgerBooked
    <3> QED BY <3>1 DEF SamePart
  <2> QED BY <2>2, <2>3, <2>4
<1>3. Len(a.results) \in Nat /\ Len(b.results) \in Nat
  BY <1>1, <1>2, LedgerBounds
<1>4. D \in Seq(Entry) /\ e.word = op.word
  BY <1>1 DEF Ledger, NewEntry
<1> HIDE DEF e, b
<1>5. Len(E) = Len(D) + 1 /\ E[Len(D) + 1] = e /\ \A i \in 1 .. Len(D) : E[i] = D[i]
  BY <1>4, Pushed
<1> HIDE DEF E
<1>6. Len(E) = Len(C) + (k + 1)
  BY <1>1, <1>5
<1>7. ASSUME NEW i \in 1 .. Len(C) PROVE E[i] = C[i]
  <2>1. i \in 1 .. Len(D)
    BY <1>1
  <2> QED BY <2>1, <1>1, <1>5
<1>8. ASSUME NEW i \in 1 .. k + 1 PROVE E[Len(C) + i].word = ops[i].word
  <2>1. CASE i = k + 1
    <3>1. Len(C) + i = Len(D) + 1
      BY <2>1, <1>1
    <3> QED BY <2>1, <3>1, <1>4, <1>5
  <2>2. CASE i # k + 1
    <3>1. i \in 1 .. k /\ Len(C) + i \in 1 .. Len(D)
      BY <2>2, <1>1
    <3> QED BY <3>1, <1>1, <1>5
  <2> QED BY <2>1, <2>2
<1>9. Len(b.results) >= Len(results)
  BY <1>1, <1>2, <1>3
<1>10. ASSUME NEW j \in 1 .. Len(results) PROVE b.results[j] = results[j]
  <2>1. j \in 1 .. Len(a.results)
    BY <1>1, <1>3
  <2> QED BY <2>1, <1>1, <1>2
<1>11. Extended(C, n, ops, k + 1, b)
  BY <1>2, <1>6, <1>7, <1>8, <1>9, <1>10 DEF Extended
<1> QED BY <1>11 DEF b

LEMMA AccountExtended ==
  ASSUME YModulus \in Nat \ {0}, NEW C, NEW n, NEW ops, Ledger(C, n, sigma, results),
         Len(ops) \in Nat,
         \A i \in 1 .. Len(ops) : Bookable(ops[i])
  PROVE  Extended(C, n, ops, Len(ops), Account(ops))
<1> DEFINE a0 == [sigma |-> sigma, results |-> results]
           f == CHOOSE g : Bookings(g, ops, Len(ops), a0)
<1>1. Account(ops) = f[Len(ops)]
  BY DEF Account, Bookings
<1>2. Len(C) \in Nat /\ Len(results) \in Nat /\ a0.sigma = sigma /\ a0.results = results
  BY LedgerBounds
<1> HIDE DEF a0
<1>3. Bookings(f, ops, Len(ops), a0)
  BY BookingsExist
<1> HIDE DEF f
<1> DEFINE T == {k \in Nat : k <= Len(ops) => Extended(C, n, ops, k, f[k])}
<1>4. 0 \in T
  <2>1. f[0] = a0
    BY <1>3 DEF Bookings
  <2>2. Extended(C, n, ops, 0, a0)
    <3>1. Len(C) = Len(C) + 0 /\ Len(results) >= Len(results)
      BY <1>2
    <3> QED BY <3>1, <1>2 DEF Extended
  <2> QED BY <2>1, <2>2
<1>5. ASSUME NEW k \in Nat, k \in T PROVE k + 1 \in T
  <2> SUFFICES ASSUME k + 1 <= Len(ops) PROVE Extended(C, n, ops, k + 1, f[k + 1])
    OBVIOUS
  <2>1. Extended(C, n, ops, k, f[k]) /\ k + 1 \in 1 .. Len(ops)
    BY <1>5
  <2>2. f[k + 1] = Booked(f[k], ops[k + 1])
    <3>1. k + 1 \in 0 .. Len(ops) /\ k + 1 # 0 /\ (k + 1) - 1 = k
      BY <2>1
    <3> QED BY <3>1, <1>3 DEF Bookings
  <2> QED BY <2>1, <2>2, <1>2, ExtendedStep
<1> HIDE DEF T
<1>6. Nat \subseteq T
  BY <1>4, <1>5, NatSetInduction
<1>7. Extended(C, n, ops, Len(ops), f[Len(ops)])
  BY <1>6 DEF T
<1> QED BY <1>1, <1>7

LEMMA SubmitCounts ==
  ASSUME LockstepAssumption, LockInv, CountInv, SubmitChunk PROVE CountInv'
<1> DEFINE ops == Head(todo).ops
<1>1. PICK C, n : CountOf(C, n)
  BY DEF CountInv
<1>2. /\ Doing("submit") /\ ~Collects /\ putting' = ops /\ sigma' = Account(ops).sigma
      /\ results' = Account(ops).results /\ UNCHANGED <<sm, edges, Accounts>>
  BY DEF SubmitChunk, Step, pioVars, stampVars, Accounts
<1>3. putting = << >> /\ Head(todo) \in StepSet
  BY <1>2, DoingFacts
<1>4. ops \in Seq(Operations) \/ ops = <<OP_HALT>>
  BY <1>3 DEF StepSet
<1>5. Len(ops) \in Nat /\ \A i \in 1 .. Len(ops) : Bookable(ops[i])
  <2> HIDE DEF ops
  <2>1. CASE ops \in Seq(Operations)
    BY <2>1 DEF Operations, Bookable
  <2>2. CASE ops = <<OP_HALT>>
    <3>1. OP_HALT.word = HALT /\ OP_HALT.kind = "stamp"
      BY DEF OP_HALT, HALT
    <3>2. HALT[1] \in {ADDR_CYC, ADDR_HALT}
      BY DEF HALT
    <3>3. KindOf(HALT) = "stamp"
      BY <3>2 DEF KindOf, ADDR_WR, ADDR_RD, ADDR_RDB, ADDR_CYC, ADDR_HALT
    <3> QED BY <2>2, <3>1, <3>3 DEF Bookable
  <2> QED BY <1>4, <2>1, <2>2
<1> HIDE DEF ops
<1>6. /\ Ledger(C, n, sigma, results) /\ Waiting(C, Queued, putting) /\ At(C[1])
      /\ Returned(C[1], n)
  BY <1>1 DEF CountOf
<1>7. Extended(C, n, ops, Len(ops), Account(ops))
  BY <1>5, <1>6, AccountExtended DEF LockstepAssumption
<1>8. PICK D : /\ Ledger(D, n, sigma', results') /\ Len(D) = Len(C) + Len(ops)
               /\ \A i \in 1 .. Len(C) : D[i] = C[i]
               /\ \A i \in 1 .. Len(ops) : D[Len(C) + i].word = ops[i].word
               /\ Len(results') >= Len(results) /\ \A j \in 1 .. Len(results) : results'[j] = results[j]
  BY <1>2, <1>7 DEF Extended
<1>9. Len(C) \in Nat /\ Len(Queued) \in Nat /\ 1 \in 1 .. Len(C) /\ Len(C) = 1 + Len(Queued)
  <2>1. Len(C) = 1 + Len(Queued) + Len(putting) /\ Len(putting) = 0
    BY <1>3, <1>6 DEF Waiting
  <2> QED BY <2>1, <1>1, <1>6, QueueWords, LedgerBounds
<1>10. Waiting(D, Queued, ops)
  <2>1. Len(D) = 1 + Len(Queued) + Len(ops)
    BY <1>8, <1>9
  <2>2. ASSUME NEW i \in 1 .. Len(Queued) PROVE D[1 + i].word = Queued[i]
    <3>1. 1 + i \in 1 .. Len(C)
      BY <1>9
    <3> QED BY <3>1, <1>6, <1>8 DEF Waiting
  <2>3. ASSUME NEW i \in 1 .. Len(ops) PROVE D[1 + Len(Queued) + i].word = ops[i].word
    BY <1>8, <1>9
  <2> QED BY <2>1, <2>2, <2>3 DEF Waiting
<1>11. D[1] = C[1]
  BY <1>8, <1>9
<1>12. At(C[1])' /\ (Unanswered(C[1].word)' <=> Unanswered(C[1].word)) /\ Queued' = Queued
  BY <1>2, <1>6, SamePlace, QueuedKept
<1>13. Returned(C[1], n)'
  <2>1. /\ n + Len(sm.rx) = C[1].at - (IF Unanswered(C[1].word) THEN 1 ELSE 0)
        /\ \E V : sm.rx \in Seq(V)
    BY <1>6 DEF Returned
  <2>2. ASSUME NEW j \in 1 .. Len(sm.rx), results'[j].kind = "stamp"
        PROVE  Stamps(sm.rx[j], results'[j].sigma)
    <3>1. Len(results) \in Nat
      BY <1>6, LedgerBounds
    <3>2. j \in 1 .. Len(results)
      BY <3>1, <1>1, RxWithin
    <3> QED BY <3>2, <2>2, <1>6, <1>8 DEF Returned
  <2> QED BY <2>1, <2>2, <1>2, <1>12 DEF Returned
<1>14. Len(results') <= RxDepth
  <2>1. ~(Len(Account(ops).results) > RxDepth)
    BY <1>2 DEF Collects, Step, ops
  <2>2. Len(results') \in Nat
    BY <1>8, LedgerBounds
  <2> QED BY <2>1, <2>2, <1>2 DEF RxDepth
<1>15. CountOf(D, n)'
  BY <1>2, <1>8, <1>10, <1>11, <1>12, <1>13, <1>14 DEF CountOf
<1>16. Agree'
  BY <1>2 DEF CountInv, Agree, Accounts
<1> QED BY <1>15, <1>16 DEF CountInv

(* A word is put behind the words of the queue.                            *)
Grows(q, p, word) ==
  /\ Len(p) = Len(q) + 1 /\ p[Len(q) + 1] = word
  /\ \A i \in 1 .. Len(q) : p[i] = q[i]

LEMMA TailGrows ==
  ASSUME NEW S, NEW q \in Seq(S), NEW word \in S, q # << >>
  PROVE  /\ Append(q, word)[1] = q[1] /\ Grows(Tail(q), Tail(Append(q, word)), word)
<1> DEFINE p == Append(q, word)
           t == Tail(q)
           u == Tail(p)
<1>1. /\ p \in Seq(S) /\ p # << >> /\ Len(p) = Len(q) + 1 /\ p[Len(q) + 1] = word
      /\ \A i \in 1 .. Len(q) : p[i] = q[i]
  BY WordAppended
<1> HIDE DEF p
<1>2. /\ Len(q) \in Nat /\ Len(q) >= 1 /\ Len(t) = Len(q) - 1
      /\ \A i \in 1 .. Len(q) - 1 : t[i] = q[i + 1]
  BY TailFacts
<1>3. Len(u) = Len(p) - 1 /\ \A i \in 1 .. Len(p) - 1 : u[i] = p[i + 1]
  BY <1>1, TailFacts
<1> HIDE DEF t, u
<1>4. Len(u) = Len(t) + 1 /\ u[Len(t) + 1] = word
  <2>1. Len(q) \in 1 .. Len(p) - 1 /\ Len(t) + 1 = Len(q)
    BY <1>1, <1>2
  <2> QED BY <2>1, <1>1, <1>2, <1>3
<1>5. ASSUME NEW i \in 1 .. Len(t) PROVE u[i] = t[i]
  <2>1. i \in 1 .. Len(p) - 1 /\ i \in 1 .. Len(q) - 1 /\ i + 1 \in 1 .. Len(q)
    BY <1>1, <1>2
  <2> QED BY <2>1, <1>1, <1>2, <1>3
<1>6. p[1] = q[1]
  BY <1>1, <1>2
<1> QED BY <1>4, <1>5, <1>6 DEF Grows, p, t, u

LEMMA QueuedGrows ==
  ASSUME NEW word \in Words, word # Release, sm.tx \in Seq(Words), sm'.tx = Append(sm.tx, word)
  PROVE  Grows(Queued, Queued', word)
<1>1. Append(sm.tx, word) # << >> /\ Grows(sm.tx, Append(sm.tx, word), word)
  BY WordAppended DEF Grows
<1>2. CASE sm.tx = << >>
  <2>1. Append(sm.tx, word)[1] = word
    BY <1>2
  <2>2. Queued = sm.tx /\ Queued' = Append(sm.tx, word)
    BY <1>2, <2>1 DEF Queued
  <2> QED BY <1>1, <2>2
<1>3. CASE sm.tx # << >>
  <2>1. Append(sm.tx, word)[1] = sm.tx[1] /\ Grows(Tail(sm.tx), Tail(Append(sm.tx, word)), word)
    BY <1>3, TailGrows
  <2>2. CASE sm.tx[1] = Release
    <3>1. Queued = Tail(sm.tx) /\ Queued' = Tail(Append(sm.tx, word))
      BY <1>1, <1>3, <2>1, <2>2 DEF Queued
    <3> QED BY <3>1, <2>1
  <2>3. CASE sm.tx[1] # Release
    <3>1. Queued = sm.tx /\ Queued' = Append(sm.tx, word)
      BY <1>1, <1>3, <2>1, <2>3 DEF Queued
    <3> QED BY <3>1, <1>1
  <2> QED BY <2>2, <2>3
<1> QED BY <1>2, <1>3

LEMMA WaitingPut ==
  ASSUME NEW C, NEW q, NEW p, NEW S, NEW put \in Seq(S), put # << >>, Len(q) \in Nat,
         Waiting(C, q, put), Grows(q, p, put[1].word)
  PROVE  Waiting(C, p, Tail(put))
<1> DEFINE t == Tail(put)
<1>1. /\ Len(put) \in Nat /\ Len(put) >= 1 /\ Len(t) = Len(put) - 1
      /\ \A i \in 1 .. Len(put) - 1 : t[i] = put[i + 1]
  BY TailFacts
<1> HIDE DEF t
<1>2. /\ Len(p) = Len(q) + 1 /\ p[Len(q) + 1] = put[1].word
      /\ \A i \in 1 .. Len(q) : p[i] = q[i]
  BY DEF Grows
<1>3. /\ Len(C) = 1 + Len(q) + Len(put)
      /\ \A i \in 1 .. Len(q) : C[1 + i].word = q[i]
      /\ \A i \in 1 .. Len(put) : C[1 + Len(q) + i].word = put[i].word
  BY DEF Waiting
<1>4. Len(C) = 1 + Len(p) + Len(t)
  BY <1>1, <1>2, <1>3
<1>5. ASSUME NEW i \in 1 .. Len(p) PROVE C[1 + i].word = p[i]
  <2>1. CASE i = Len(q) + 1
    <3>1. 1 \in 1 .. Len(put) /\ 1 + Len(q) + 1 = 1 + i
      BY <2>1, <1>1
    <3>2. C[1 + Len(q) + 1].word = put[1].word
      BY <3>1, <1>3
    <3> QED BY <3>1, <3>2, <2>1, <1>2
  <2>2. CASE i # Len(q) + 1
    <3>1. i \in 1 .. Len(q)
      BY <2>2, <1>2
    <3> QED BY <3>1, <1>2, <1>3
  <2> QED BY <2>1, <2>2
<1>6. ASSUME NEW i \in 1 .. Len(t) PROVE C[1 + Len(p) + i].word = t[i].word
  <2>1. /\ i \in 1 .. Len(put) - 1 /\ i + 1 \in 1 .. Len(put)
        /\ 1 + Len(p) + i = 1 + Len(q) + (i + 1)
    BY <1>1, <1>2
  <2>2. C[1 + Len(q) + (i + 1)].word = put[i + 1].word
    BY <2>1, <1>3
  <2> QED BY <2>1, <2>2, <1>1
<1>7. Waiting(C, p, t)
  BY <1>4, <1>5, <1>6 DEF Waiting
<1> QED BY <1>7 DEF t

LEMMA PutCounts == ASSUME LockInv, CountInv, PutWord PROVE CountInv'
<1>1. PICK C, n : CountOf(C, n)
  BY DEF CountInv
<1>2. /\ putting # << >> /\ sm' = [sm EXCEPT !.tx = Append(@, Head(putting).word)]
      /\ putting' = Tail(putting) /\ UNCHANGED <<edges, results, sigma, Accounts>>
  BY DEF PutWord, Put, PioElse, stampVars, Accounts
<1>3. /\ sm'.pc = sm.pc /\ sm'.y = sm.y /\ sm'.isr = sm.isr /\ sm'.osr = sm.osr
      /\ sm'.isr_count = sm.isr_count /\ sm'.osr_count = sm.osr_count
      /\ sm'.rx = sm.rx /\ sm'.tx = Append(sm.tx, Head(putting).word) /\ sm.tx \in Seq(Words)
  BY <1>2 DEF LockInv, MachineInv, SmShape
<1>4. putting \in Seq(Operations) \/ putting = <<OP_HALT>>
  BY DEF LockInv, HostShape
<1>5. PICK S : putting \in Seq(S) /\ \A op \in S : op.word \in Plain \cup {HALT}
  <2>1. CASE putting \in Seq(Operations)
    <3>1. \A op \in Operations : op.word \in Plain \cup {HALT}
      BY DEF Operations
    <3> QED BY <2>1, <3>1
  <2>2. CASE putting = <<OP_HALT>>
    <3>1. putting \in Seq({OP_HALT}) /\ OP_HALT.word = HALT
      BY <2>2 DEF OP_HALT, HALT
    <3> QED BY <3>1
  <2> QED BY <1>4, <2>1, <2>2
<1>6. Head(putting) = putting[1] /\ putting[1].word \in Words /\ putting[1].word # Release
  <2>1. Head(putting) = putting[1] /\ putting[1] \in S
    BY <1>2, <1>5, TailFacts
  <2> QED BY <2>1, <1>5, PlainWords DEF Words
<1>7. Grows(Queued, Queued', putting[1].word)
  BY <1>3, <1>6, QueuedGrows
<1>8. /\ Ledger(C, n, sigma, results) /\ Waiting(C, Queued, putting) /\ At(C[1])
      /\ Returned(C[1], n) /\ Len(results) <= RxDepth
  BY <1>1 DEF CountOf
<1>9. Waiting(C, Queued', putting')
  <2>1. Len(Queued) \in Nat
    BY <1>1, QueueWords
  <2>2. Waiting(C, Queued', Tail(putting))
    BY <2>1, <1>2, <1>5, <1>7, <1>8, WaitingPut
  <2> QED BY <2>2, <1>2
<1>10. At(C[1])' /\ (Unanswered(C[1].word)' <=> Unanswered(C[1].word))
  BY <1>2, <1>3, <1>8, SamePlace
<1>11. Returned(C[1], n)'
  BY <1>2, <1>3, <1>8, <1>10 DEF Returned
<1>12. CountOf(C, n)'
  BY <1>2, <1>8, <1>9, <1>10, <1>11 DEF CountOf
<1> QED BY <1>2, <1>12 DEF CountInv, Agree, Accounts

LEMMA ReleaseCounts == ASSUME LockInv, CountInv, _release PROVE CountInv'
<1>1. PICK C, n : CountOf(C, n)
  BY DEF CountInv
<1>2. /\ Doing("put") /\ sm' = [sm EXCEPT !.tx = Append(@, Release)]
      /\ UNCHANGED <<edges, results, putting, sigma, Accounts>>
  BY DEF _release, Put, PioElse, Release, stampVars, Accounts
<1>3. /\ sm'.pc = sm.pc /\ sm'.y = sm.y /\ sm'.isr = sm.isr /\ sm'.osr = sm.osr
      /\ sm'.isr_count = sm.isr_count /\ sm'.osr_count = sm.osr_count
      /\ sm'.rx = sm.rx /\ sm'.tx = Append(sm.tx, Release)
  BY <1>2 DEF LockInv, MachineInv, SmShape
<1>4. sm.tx = << >> /\ Queued = << >>
  BY <1>2, DoingFacts DEF Queued
<1>5. Queued' = << >>
  <2> DEFINE p == Append(sm.tx, Release)
             t == Tail(p)
  <2>1. p \in Seq(Words) /\ p # << >> /\ Len(p) = 1 /\ p[1] = Release
    <3>1. Release \in Words /\ sm.tx \in Seq(Words) /\ Len(sm.tx) = 0
      BY <1>4 DEF Words
    <3> QED BY <3>1, WordAppended
  <2> HIDE DEF p
  <2>2. t \in Seq(Words) /\ Len(t) = 0
    BY <2>1, TailFacts
  <2>3. Queued' = t
    BY <2>1, <1>3 DEF Queued, p
  <2> HIDE DEF t
  <2>4. t = << >>
    BY <2>2
  <2> QED BY <2>3, <2>4
<1>6. At(C[1])' /\ (Unanswered(C[1].word)' <=> Unanswered(C[1].word))
  BY <1>1, <1>2, <1>3, SamePlace DEF CountOf
<1>7. CountOf(C, n)'
  BY <1>1, <1>2, <1>3, <1>4, <1>5, <1>6, SameCount DEF Booking
<1> QED BY <1>2, <1>7 DEF CountInv, Agree, Accounts

(* A program that starts owes nothing: the entry of its place is booked at *)
(* no frame, and answered.                                                 *)
Start == [word |-> HALT, sigma |-> 0, at |-> 0]

LEMMA FreshLedger ==
  ASSUME YModulus \in Nat \ {0}
  PROVE  /\ Ledger(<<Start>>, 0, 0, << >>) /\ Waiting(<<Start>>, << >>, << >>)
         /\ <<Start>>[1] = Start /\ Start.at = 0 /\ Start.sigma = 0
<1>1. Start \in Entry /\ Start.at = 0 /\ Start.sigma = 0
  BY DEF Start, Entry, Residues
<1>2. /\ <<Start>> \in Seq(Entry) /\ <<Start>> # << >> /\ Len(<<Start>>) = 1
      /\ <<Start>>[1] = Start
  BY <1>1
<1>3. << >> \in Seq(Due) /\ 0 \in Nat /\ 0 \in Residues
  BY DEF Residues
<1>4. Len(<< >>) = 0
  BY Zenon
<1> DEFINE C == <<Start>>
           none == << >>
<1> HIDE DEF C, none
<1>5. C \in Seq(Entry) /\ C # << >> /\ Len(C) = 1 /\ C[1] = Start /\ none \in Seq(Due) /\ Len(none) = 0
  BY <1>2, <1>3, <1>4 DEF C, none
<1>6. Ledger(C, 0, 0, none)
  BY <1>1, <1>3, <1>5 DEF Ledger
<1>7. Waiting(C, none, none)
  BY <1>5 DEF Waiting
<1> QED BY <1>1, <1>5, <1>6, <1>7 DEF C, none

Fresh ==
  /\ sm = Registers /\ edges = 0 /\ results = << >> /\ sigma = 0 /\ putting = << >>
  /\ _d = 0 /\ idled = 0 /\ drift = 0

LEMMA StartCounts == ASSUME LockstepAssumption, Fresh PROVE CountInv
<1> USE DEF Fresh
<1>1. /\ sm.pc = 24 /\ sm.y = 0 /\ sm.isr = << >> /\ sm.isr_count = 0 /\ sm.osr_count = 32
      /\ sm.tx = << >> /\ sm.rx = << >>
  BY DEF Registers, ADDR_FETCH
<1>2. Gathered
  BY <1>1 DEF Gathered
<1>3. Serves(Start.word)
  BY <1>1 DEF Serves
<1>4. Rest = 0
  BY <1>1 DEF Rest
<1>5. 0 \in Residues /\ Congruent(0 + 0 + 0, 0)
  <2>1. YModulus \in Nat \ {0} /\ 0 + 0 + 0 = 0 + 0 * YModulus
    BY DEF LockstepAssumption
  <2> QED BY <2>1 DEF Congruent, Residues
<1>6. /\ Ledger(<<Start>>, 0, 0, << >>) /\ Waiting(<<Start>>, << >>, << >>)
      /\ <<Start>>[1] = Start /\ Start.at = 0 /\ Start.sigma = 0
  BY FreshLedger DEF LockstepAssumption
<1>7. At(Start)
  BY <1>1, <1>2, <1>3, <1>4, <1>5, <1>6 DEF At
<1>8. Returned(Start, 0)
  <2>1. ~Unanswered(Start.word)
    BY <1>1 DEF Unanswered
  <2>2. Len(sm.rx) = 0 /\ sm.rx \in Seq({})
    <3>1. Len(<< >>) = 0
      BY Zenon
    <3> QED BY <1>1, <3>1
  <2>3. 0 + Len(sm.rx) = Start.at - (IF Unanswered(Start.word) THEN 1 ELSE 0)
    <3>1. Start.at = 0 /\ (IF Unanswered(Start.word) THEN 1 ELSE 0) = 0
      BY <2>1, <1>6
    <3>2. 0 + 0 = 0 - 0
      OBVIOUS
    <3> QED BY <3>1, <3>2, <2>2, Zenon
  <2>4. \E V : sm.rx \in Seq(V)
    BY <2>2
  <2>5. \A j \in 1 .. Len(sm.rx) : FALSE
    BY <2>2
  <2> QED BY <2>3, <2>4, <2>5 DEF Returned
<1>9. Queued = << >>
  BY <1>1 DEF Queued
<1>10. Len(results) <= RxDepth
  <2>1. Len(<< >>) = 0
    BY Zenon
  <2> QED BY <2>1 DEF RxDepth
<1>11. CountOf(<<Start>>, 0)
  BY <1>6, <1>7, <1>8, <1>9, <1>10 DEF CountOf
<1>12. Agree
  BY <1>5 DEF Agree
<1> QED BY <1>11, <1>12 DEF CountInv

LEMMA CountsNext ==
  ASSUME LockstepAssumption, LockInv, CountInv, [Next]_vars PROVE CountInv' \/ Fresh'
<1>1. CASE Run
  <2>1. Cycle /\ UNCHANGED <<results, putting, sigma, Accounts>>
    BY <1>1 DEF Run, stampVars, Accounts
  <2>2. PICK C, n : CountOf(C, n)
    BY DEF CountInv
  <2>3. \E D : CountOf(D, n)'
    BY <2>1, <2>2, CycleCounts DEF Booking
  <2> QED BY <2>1, <2>3 DEF CountInv, Agree, Accounts
<1>2. CASE WaitHalted \/ set_reset \/ Waited \/ Return
  <2>1. UNCHANGED <<sm, edges, results, putting, sigma, Accounts>>
    BY <1>2 DEF WaitHalted, set_reset, Waited, Return, pioVars, stampVars, Accounts
  <2> QED BY <2>1, QuietCounts
<1>3. CASE HostStep
  BY <1>2, <1>3, CollectCounts, SubmitCounts, PutCounts, ReleaseCounts DEF HostStep
<1>4. CASE Timeout
  <2>1. /\ Blocked /\ sm' = Registers /\ edges' = 0 /\ results' = << >> /\ sigma' = 0
        /\ _d' = 0 /\ idled' = 0 /\ UNCHANGED <<putting, drift>>
    BY <1>4 DEF Timeout, Restart
  <2>2. putting = << >>
    BY <2>1 DEF Blocked, Collects, Doing
  <2> QED BY <2>1, <2>2 DEF CountInv, Agree, Fresh
<1>5. ASSUME NEW kind \in {"write", "read", "cycle", "reset"}, NEW w \in WindowsOf(kind),
             Call(kind, w)
      PROVE  CountInv'
  <2>1. UNCHANGED <<sm, edges, results, putting, sigma, Accounts>>
    BY <1>5 DEF Call, pioVars, stampVars, Accounts
  <2> QED BY <2>1, QuietCounts
<1>6. CASE UNCHANGED vars
  <2>1. UNCHANGED <<sm, edges, results, putting, sigma, Accounts>>
    BY <1>6 DEF vars, pioVars, hostVars, stampVars, Accounts
  <2> QED BY <2>1, QuietCounts
<1> QED BY <1>1, <1>3, <1>4, <1>5, <1>6 DEF Next

(* The frames the program counts in Y while it idles and stalls, with the  *)
(* frames fixed for each operation, are the rising edges there were since  *)
(* it was started: modulo YModulus at every stamp, and from its first stamp*)
(* on without a frame amiss while count_exact stands, however often Y has  *)
(* wrapped between two stamps (_account, _stamp, FIXED_FRAMES and the      *)
(* decrements of lockstep_program).                                        *)
THEOREM StampsExact == ASSUME SleepCycles >= 2 PROVE Spec => []CountExact
<1>1. Init => Fresh
  BY DEF Init, PioInit, Fresh
<1>2. Fresh => CountInv
  BY StartCounts, LockstepAssumption
<1>3. LockInv /\ CountInv /\ [Next]_vars => CountInv' \/ Fresh'
  BY CountsNext, LockstepAssumption
<1>4. CountInv => CountExact
  BY DEF CountInv, Agree, CountExact
<1> QED BY <1>1, <1>2, <1>3, <1>4, LockInvariant, PTL DEF Spec
=============================================================================

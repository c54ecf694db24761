----------------------------- MODULE EngineStep -----------------------------
(***************************************************************************)
(* One clock edge of a programmable engine (hardcaml/lib/engine.ml), as    *)
(* far as its sequencing goes: where the program counter moves, how long   *)
(* an instruction takes, what blocks, times out, faults and completes.     *)
(* Register and pin data are abstracted: every instruction that only       *)
(* computes or drives pins is "step"; XFER keeps its clock (module         *)
(* Transfer has its data).  An instruction is [kind, n, m]:                *)
(*                                                                         *)
(*   step  halt  invalid  pull  waitpin  waitevent                         *)
(*   wait n  jmp n  jz n  loop n  count n  limit n  fault n                *)
(*   push n          n = 1: strict                                         *)
(*   xfer n m        n bits of half period m                               *)
(*                                                                         *)
(* `met' is the input the instruction depends on: a word to PULL, room to  *)
(* PUSH, the awaited pin level or event, a zero register.                  *)
(***************************************************************************)
EXTENDS Naturals, Sequences

CONSTANTS
  DefaultLimit,     \* LIMIT after START (65535)
  CounterModulus    \* completed instructions wrap (2^32)

ASSUME EngineAssumption == DefaultLimit \in Nat \ {0} /\ CounterModulus \in Nat \ {0}

Kinds == {"step", "halt", "invalid", "pull", "push", "waitpin", "waitevent", "wait",
          "jmp", "jz", "loop", "count", "limit", "fault", "xfer"}
Instructions == [kind : Kinds, n : Nat, m : Nat]

(* What START loads: everything but the queues and the image.              *)
Started ==
  [pc |-> 0, running |-> TRUE, fault |-> 0, repeat_count |-> 0,
   timer |-> 0, limit |-> DefaultLimit, blocked |-> 0,
   edges |-> 0, tick |-> 0, period |-> 0, completed |-> 0, counter |-> 0]

(* After reset the engine is as after START, but halted, with LIMIT 0.     *)
Cleared == [Started EXCEPT !.running = FALSE, !.limit = 0]

Active(e)         == e.running /\ e.fault = 0
Inside(e, image)  == e.pc < Len(image)
Current(e, image) == image[e.pc + 1]

Waits(instruction)   == instruction.kind \in {"waitpin", "waitevent"}

-----------------------------------------------------------------------------
Retire(e, next) ==
  [e EXCEPT !.pc = next, !.completed = (@ + 1) % CounterModulus, !.blocked = 0]
Finish(e) == Retire(e, e.pc + 1)
Fail(e, code) == [e EXCEPT !.fault = code, !.running = FALSE, !.edges = 0]

(* Mutant: the wait never counts beyond its first sample.                  *)
XBlock_Restarts(e) ==
  LET most == IF e.limit = 0 THEN DefaultLimit ELSE e.limit
  IN  IF e.blocked + 1 >= most THEN [e EXCEPT !.blocked = 1] ELSE [e EXCEPT !.blocked = @ + 1]

(* An unsuccessful sample of WAITPIN or WAITEVENT.                         *)
Block(e) ==
  LET most == IF e.limit = 0 THEN DefaultLimit ELSE e.limit
  IN  IF e.blocked + 1 >= most THEN Fail(e, 3) ELSE [e EXCEPT !.blocked = @ + 1]

(* The execute bodies.                                                     *)
Execute(e, instruction, met) ==
  LET kind == instruction.kind
      n == instruction.n
  IN  CASE kind = "step"  -> Finish(e)
        [] kind = "halt"  -> [Finish(e) EXCEPT !.running = FALSE]
        [] kind = "wait"  -> [Finish(e) EXCEPT !.timer = n]
        [] kind = "jmp"   -> Retire(e, n)
        [] kind = "jz"    -> IF met THEN Retire(e, n) ELSE Finish(e)
        [] kind = "count" -> [Finish(e) EXCEPT !.repeat_count = n]
        [] kind = "loop"  -> IF e.repeat_count = 0 THEN Finish(e)
                             ELSE [Retire(e, n) EXCEPT !.repeat_count = @ - 1]
        [] kind = "limit" -> [Finish(e) EXCEPT !.limit = n]
        [] kind = "pull"  -> IF met THEN Finish(e) ELSE e
        [] kind = "push"  -> IF met THEN Finish(e) ELSE IF n = 1 THEN Fail(e, 4) ELSE e
        [] Waits(instruction) -> IF met THEN Finish(e) ELSE Block(e)
        [] kind = "xfer"  -> [e EXCEPT !.edges = 2 * n, !.tick = instruction.m,
                                       !.period = instruction.m]
        [] kind = "fault" -> Fail(e, n)
        [] kind = "invalid" -> Fail(e, 1)

(* Mutant: the last transition does not wait out its half period.          *)
XTransfer_LastEarly(e) ==
  IF e.tick > 1 /\ e.edges # 1 THEN [e EXCEPT !.tick = @ - 1]
  ELSE LET moved == [e EXCEPT !.tick = e.period, !.edges = @ - 1]
       IN  IF e.edges = 1 THEN Finish(moved) ELSE moved

(* A cycle of a fused transfer; the last transition completes XFER.        *)
Transfer(e) ==
  IF e.tick > 1 THEN [e EXCEPT !.tick = @ - 1]
  ELSE LET moved == [e EXCEPT !.tick = e.period, !.edges = @ - 1]
       IN  IF e.edges = 1 THEN Finish(moved) ELSE moved

(* An edge of an active engine: a pending WAIT counts down, a transfer     *)
(* goes on, or an instruction issues.                                      *)
Step(e, image, met) ==
  IF e.timer # 0 THEN [e EXCEPT !.timer = @ - 1]
  ELSE IF e.edges # 0 THEN Transfer(e)
  ELSE IF ~Inside(e, image) THEN Fail(e, 2)
  ELSE Execute(e, Current(e, image), met)

(* The split_instruction_decode builds count completed instructions by a   *)
(* condition of its own, `counter', instead of where they complete.        *)
Increment(e, image, met) ==
  LET kind == Current(e, image).kind
  IN  /\ e.timer = 0
      /\ IF e.edges # 0 THEN e.tick <= 1 /\ e.edges = 1
         ELSE /\ Inside(e, image)
              /\ kind \notin {"invalid", "xfer", "fault"}
              /\ kind \in {"pull", "push", "waitpin", "waitevent"} => met

Counted(e, image, met) ==
  IF Increment(e, image, met) THEN (e.counter + 1) % CounterModulus ELSE e.counter
=============================================================================

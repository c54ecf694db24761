---------------------------- MODULE EngineProofs ----------------------------
(***************************************************************************)
(* Proofs about one engine: the cycles and counts of its instructions for  *)
(* every image, its mailbox, and the words of its fused transfers.         *)
(***************************************************************************)
EXTENDS Engine, Mailbox, Transfer, TLAPS

USE EngineAssumption

EngineStates ==
  [pc : Nat, running : BOOLEAN, fault : Nat, repeat_count : Nat,
   timer : Nat, limit : Nat, blocked : Nat, edges : Nat, tick : Nat,
   period : Nat, completed : Nat, counter : Nat]

EngineTypeOK ==
  /\ image \in Seq(Decoded) /\ engine \in EngineStates
  /\ unmet \in Nat /\ owed \in Nat

(* What Timely rests on: a transfer and a WAIT never hold the engine at    *)
(* once, a transfer counts down from a half period that is not zero, and   *)
(* only a wait that is about to sample again has unsuccessful samples.     *)
HeldOnce ==
  /\ engine.timer # 0 => engine.edges = 0
  /\ engine.edges # 0 => engine.tick # 0 /\ engine.period # 0
SamplesAtWait == Active(engine) /\ engine.blocked # 0 => Issues /\ AtWait

TimelyInv == EngineTypeOK /\ HeldOnce /\ SamplesAtWait /\ Timely

-----------------------------------------------------------------------------
\* A wrapped counter is a natural number.
LEMMA ModulusRange ==
  ASSUME NEW n \in Nat
  PROVE  n % CounterModulus \in Nat
<1>1. CounterModulus \in Nat \ {0}
  OBVIOUS
<1> QED
  BY <1>1, SMTT(20)

(* The cycles the registers of e hold back its next instruction for.       *)
Held(e) == e.timer + (IF e.edges = 0 THEN 0 ELSE e.tick + (e.edges - 1) * e.period)

\* The fields of an engine's state.
LEMMA FieldTypes ==
  ASSUME NEW e \in EngineStates
  PROVE  /\ e.pc \in Nat /\ e.running \in BOOLEAN /\ e.fault \in Nat /\ e.repeat_count \in Nat
         /\ e.timer \in Nat /\ e.limit \in Nat /\ e.blocked \in Nat /\ e.edges \in Nat
         /\ e.tick \in Nat /\ e.period \in Nat /\ e.completed \in Nat /\ e.counter \in Nat
BY DEF EngineStates

\* An instruction that retires.
LEMMA Retired ==
  ASSUME NEW e \in EngineStates, NEW next \in Nat
  PROVE  LET f == Retire(e, next)
         IN  /\ f \in EngineStates
             /\ f.pc = next /\ f.blocked = 0
             /\ f.completed = (e.completed + 1) % CounterModulus
             /\ f.running = e.running /\ f.fault = e.fault
             /\ f.repeat_count = e.repeat_count /\ f.limit = e.limit
             /\ f.timer = e.timer /\ f.edges = e.edges
             /\ f.tick = e.tick /\ f.period = e.period /\ f.counter = e.counter
<1>1. (e.completed + 1) % CounterModulus \in Nat
  BY FieldTypes, ModulusRange
<1> QED
  BY <1>1 DEF Retire, EngineStates

\* An instruction that fails.
LEMMA Failed ==
  ASSUME NEW e \in EngineStates, NEW code \in Nat
  PROVE  LET f == Fail(e, code)
         IN  /\ f \in EngineStates
             /\ ~f.running /\ f.edges = 0
             /\ f.timer = e.timer
             /\ f.completed = e.completed /\ f.counter = e.counter
BY DEF Fail, EngineStates

(* An instruction leaves the engine held back for exactly what it costs,   *)
(* and counts its unsuccessful samples and its completion once.            *)
Completes(i, met) ==
  /\ i.kind \notin {"invalid", "xfer", "fault"}
  /\ i.kind \in {"pull", "push", "waitpin", "waitevent"} => met

\* What one cycle of execution may change.
LEMMA Executed ==
  ASSUME NEW e \in EngineStates, NEW i \in Decoded, NEW met \in BOOLEAN,
         e.timer = 0, e.edges = 0, e.blocked < e.limit,
         e.blocked # 0 => Waits(i),
         NEW f, f = Execute(e, i, met)
  PROVE  /\ f \in EngineStates
         /\ f.timer # 0 => f.edges = 0
         /\ f.edges # 0 => f.tick # 0 /\ f.period # 0
         /\ Active(f) => Held(f) = Extra(i) /\ (f.timer = 0 /\ f.edges = 0 <=> Extra(i) = 0)
         /\ Active(f) => f.blocked = IF Waits(i) /\ ~met THEN e.blocked + 1 ELSE 0
         /\ Active(f) => f.blocked < f.limit
         /\ f.blocked # 0 /\ Active(f) => f.timer = 0 /\ f.edges = 0 /\ f.pc = e.pc
         /\ f.counter = e.counter
         /\ f.completed = IF Completes(i, met) THEN (e.completed + 1) % CounterModulus
                          ELSE e.completed
<1>0. /\ e.pc \in Nat /\ e.repeat_count \in Nat /\ e.limit \in Nat /\ e.blocked \in Nat
      /\ e.limit # 0
  BY FieldTypes
<1>1. /\ i.kind \in Kinds /\ i.n \in Nat /\ i.m \in Nat
      /\ i.kind = "limit" => i.n # 0
      /\ i.kind = "xfer" => i.n # 0 /\ i.m # 0
  BY DEF Decoded, Instructions
<1>2. e.pc + 1 \in Nat
  BY <1>0
<1> DEFINE Done == /\ f \in EngineStates
                   /\ f.blocked = 0 /\ f.edges = 0 /\ f.limit # 0 /\ f.timer = Extra(i)
                   /\ f.counter = e.counter
                   /\ f.completed = (e.completed + 1) % CounterModulus
           Lost == /\ f \in EngineStates
                   /\ ~f.running /\ f.edges = 0 /\ f.timer = 0
                   /\ f.counter = e.counter /\ f.completed = e.completed
<1>3. ASSUME Done, Completes(i, met)
      PROVE  /\ ~(Waits(i) /\ ~met)
             /\ Held(f) = Extra(i)
  BY <1>3, FieldTypes DEF Held, Completes, Waits
<1>4. CASE Done /\ Completes(i, met)
  BY <1>3, <1>4, FieldTypes
<1>5. CASE Lost /\ ~Completes(i, met)
  BY <1>5 DEF Active
<1>6. CASE i.kind \in {"step", "halt", "jmp", "jz", "count", "loop", "limit"}
  <2>1. PICK next \in Nat : LET r == Retire(e, next) IN
              \/ f = r
              \/ f = [r EXCEPT !.running = FALSE]
              \/ \E n \in Nat : f = [r EXCEPT !.repeat_count = n]
              \/ \E n \in Nat \ {0} : f = [r EXCEPT !.limit = n]
    <3>1. CASE i.kind = "step"
      BY <1>2, <3>1 DEF Execute, Finish, Waits
    <3>2. CASE i.kind = "halt"
      BY <1>2, <3>2 DEF Execute, Finish, Waits
    <3>3. CASE i.kind = "jmp"
      BY <1>1, <3>3 DEF Execute, Waits
    <3>4. CASE i.kind = "jz"
      BY <1>1, <1>2, <3>4 DEF Execute, Finish, Waits
    <3>5. CASE i.kind = "count"
      BY <1>1, <1>2, <3>5 DEF Execute, Finish, Waits
    <3>6. CASE i.kind = "loop"
      <4>1. Retire(e, i.n).repeat_count = e.repeat_count
        BY <1>1, Retired
      <4>2. f = IF e.repeat_count = 0 THEN Finish(e)
                ELSE [Retire(e, i.n) EXCEPT !.repeat_count = e.repeat_count - 1]
        BY <3>6, <4>1 DEF Execute, Waits
      <4>3. e.repeat_count = 0 \/ e.repeat_count - 1 \in Nat
        BY <1>0
      <4> QED
        BY <1>1, <1>2, <4>2, <4>3 DEF Finish
    <3>7. CASE i.kind = "limit"
      BY <1>1, <1>2, <3>7 DEF Execute, Finish, Waits
    <3> QED
      BY <1>6, <3>1, <3>2, <3>3, <3>4, <3>5, <3>6, <3>7
  <2>2. Extra(i) = 0 /\ Completes(i, met)
    BY <1>6 DEF Extra, Completes
  <2> DEFINE r == Retire(e, next)
  <2>3. /\ r \in EngineStates /\ r.blocked = 0 /\ r.edges = 0 /\ r.limit # 0 /\ r.timer = 0
        /\ r.counter = e.counter /\ r.completed = (e.completed + 1) % CounterModulus
    BY <1>0, Retired
  <2> HIDE DEF r
  <2>4. Done
    <3>1. CASE f = r
      BY <2>2, <2>3, <3>1
    <3>2. CASE f = [r EXCEPT !.running = FALSE]
      BY <2>2, <2>3, <3>2 DEF EngineStates
    <3>3. ASSUME NEW n \in Nat, f = [r EXCEPT !.repeat_count = n]
          PROVE  Done
      BY <2>2, <2>3, <3>3 DEF EngineStates
    <3>4. ASSUME NEW n \in Nat \ {0}, f = [r EXCEPT !.limit = n]
          PROVE  Done
      BY <2>2, <2>3, <3>4 DEF EngineStates
    <3> QED
      BY <2>1, <3>1, <3>2, <3>3, <3>4 DEF r
  <2> QED
    BY <1>4, <2>2, <2>4
<1>7. CASE i.kind = "wait"
  <2>1. f = [Retire(e, e.pc + 1) EXCEPT !.timer = i.n]
    BY <1>7 DEF Execute, Finish, Waits
  <2>2. Extra(i) = i.n /\ Completes(i, met)
    BY <1>7 DEF Extra, Completes
  <2> DEFINE r == Retire(e, e.pc + 1)
  <2>3. /\ r \in EngineStates /\ r.blocked = 0 /\ r.edges = 0 /\ r.limit # 0
        /\ r.counter = e.counter /\ r.completed = (e.completed + 1) % CounterModulus
    BY <1>0, <1>2, Retired
  <2>4. f = [r EXCEPT !.timer = i.n]
    BY <2>1
  <2> HIDE DEF r
  <2>5. Done
    BY <1>1, <2>2, <2>3, <2>4 DEF EngineStates
  <2> QED
    BY <1>4, <2>2, <2>5
<1>8. CASE i.kind \in {"pull", "push", "waitpin", "waitevent"} /\ met
  <2>1. f = Retire(e, e.pc + 1)
    BY <1>8 DEF Execute, Finish, Waits
  <2>2. Extra(i) = 0 /\ Completes(i, met)
    BY <1>8 DEF Extra, Completes
  <2>3. /\ f \in EngineStates /\ f.blocked = 0 /\ f.edges = 0 /\ f.limit = e.limit /\ f.timer = 0
        /\ f.counter = e.counter /\ f.completed = (e.completed + 1) % CounterModulus
    <3>1. PICK next \in Nat : next = e.pc + 1
      BY <1>2
    <3>2. f = Retire(e, next)
      BY <2>1, <3>1
    <3> DEFINE r == Retire(e, next)
    <3>3. /\ r \in EngineStates /\ r.blocked = 0 /\ r.edges = 0 /\ r.limit = e.limit /\ r.timer = 0
          /\ r.counter = e.counter /\ r.completed = (e.completed + 1) % CounterModulus
      BY Retired
    <3>4. f = r
      BY <3>2
    <3> HIDE DEF r
    <3> QED
      BY <3>3, <3>4
  <2>4. Done
    BY <1>0, <2>2, <2>3
  <2> QED
    BY <1>4, <2>2, <2>4
<1>9. CASE i.kind \in {"pull", "push"} /\ ~met
  <2>1. f = e \/ f = Fail(e, 4)
    BY <1>9 DEF Execute, Waits
  <2>2. Extra(i) = 0 /\ ~Completes(i, met) /\ ~Waits(i)
    BY <1>9 DEF Extra, Completes, Waits
  <2>3. CASE f = e
    BY <2>2, <2>3 DEF Held
  <2>4. CASE f = Fail(e, 4)
    BY <1>5, <2>2, <2>4, Failed
  <2> QED
    BY <2>1, <2>3, <2>4
<1>10. CASE i.kind \in {"waitpin", "waitevent"} /\ ~met
  <2>1. f = Block(e)
    BY <1>10 DEF Execute, Waits
  <2>2. Extra(i) = 0 /\ ~Completes(i, met) /\ Waits(i)
    BY <1>10 DEF Extra, Completes, Waits
  <2>3. CASE e.blocked + 1 >= e.limit
    <3>1. f = Fail(e, 3)
      BY <1>0, <2>1, <2>3 DEF Block
    <3> QED
      BY <1>5, <2>2, <3>1, Failed
  <2>4. CASE ~(e.blocked + 1 >= e.limit)
    <3>1. f = [e EXCEPT !.blocked = e.blocked + 1]
      BY <1>0, <2>1, <2>4 DEF Block
    <3>2. /\ f \in EngineStates /\ f.timer = 0 /\ f.edges = 0 /\ f.pc = e.pc
          /\ f.limit = e.limit /\ f.blocked = e.blocked + 1
          /\ f.counter = e.counter /\ f.completed = e.completed
      BY <3>1 DEF EngineStates
    <3> QED
      BY <1>0, <1>10, <2>2, <2>4, <3>2 DEF Held
  <2> QED
    BY <2>3, <2>4
<1>11. CASE i.kind = "xfer"
  <2>1. f = [e EXCEPT !.edges = 2 * i.n, !.tick = i.m, !.period = i.m]
    BY <1>11 DEF Execute, Waits
  <2>2. /\ f \in EngineStates /\ f.timer = 0 /\ f.blocked = e.blocked /\ f.limit = e.limit
        /\ f.edges = 2 * i.n /\ f.tick = i.m /\ f.period = i.m
        /\ f.counter = e.counter /\ f.completed = e.completed
    <3>1. 2 * i.n \in Nat
      BY <1>1
    <3> QED
      BY <1>1, <2>1, <3>1 DEF EngineStates
  <2>3. Extra(i) = 2 * i.n * i.m /\ ~Completes(i, met) /\ ~Waits(i)
    BY <1>11 DEF Extra, Completes, Waits
  <2>4. i.m + (2 * i.n - 1) * i.m = 2 * i.n * i.m
    BY <1>1, SMTT(20)
  <2>5. 2 * i.n * i.m # 0
    BY <1>1, <1>11, SMTT(20)
  <2>6. 2 * i.n # 0 /\ i.m # 0
    BY <1>1, <1>11
  <2>7. Held(f) = Extra(i)
    BY <1>1, <2>2, <2>3, <2>4, <2>6 DEF Held
  <2> QED
    BY <2>2, <2>3, <2>5, <2>6, <2>7
<1>12. CASE i.kind \in {"fault", "invalid"}
  <2>1. PICK code \in Nat : f = Fail(e, code)
    BY <1>1, <1>12 DEF Execute, Waits
  <2>2. ~Completes(i, met)
    BY <1>12 DEF Completes
  <2> QED
    BY <1>5, <2>1, <2>2, Failed
<1> QED
  BY <1>1, <1>6, <1>7, <1>8, <1>9, <1>10, <1>11, <1>12 DEF Kinds

(* A cycle of a transfer brings its end one cycle nearer.                  *)
LEMMA Transferred ==
  ASSUME NEW e \in EngineStates, e.timer = 0, e.edges # 0, e.tick # 0, e.period # 0,
         e.blocked = 0,
         NEW f, f = Transfer(e)
  PROVE  /\ f \in EngineStates
         /\ f.timer = 0 /\ f.blocked = 0 /\ f.limit = e.limit
         /\ f.edges # 0 => f.tick # 0 /\ f.period # 0
         /\ Held(f) = Held(e) - 1
         /\ f.edges = 0 <=> Held(f) = 0
         /\ f.running = e.running /\ f.fault = e.fault
         /\ f.counter = e.counter
         /\ f.completed = IF e.tick <= 1 /\ e.edges = 1
                          THEN (e.completed + 1) % CounterModulus ELSE e.completed
<1>1. /\ e.pc + 1 \in Nat /\ e.edges \in Nat /\ e.tick \in Nat /\ e.period \in Nat
      /\ e.completed \in Nat
  BY FieldTypes
<1>2. CASE e.tick > 1
  <2>1. f = [e EXCEPT !.tick = e.tick - 1]
    BY <1>2 DEF Transfer
  <2>2. e.tick - 1 \in Nat
    BY <1>1, <1>2
  <2>3. /\ f \in EngineStates
        /\ f.timer = 0 /\ f.blocked = 0 /\ f.limit = e.limit
        /\ f.edges = e.edges /\ f.tick = e.tick - 1 /\ f.period = e.period
        /\ f.running = e.running /\ f.fault = e.fault
        /\ f.counter = e.counter /\ f.completed = e.completed
    BY <2>1, <2>2 DEF EngineStates
  <2>4. (e.edges - 1) * e.period \in Nat
    BY <1>1, SMTT(20)
  <2> QED
    BY <1>1, <1>2, <2>3, <2>4 DEF Held
<1>3. CASE e.tick = 1
  <2> DEFINE moved == [e EXCEPT !.tick = e.period, !.edges = e.edges - 1]
  <2>1. e.edges - 1 \in Nat
    BY <1>1
  <2>2. /\ moved \in EngineStates
        /\ moved.timer = 0 /\ moved.blocked = 0 /\ moved.limit = e.limit /\ moved.pc = e.pc
        /\ moved.edges = e.edges - 1 /\ moved.tick = e.period /\ moved.period = e.period
        /\ moved.running = e.running /\ moved.fault = e.fault
        /\ moved.counter = e.counter /\ moved.completed = e.completed
    BY <2>1, <1>1 DEF EngineStates
  <2>3. f = IF e.edges = 1 THEN Finish(moved) ELSE moved
    BY <1>3 DEF Transfer
  <2> HIDE DEF moved
  <2>4. CASE e.edges = 1
    <3>1. PICK next \in Nat : next = e.pc + 1
      BY <1>1
    <3> DEFINE r == Retire(moved, next)
    <3>2. f = r
      BY <2>2, <2>3, <2>4, <3>1 DEF Finish
    <3>3. /\ r \in EngineStates
          /\ r.timer = 0 /\ r.blocked = 0 /\ r.limit = moved.limit
          /\ r.edges = moved.edges
          /\ r.running = moved.running /\ r.fault = moved.fault
          /\ r.counter = moved.counter /\ r.completed = (moved.completed + 1) % CounterModulus
      BY <2>2, Retired
    <3> HIDE DEF r
    <3>4. Held(e) = 1
      BY <1>1, <1>3, <2>4 DEF Held
    <3>5. Held(f) = 0
      BY <2>2, <2>4, <3>2, <3>3 DEF Held
    <3> QED
      BY <1>3, <2>2, <2>4, <3>2, <3>3, <3>4, <3>5
  <2>5. CASE e.edges # 1
    <3>1. (e.edges - 1) * e.period \in Nat
      BY <1>1, <2>1, SMTT(20)
    <3>2. Held(e) = 1 + (e.edges - 1) * e.period
      BY <1>3, <3>1 DEF Held
    <3>3. Held(f) = e.period + (e.edges - 1 - 1) * e.period
      BY <1>1, <2>2, <2>3, <2>5 DEF Held
    <3>4. ASSUME NEW n \in Nat, NEW m \in Nat
          PROVE  m + (n - 1 - 1) * m = (n - 1) * m
      BY <3>4, SMTT(20)
    <3>5. ASSUME NEW n \in Nat, NEW m \in Nat, n # 0, n # 1, m # 0
          PROVE  (n - 1) * m \in Nat \ {0}
      BY <3>5, SMTT(20)
    <3>6. (e.edges - 1) * e.period \in Nat \ {0}
      BY <1>1, <2>5, <3>5
    <3>7. Held(f) = Held(e) - 1 /\ Held(f) # 0
      <4>1. e.period + (e.edges - 1 - 1) * e.period = (e.edges - 1) * e.period
        BY <1>1, <3>4
      <4> QED
        BY <3>2, <3>3, <3>6, <4>1
    <3> QED
      BY <1>1, <1>3, <2>2, <2>3, <2>5, <3>7
  <2> QED
    BY <2>4, <2>5
<1> QED
  BY <1>1, <1>2, <1>3

-----------------------------------------------------------------------------
\* An engine starts in its invariant.
LEMMA EngineStarts == EngineInit => TimelyInv
<1> SUFFICES ASSUME EngineInit
             PROVE  TimelyInv
  OBVIOUS
<1>1. Cleared \in EngineStates /\ ~Cleared.running /\ Cleared.timer = 0 /\ Cleared.edges = 0
      /\ Cleared.counter = Cleared.completed
  BY DEF Cleared, Started, EngineStates
<1>2. EngineTypeOK
  BY <1>1, ImagesAssumption DEF EngineInit, EngineTypeOK
<1> QED
  BY <1>1, <1>2 DEF EngineInit, TimelyInv, HeldOnce, SamplesAtWait, Timely, OnTime, WaitBounded,
     CountersAgree, Active

(* An edge of an active engine.                                            *)
LEMMA RunTimely ==
  ASSUME TimelyInv, NEW met \in BOOLEAN, Run(met)
  PROVE  TimelyInv'
<1> DEFINE f == Step(engine, image, met)
           counted == Counted(engine, image, met)
<1>1. /\ engine \in EngineStates /\ image \in Seq(Decoded) /\ unmet \in Nat /\ owed \in Nat
      /\ Active(engine) /\ owed = Held(engine) /\ (Issues <=> owed = 0)
      /\ engine.blocked = unmet /\ unmet < engine.limit
      /\ engine.counter = engine.completed
      /\ engine.blocked # 0 => Issues /\ AtWait
      /\ engine.timer # 0 => engine.edges = 0
      /\ engine.edges # 0 => engine.tick # 0 /\ engine.period # 0
  BY DEF Run, TimelyInv, EngineTypeOK, HeldOnce, SamplesAtWait, Timely, OnTime, WaitBounded,
         CountersAgree, Remaining, Held
<1>2. /\ engine.timer \in Nat /\ engine.edges \in Nat /\ engine.limit \in Nat
      /\ engine.completed \in Nat
  BY <1>1, FieldTypes
<1>3. Inside(engine, image) => Current(engine, image) \in Decoded
  <2>1. engine.pc \in Nat
    BY <1>1, FieldTypes
  <2> QED
    BY <1>1, <2>1 DEF Inside, Current
<1> DEFINE Follows ==
      /\ f \in EngineStates
      /\ f.timer # 0 => f.edges = 0
      /\ f.edges # 0 => f.tick # 0 /\ f.period # 0
      /\ Active(f) => Held(f) = owed' /\ (f.timer = 0 /\ f.edges = 0 <=> owed' = 0)
      /\ Active(f) => f.blocked = unmet' /\ f.blocked < f.limit
      /\ Active(f) /\ f.blocked # 0 =>
           f.timer = 0 /\ f.edges = 0 /\ f.pc = engine.pc /\ AtWait
      /\ f.counter = engine.counter
      /\ f.completed = counted
      /\ unmet' \in Nat /\ owed' \in Nat
<1>4. unmet' = IF Issues /\ AtWait /\ ~met THEN unmet + 1 ELSE 0
  BY <1>1, <1>2 DEF Run
<1>5. Follows
  <2>1. CASE engine.timer # 0
    <3>1. f = [engine EXCEPT !.timer = engine.timer - 1]
      BY <2>1 DEF Step
    <3>2. engine.timer - 1 \in Nat
      BY <1>2, <2>1
    <3>3. /\ f \in EngineStates /\ f.timer = engine.timer - 1 /\ f.edges = engine.edges
          /\ f.blocked = engine.blocked /\ f.limit = engine.limit
          /\ f.counter = engine.counter /\ f.completed = engine.completed
      BY <1>1, <3>1, <3>2 DEF EngineStates
    <3>4. owed' = owed - 1 /\ unmet' = 0 /\ engine.blocked = 0
      BY <1>1, <1>4, <2>1 DEF Run, Issues
    <3>5. Held(engine) = engine.timer /\ Held(f) = engine.timer - 1
      BY <1>1, <1>2, <2>1, <3>3 DEF Held
    <3>6. counted = engine.counter
      BY <2>1 DEF Counted, Increment
    <3> HIDE DEF f, counted
    <3> QED
      BY <1>1, <1>2, <2>1, <3>3, <3>4, <3>5, <3>6
  <2>2. CASE engine.timer = 0 /\ engine.edges # 0
    <3>1. f = Transfer(engine)
      BY <2>2 DEF Step
    <3>2. owed' = owed - 1 /\ unmet' = 0 /\ engine.blocked = 0 /\ owed # 0
      BY <1>1, <1>4, <2>2 DEF Run, Issues
    <3>3. counted = IF engine.tick <= 1 /\ engine.edges = 1
                    THEN (engine.completed + 1) % CounterModulus ELSE engine.completed
      BY <1>1, <2>2 DEF Counted, Increment
    <3> HIDE DEF f, counted
    <3>4. /\ f \in EngineStates
          /\ f.timer = 0 /\ f.blocked = 0 /\ f.limit = engine.limit
          /\ f.edges # 0 => f.tick # 0 /\ f.period # 0
          /\ Held(f) = Held(engine) - 1
          /\ f.edges = 0 <=> Held(f) = 0
          /\ f.counter = engine.counter
          /\ f.completed = counted
      BY <1>1, <2>2, <3>1, <3>2, <3>3, Transferred
    <3> QED
      BY <1>1, <1>2, <3>2, <3>4
  <2>3. CASE engine.timer = 0 /\ engine.edges = 0 /\ Inside(engine, image)
    <3> DEFINE i == Current(engine, image)
    <3>1. f = Execute(engine, i, met)
      BY <2>3 DEF Step
    <3>2. owed' = Extra(i)
      BY <2>3 DEF Run, Issues
    <3>3. unmet' = IF Waits(i) /\ ~met THEN engine.blocked + 1 ELSE 0
      BY <1>1, <1>4, <2>3 DEF Issues, AtWait
    <3>4. engine.blocked # 0 => Waits(i)
      BY <1>1 DEF AtWait
    <3>5. counted = IF Completes(i, met) THEN (engine.completed + 1) % CounterModulus
                    ELSE engine.completed
      BY <1>1, <2>3 DEF Counted, Increment, Completes
    <3>6. i \in Decoded
      BY <1>3, <2>3
    <3>7. Extra(i) \in Nat
      <4>1. i.n \in Nat /\ i.m \in Nat
        BY <3>6 DEF Decoded, Instructions
      <4>2. 2 * i.n * i.m \in Nat
        BY <4>1, SMTT(20)
      <4> QED
        BY <4>1, <4>2 DEF Extra
    <3>8. AtWait <=> Waits(i)
      BY <2>3 DEF AtWait
    <3>9. engine.blocked + 1 \in Nat
      BY <1>1
    <3>10. engine.blocked < engine.limit
      BY <1>1
    <3> HIDE DEF f, counted, i
    <3>11. /\ f \in EngineStates
           /\ f.timer # 0 => f.edges = 0
           /\ f.edges # 0 => f.tick # 0 /\ f.period # 0
           /\ Active(f) => Held(f) = Extra(i) /\ (f.timer = 0 /\ f.edges = 0 <=> Extra(i) = 0)
           /\ Active(f) => f.blocked = IF Waits(i) /\ ~met THEN engine.blocked + 1 ELSE 0
           /\ Active(f) => f.blocked < f.limit
           /\ f.blocked # 0 /\ Active(f) => f.timer = 0 /\ f.edges = 0 /\ f.pc = engine.pc
           /\ f.counter = engine.counter
           /\ f.completed = IF Completes(i, met) THEN (engine.completed + 1) % CounterModulus
                           ELSE engine.completed
      BY <1>1, <2>3, <3>1, <3>4, <3>6, <3>10, Executed
    <3>12. ASSUME Active(f), f.blocked # 0
           PROVE  AtWait
      <4>1. Waits(i)
        BY <3>11, <3>12 DEF Active, Waits
      <4> QED
        BY <3>8, <4>1
    <3> QED
      BY <3>2, <3>3, <3>5, <3>7, <3>9, <3>11, <3>12
  <2>4. CASE engine.timer = 0 /\ engine.edges = 0 /\ ~Inside(engine, image)
    <3>1. f = Fail(engine, 2)
      BY <2>4 DEF Step
    <3>2. owed' = 0 /\ unmet' = 0
      BY <1>1, <1>4, <2>4 DEF Run, Issues, AtWait
    <3>3. counted = engine.completed
      BY <1>1, <2>4 DEF Counted, Increment
    <3> HIDE DEF f, counted
    <3>4. /\ f \in EngineStates /\ ~f.running /\ f.edges = 0 /\ f.timer = 0
          /\ f.completed = engine.completed /\ f.counter = engine.counter
      BY <1>1, <2>4, <3>1, 2 \in Nat, Failed
    <3> QED
      BY <3>2, <3>3, <3>4 DEF Active
  <2> QED
    BY <1>2, <2>1, <2>2, <2>3, <2>4
<1>6. engine' = [f EXCEPT !.counter = counted] /\ image' = image
  BY DEF Run
<1> HIDE DEF f
<1>7. counted \in Nat
  BY <1>1, <1>2, <1>5, FieldTypes
<1> HIDE DEF counted
<1>8. /\ engine' \in EngineStates
      /\ engine'.running = f.running /\ engine'.fault = f.fault /\ engine'.pc = f.pc
      /\ engine'.timer = f.timer /\ engine'.edges = f.edges
      /\ engine'.tick = f.tick /\ engine'.period = f.period
      /\ engine'.blocked = f.blocked /\ engine'.limit = f.limit
      /\ engine'.completed = f.completed /\ engine'.counter = counted
  BY <1>5, <1>6, <1>7 DEF EngineStates
<1>9. EngineTypeOK' /\ HeldOnce'
  BY <1>1, <1>5, <1>6, <1>8 DEF EngineTypeOK, HeldOnce
<1>10. SamplesAtWait'
  BY <1>5, <1>6, <1>8 DEF SamplesAtWait, Active, Issues, AtWait, Inside, Current
<1>11. OnTime'
  BY <1>5, <1>8 DEF OnTime, Active, Remaining, Held, Issues
<1>12. WaitBounded' /\ CountersAgree'
  BY <1>5, <1>8 DEF WaitBounded, CountersAgree, Active
<1> QED
  BY <1>9, <1>10, <1>11, <1>12 DEF TimelyInv, Timely

(* The host's commands.                                                    *)
LEMMA CommandTimely ==
  ASSUME TimelyInv, Stop \/ Start \/ Clear \/ EngineReset
  PROVE  TimelyInv'
<1>1. /\ Cleared \in EngineStates /\ ~Cleared.running /\ Cleared.timer = 0 /\ Cleared.edges = 0
      /\ Cleared.counter = Cleared.completed
      /\ Started \in EngineStates /\ Started.timer = 0 /\ Started.edges = 0
      /\ Started.blocked = 0 /\ Started.limit = DefaultLimit
      /\ Started.counter = Started.completed
  BY DEF Cleared, Started, EngineStates
<1>2. /\ engine \in EngineStates /\ engine.counter = engine.completed
      /\ engine.timer # 0 => engine.edges = 0
      /\ engine.edges # 0 => engine.tick # 0 /\ engine.period # 0
      /\ image \in Seq(Decoded) /\ unmet \in Nat /\ owed \in Nat
  BY DEF TimelyInv, EngineTypeOK, HeldOnce, Timely, CountersAgree
<1> USE DEF TimelyInv, EngineTypeOK, HeldOnce, SamplesAtWait, Timely, OnTime, WaitBounded,
            CountersAgree, Active, Issues, Remaining
<1>3. CASE Stop
  <2>1. /\ engine' \in EngineStates /\ ~engine'.running /\ engine'.edges = 0
        /\ engine'.counter = engine'.completed
    BY <1>2, <1>3 DEF Stop, EngineStates
  <2> QED
    BY <1>2, <1>3, <2>1 DEF Stop
<1>4. CASE Start
  BY <1>1, <1>2, <1>4 DEF Start
<1>5. CASE Clear
  <2>1. /\ engine' \in EngineStates /\ ~engine'.running
        /\ engine'.timer = engine.timer /\ engine'.edges = engine.edges
        /\ engine'.tick = engine.tick /\ engine'.period = engine.period
        /\ engine'.counter = engine'.completed
    BY <1>2, <1>5 DEF Clear, EngineStates
  <2> QED
    BY <1>2, <1>5, <2>1 DEF Clear
<1>6. CASE EngineReset
  BY <1>1, <1>2, <1>6 DEF EngineReset
<1> QED
  BY <1>3, <1>4, <1>5, <1>6

(* The three counts of an engine are right for every image, whatever its   *)
(* waits sample and whenever the host stops, starts or clears it           *)
(* (engine.ml 150-245): the next instruction issues on the exact edge the  *)
(* last one's cost says, a wait times out after LIMIT samples of its own,  *)
(* and the counter of the split_instruction_decode builds counts what      *)
(* completes.                                                              *)
THEOREM EngineTimely == EngineSpec => []Timely
<1>1. TimelyInv /\ [EngineNext]_engineVars => TimelyInv'
  <2> SUFFICES ASSUME TimelyInv, [EngineNext]_engineVars
               PROVE  TimelyInv'
    OBVIOUS
  <2>1. CASE EngineNext
    BY <2>1, RunTimely, CommandTimely DEF EngineNext
  <2>2. CASE UNCHANGED engineVars
    BY <2>2 DEF engineVars, TimelyInv, EngineTypeOK, HeldOnce, SamplesAtWait, Timely, OnTime,
       WaitBounded, CountersAgree, Issues, AtWait, Remaining
  <2> QED
    BY <2>1, <2>2
<1>2. TimelyInv => Timely
  BY DEF TimelyInv
<1> QED
  BY EngineStarts, <1>1, <1>2, PTL DEF EngineSpec

-----------------------------------------------------------------------------
(* The mailboxes.  Each register of the synchronizer holds the pins of the *)
(* edge it was loaded for as soon as that many edges have passed, which is *)
(* before a detector can be enabled.                                       *)
Filled ==
  /\ trace \in Seq(SUBSET InputPins) /\ age \in 0 .. CommandEdges
  /\ Len(trace) = IF age < 3 THEN age ELSE 3
  /\ Len(trace) >= 1 => sync1 = trace[Len(trace)]
  /\ Len(trace) >= 2 => synced_pins = trace[Len(trace) - 1]
  /\ Len(trace) = 3 => previous_pins = trace[1]
EnabledLate ==
  /\ trigger_config \in [Engines -> Configs]
  /\ \A k \in Engines : trigger_config[k].enable => age = CommandEdges

FilledInv == Filled /\ EnabledLate

Hosts ==
  {NoCommand} \cup [op : {"event"}, mask : SUBSET Engines]
              \cup [op : {"trigger"}, engine : Engines, config : Configs]

(* Every step of the mailboxes is a reset or one edge.                     *)
LEMMA MailboxSteps ==
  ASSUME MailboxNext
  PROVE  \/ MailboxReset
         \/ \E uio \in SUBSET InputPins, host \in Hosts, waits, signals \in SUBSET Engines :
              MailboxEdge(uio, host, waits, signals)
<1>1. CASE NoActivity
  <2>1. {} \in SUBSET Engines /\ NoCommand \in Hosts
    BY DEF Hosts
  <2> QED
    BY <1>1, <2>1 DEF NoActivity
<1>2. CASE Running
  <2>1. NoCommand \in Hosts
    BY DEF Hosts
  <2> QED
    BY <1>2, <2>1 DEF Running
<1>3. CASE Event
  <2>1. PICK uio \in SUBSET InputPins, waits \in SUBSET Engines, mask \in SUBSET Engines :
          MailboxEdge(uio, [op |-> "event", mask |-> mask], waits, {})
    BY <1>3 DEF Event
  <2>2. [op |-> "event", mask |-> mask] \in Hosts /\ {} \in SUBSET Engines
    BY DEF Hosts
  <2> QED
    BY <2>1, <2>2
<1>4. CASE Trigger
  <2>1. PICK uio \in SUBSET InputPins, waits \in SUBSET Engines, signals \in SUBSET Engines,
             k \in Engines, config \in Configs :
          MailboxEdge(uio, [op |-> "trigger", engine |-> k, config |-> config], waits, signals)
    BY <1>4 DEF Trigger
  <2>2. [op |-> "trigger", engine |-> k, config |-> config] \in Hosts
    BY DEF Hosts
  <2> QED
    BY <2>1, <2>2
<1> QED
  BY <1>1, <1>2, <1>3, <1>4 DEF MailboxNext

\* A history of three samples after one more.
LEMMA ShiftedIn ==
  ASSUME NEW S, NEW s \in Seq(S), Len(s) = 3, NEW x \in S
  PROVE  LET t == Append(Tail(s), x)
         IN  t \in Seq(S) /\ Len(t) = 3 /\ t[1] = s[2] /\ t[2] = s[3] /\ t[3] = x
<1>1. s # << >>
  OBVIOUS
<1> DEFINE rest == Tail(s)
<1>2. rest \in Seq(S)
  BY <1>1
<1>3. Len(rest) = 2 /\ rest[1] = s[2] /\ rest[2] = s[3]
  BY <1>1
<1> HIDE DEF rest
<1>4. Append(rest, x) \in Seq(S) /\ Len(Append(rest, x)) = Len(rest) + 1
  BY <1>2
<1>5. /\ \A i \in 1 .. Len(rest) : Append(rest, x)[i] = rest[i]
      /\ Append(rest, x)[Len(rest) + 1] = x
  BY <1>2
<1>6. Len(rest) + 1 = 3 /\ 1 \in 1 .. Len(rest) /\ 2 \in 1 .. Len(rest)
  BY <1>3
<1> QED
  BY <1>3, <1>4, <1>5, <1>6 DEF rest

\* Synchronizers and detectors hold the samples they should after an edge.
LEMMA MailboxEdgeFills ==
  ASSUME FilledInv,
         NEW uio \in SUBSET InputPins, NEW host \in Hosts,
         NEW waits, NEW signals, MailboxEdge(uio, host, waits, signals)
  PROVE  FilledInv'
<1> USE CommandAssumption
<1>1. /\ trace \in Seq(SUBSET InputPins) /\ Len(trace) \in 0 .. 3
      /\ age \in 0 .. CommandEdges /\ Len(trace) = IF age < 3 THEN age ELSE 3
      /\ sync1' = uio /\ synced_pins' = sync1 /\ previous_pins' = synced_pins
      /\ age' = IF age < CommandEdges THEN age + 1 ELSE age
      /\ trace' = Append(IF Len(trace) = 3 THEN Tail(trace) ELSE trace, uio)
  BY DEF FilledInv, Filled, MailboxEdge
<1>2. Filled'
  <2>1. CASE Len(trace) = 3
    <3>1. trace' = Append(Tail(trace), uio)
      BY <1>1, <2>1
    <3>2. /\ trace' \in Seq(SUBSET InputPins) /\ Len(trace') = 3
          /\ trace'[1] = trace[2] /\ trace'[2] = trace[3] /\ trace'[3] = uio
      BY <1>1, <2>1, <3>1, ShiftedIn
    <3>3. age >= 3 /\ age \in 0 .. CommandEdges /\ age' = IF age < CommandEdges THEN age + 1 ELSE age
      BY <1>1, <2>1
    <3>4. age' >= 3 /\ age' \in 0 .. CommandEdges
      BY <3>3
    <3>5. sync1 = trace[3] /\ synced_pins = trace[2]
      <4>1. Len(trace) >= 1 /\ Len(trace) >= 2 /\ Len(trace) - 1 = 2
        BY <2>1
      <4> QED
        BY <2>1, <4>1 DEF FilledInv, Filled
    <3>6. Len(trace') - 1 = 2
      BY <3>2
    <3> QED
      BY <1>1, <3>2, <3>4, <3>5, <3>6 DEF Filled
  <2>2. CASE Len(trace) # 3
    <3>1. trace' = Append(trace, uio)
      BY <1>1, <2>2
    <3>2. /\ trace' \in Seq(SUBSET InputPins) /\ Len(trace') = Len(trace) + 1
          /\ trace'[Len(trace) + 1] = uio
          /\ \A i \in 1 .. Len(trace) : trace'[i] = trace[i]
      BY <1>1, <3>1
    <3>3. age = Len(trace) /\ age' = age + 1
      BY <1>1, <2>2 DEF FilledInv, Filled
    <3> QED
      BY <1>1, <2>2, <3>2, <3>3 DEF FilledInv, Filled
  <2> QED
    BY <2>1, <2>2
<1>3. EnabledLate'
  <2>1. CASE host.op = "trigger"
    <3>1. age = CommandEdges /\ age' = CommandEdges
      BY <1>1, <2>1 DEF MailboxEdge, CommandPossible
    <3>2. host.engine \in Engines /\ host.config \in Configs
      BY <2>1 DEF Hosts, NoCommand
    <3>3. trigger_config' = [trigger_config EXCEPT ![host.engine] = host.config]
      BY <2>1 DEF MailboxEdge
    <3> QED
      BY <3>1, <3>2, <3>3 DEF FilledInv, EnabledLate
  <2>2. CASE host.op # "trigger"
    <3>1. trigger_config' = trigger_config
      BY <2>2 DEF MailboxEdge
    <3>2. age = CommandEdges => age' = CommandEdges
      BY <1>1
    <3> QED
      BY <3>1, <3>2 DEF FilledInv, EnabledLate
  <2> QED
    BY <2>1, <2>2
<1> QED
  BY <1>2, <1>3 DEF FilledInv

\* ... and before the first one.
LEMMA NothingFilled ==
  ASSUME trace = << >>, age = 0, trigger_config = [k \in Engines |-> Off]
  PROVE  FilledInv
<1>1. Off \in Configs /\ ~Off.enable
  BY DEF Off, Configs
<1>2. EnabledLate
  BY <1>1 DEF EnabledLate
<1>3. << >> \in Seq(SUBSET InputPins) /\ Len(<< >>) = 0 /\ 0 \in 0 .. CommandEdges
  BY CommandAssumption
<1>4. Filled
  BY <1>3 DEF Filled
<1> QED
  BY <1>2, <1>4 DEF FilledInv

LEMMA FilledStays == FilledInv /\ [MailboxNext]_mailboxVars => FilledInv'
<1> SUFFICES ASSUME FilledInv, [MailboxNext]_mailboxVars
             PROVE  FilledInv'
  OBVIOUS
<1>1. CASE UNCHANGED mailboxVars
  BY <1>1 DEF mailboxVars, sampleVars, historyVars, FilledInv, Filled, EnabledLate
<1>2. CASE MailboxReset
  <2>1. trace' = << >> /\ age' = 0 /\ trigger_config' = [k \in Engines |-> Off]
    BY <1>2 DEF MailboxReset
  <2>2. Off \in Configs /\ ~Off.enable
    BY DEF Off, Configs
  <2>3. EnabledLate'
    BY <2>1, <2>2 DEF EnabledLate
  <2>4. << >> \in Seq(SUBSET InputPins) /\ Len(<< >>) = 0 /\ 0 \in 0 .. CommandEdges
    BY CommandAssumption
  <2>5. Filled'
    BY <2>1, <2>4 DEF Filled
  <2> QED
    BY <2>3, <2>5 DEF FilledInv
<1>3. CASE MailboxNext /\ ~MailboxReset
  BY <1>3, MailboxSteps, MailboxEdgeFills
<1> QED
  BY <1>1, <1>2, <1>3

\* What an enabled detector compares are then samples of the pins.
LEMMA FilledIsNatural == FilledInv => NoArtificialEdge
<1> SUFFICES ASSUME FilledInv, NEW k \in Engines, trigger_config[k].enable
             PROVE  Len(trace) = 3 /\ previous_pins = trace[1] /\ synced_pins = trace[2]
  BY DEF NoArtificialEdge
<1>1. age = CommandEdges
  BY DEF FilledInv, EnabledLate
<1>2. Len(trace) = 3
  BY <1>1, CommandAssumption DEF FilledInv, Filled
<1> QED
  <2>1. Len(trace) >= 2 /\ Len(trace) - 1 = 2
    BY <1>2
  <2> QED
    BY <1>2, <2>1 DEF FilledInv, Filled

(* "Enabling an edge detector at a static level creates no artificial      *)
(* edge" (docs/isa.md 173): an enabled detector never compares a cleared   *)
(* register, whatever the host configures and whenever.                    *)
THEOREM NoArtificialEdges == MailboxSpec => []NoArtificialEdge
<1>1. MailboxInit => FilledInv
  BY NothingFilled DEF MailboxInit
<1>2. FilledInv /\ [MailboxNext]_mailboxVars => FilledInv'
  BY FilledStays
<1>3. FilledInv => NoArtificialEdge
  BY FilledIsNatural
<1> QED
  BY <1>1, <1>2, <1>3, PTL DEF MailboxSpec

(* An engine that counts pulses: its detector is an edge detector, and a   *)
(* pulse its mailbox holds while it is away is not met by a second one,    *)
(* whose level before it the pin does not have.                            *)
AwayInv ==
  \A k \in counting :
    /\ trigger_config[k].enable /\ trigger_config[k].mode \in {"rising", "falling"}
    /\ k \in woken /\ k \in events => ~Pulse(trigger_config[k], trace[1], trace[2])
CountingInv == FilledInv /\ counting \subseteq Engines /\ PulsesCounted /\ AwayInv

LEMMA CountingEdge ==
  ASSUME CountingInv,
         NEW uio \in SUBSET InputPins, NEW host \in Hosts,
         NEW waits, NEW signals, MailboxEdge(uio, host, waits, signals)
  PROVE  CountingInv'
<1>1. FilledInv'
  BY MailboxEdgeFills DEF CountingInv
<1>2. /\ counting' = InLoop(host, waits, signals)
      /\ woken' = waits \cap events
      /\ events' = (events \ (waits \cap events)) \cup Delivered(host, signals)
  BY DEF MailboxEdge, CountPulses, Events
<1>3. counting' \subseteq Engines
  BY <1>2 DEF InLoop
<1>4. ASSUME NEW k \in counting'
      PROVE  /\ unanswered'[k] = One(k \in events') + UnderWay(k)'
             /\ trigger_config'[k].enable /\ trigger_config'[k].mode \in {"rising", "falling"}
             /\ k \in woken' /\ k \in events' => ~Pulse(trigger_config'[k], trace'[1], trace'[2])
  <2> DEFINE c == trigger_config[k]
             arrives == Pulse(c, trace[1], trace[2])
             second  == Pulse(c, trace[2], trace[3])
             starts  == Pulse(c, trace[3], uio)
             held    == k \in events
  <2>1. /\ k \in Engines /\ k \notin signals
        /\ c.enable /\ c.mode \in {"rising", "falling"}
        /\ k \in waits \/ (k \in woken /\ k \in counting)
        /\ ~(host.op = "event" /\ k \in host.mask)
        /\ ~(host.op = "trigger" /\ host.engine = k)
    BY <1>2 DEF InLoop
  <2>2. trigger_config'[k] = c
    <3>1. trigger_config \in [Engines -> Configs]
      BY DEF CountingInv, FilledInv, EnabledLate
    <3> QED
      BY <2>1, <3>1 DEF MailboxEdge
  <2>3. Len(trace) = 3 /\ previous_pins = trace[1] /\ synced_pins = trace[2]
    BY <2>1, FilledIsNatural DEF CountingInv, NoArtificialEdge
  <2>4. trace'[1] = trace[2] /\ trace'[2] = trace[3] /\ trace'[3] = uio
    <3>1. trace' = Append(Tail(trace), uio)
      BY <2>3 DEF MailboxEdge
    <3>2. trace \in Seq(SUBSET InputPins)
      BY DEF CountingInv, FilledInv, Filled
    <3> QED
      BY <2>3, <3>1, <3>2, ShiftedIn
  <2>5. k \in Delivered(host, signals) <=> arrives
    BY <2>1, <2>3 DEF Delivered, ExternalEvents, Condition, Pulse
  <2>6. k \in events' <=> arrives \/ (held /\ k \notin waits)
    BY <1>2, <2>5
  <2>7. UnderWay(k) = One(arrives) + One(second) /\ UnderWay(k)' = One(second) + One(starts)
    BY <2>2, <2>4 DEF UnderWay
  <2>8. unanswered'[k] =
          (IF k \in counting THEN unanswered[k] ELSE One(held) + UnderWay(k))
            + One(starts) - One(k \in woken')
    BY <2>1 DEF MailboxEdge, CountPulses
  <2>9. k \in counting => unanswered[k] = One(held) + UnderWay(k)
    BY DEF CountingInv, PulsesCounted
  <2>10. unanswered'[k] = One(held) + (One(arrives) + One(second)) + One(starts) - One(k \in woken')
    BY <2>7, <2>8, <2>9
  <2>11. k \in woken' <=> k \in waits /\ held
    BY <1>2
  <2>12. k \notin waits => ~(held /\ arrives)
    BY <2>1 DEF CountingInv, AwayInv
  <2>13. k \in woken' /\ k \in events' => ~Pulse(c, trace[2], trace[3])
    BY <2>6, <2>11 DEF Pulse
  <2> HIDE DEF c, arrives, second, starts, held
  <2>14. /\ One(held) \in {0, 1} /\ One(arrives) \in {0, 1} /\ One(second) \in {0, 1}
         /\ One(starts) \in {0, 1} /\ One(k \in woken') \in {0, 1} /\ One(k \in events') \in {0, 1}
    BY DEF One
  <2>15. One(k \in events') = One(held) + One(arrives) - One(k \in woken')
    <3>1. CASE k \in waits
      BY <2>6, <2>11, <3>1 DEF One
    <3>2. CASE k \notin waits
      BY <2>6, <2>11, <2>12, <3>2 DEF One
    <3> QED
      BY <3>1, <3>2
  <2>16. unanswered'[k] = One(k \in events') + UnderWay(k)'
    BY <2>7, <2>10, <2>14, <2>15
  <2> QED
    BY <2>1, <2>2, <2>4, <2>13, <2>16 DEF c
<1> QED
  <2>1. PulsesCounted'
    BY <1>4 DEF PulsesCounted
  <2>2. AwayInv'
    BY <1>4 DEF AwayInv
  <2> QED
    BY <1>1, <1>3, <2>1, <2>2 DEF CountingInv

(* An engine in its counting loop is woken exactly once by every pulse of  *)
(* its pin, for any number of engines and pins, whatever the others and    *)
(* the host do meanwhile (processor.ml 284-307, docs/isa.md 51, 167-175).  *)
THEOREM EveryPulseCounted == MailboxSpec => []PulsesCounted
<1>1. MailboxInit => CountingInv
  <2> SUFFICES ASSUME MailboxInit PROVE CountingInv
    OBVIOUS
  <2>1. FilledInv
    BY NothingFilled DEF MailboxInit
  <2>2. counting = {}
    BY DEF MailboxInit
  <2> QED
    BY <2>1, <2>2 DEF CountingInv, PulsesCounted, AwayInv
<1>2. CountingInv /\ [MailboxNext]_mailboxVars => CountingInv'
  <2> SUFFICES ASSUME CountingInv, [MailboxNext]_mailboxVars
               PROVE  CountingInv'
    OBVIOUS
  <2>1. FilledInv'
    BY FilledStays DEF CountingInv
  <2>2. CASE UNCHANGED mailboxVars
    <3>1. /\ trace' = trace /\ woken' = woken /\ counting' = counting
          /\ unanswered' = unanswered /\ events' = events /\ trigger_config' = trigger_config
      BY <2>2 DEF mailboxVars, historyVars
    <3> QED
      BY <2>1, <3>1 DEF CountingInv, PulsesCounted, AwayInv, UnderWay, Pulse, One
  <2>3. CASE MailboxReset
    <3>1. counting' = {}
      BY <2>3 DEF MailboxReset
    <3> QED
      BY <2>1, <3>1 DEF CountingInv, PulsesCounted, AwayInv
  <2>4. CASE MailboxNext /\ ~MailboxReset
    BY <2>4, MailboxSteps, CountingEdge
  <2> QED
    BY <2>2, <2>3, <2>4
<1>3. CountingInv => PulsesCounted
  BY DEF CountingInv
<1> QED
  BY <1>1, <1>2, <1>3, PTL DEF MailboxSpec

-----------------------------------------------------------------------------
(* Fused transfers.  2 * h + odd transitions have been made, the next one  *)
(* leaves the idle level when odd = 0.                                     *)
Made(h, odd) ==
  /\ h \in 0 .. word.bits /\ odd \in Bit /\ (odd = 1 => h < word.bits)
  /\ transfer_edges = 2 * (word.bits - h) - odd

(* The clock, and the cycles since issue.                                  *)
Clocked(h, odd) ==
  /\ ck = (IF odd = 0 THEN transfer_mode.cpol ELSE 1 - transfer_mode.cpol)
  /\ transfer_tick \in 1 .. transfer_period
  /\ since = (2 * h + odd) * transfer_period + (transfer_period - transfer_tick)

(* tx is the word shifted out so far, out its bit.  CPHA 0 shifts on the   *)
(* edges back to idle, CPHA 1 on the others; CPHA 0 keeps the last bit.    *)
Shifted(msb, data, s) ==
  [i \in Indices |->
     IF msb THEN IF i < s THEN 0 ELSE data[i - s]
     ELSE IF i + s > Width - 1 THEN 0 ELSE data[i + s]]
ShiftsMade(h, odd) == IF transfer_mode.cpha = 0 THEN h ELSE h + odd
BitsOut(h, odd) ==
  IF transfer_mode.cpha = 1 THEN h + odd
  ELSE IF h = word.bits THEN h ELSE h + 1
Presented(h, odd) ==
  /\ presented \in Seq(Bit)
  /\ Len(presented) = IF transfer_mode.cpha = 0 THEN h + odd ELSE h
  /\ transfer_mode.drive =>
       /\ tx = Shifted(transfer_mode.msb, word.tx, ShiftsMade(h, odd))
       /\ BitsOut(h, odd) # 0 => out = word.tx[BitAt(BitsOut(h, odd))]
       /\ \A i \in 1 .. Len(presented) : presented[i] = word.tx[BitAt(i)]

(* rx ends with the bits received.                                         *)
Received ==
  /\ received \in Seq(Bit)
  /\ Len(received) = IF transfer_mode.sample THEN Len(presented) ELSE 0
  /\ \A i \in 1 .. Len(received) :
       received[i] = rx[IF transfer_mode.msb THEN Len(received) - i
                        ELSE Width - 1 - (Len(received) - i)]

RegistersOK == TransferTypeOK /\ (word.bits = 0 => transfer_edges = 0)
InTransfer(h, odd) == Made(h, odd) /\ Clocked(h, odd) /\ Presented(h, odd) /\ Received
TransferInv ==
  /\ RegistersOK
  /\ word.bits # 0 => /\ transfer_period \in 1 .. MaxPeriod
                      /\ \E h \in 0 .. word.bits, odd \in Bit : InTransfer(h, odd)

\* One more shift.
LEMMA ShiftedMore ==
  ASSUME NEW msb \in BOOLEAN, NEW data \in Reg, NEW s \in Nat
  PROVE  shift_tx(msb, Shifted(msb, data, s)) = Shifted(msb, data, s + 1)
<1> USE TransferAssumption DEF Indices
<1>1. ASSUME NEW i \in Indices, msb
      PROVE  (IF i = 0 THEN 0 ELSE Shifted(msb, data, s)[i - 1])
               = IF i < s + 1 THEN 0 ELSE data[i - (s + 1)]
  <2>1. CASE i = 0
    BY <2>1
  <2>2. CASE i # 0
    <3>1. i - 1 \in Indices /\ (i - 1 < s <=> i < s + 1) /\ i - 1 - s = i - (s + 1)
      BY <2>2
    <3> QED
      BY <1>1, <2>2, <3>1 DEF Shifted
  <2> QED
    BY <2>1, <2>2
<1>2. ASSUME NEW i \in Indices, ~msb
      PROVE  (IF i = Width - 1 THEN 0 ELSE Shifted(msb, data, s)[i + 1])
               = IF i + (s + 1) > Width - 1 THEN 0 ELSE data[i + (s + 1)]
  <2>1. CASE i = Width - 1
    BY <2>1
  <2>2. CASE i # Width - 1
    <3>1. i + 1 \in Indices /\ i + 1 + s = i + (s + 1)
      BY <2>2
    <3> QED
      BY <1>2, <2>2, <3>1 DEF Shifted
  <2> QED
    BY <2>1, <2>2
<1>3. CASE msb
  BY <1>1, <1>3 DEF shift_tx, Shifted
<1>4. CASE ~msb
  BY <1>2, <1>4 DEF shift_tx, Shifted
<1> QED
  BY <1>3, <1>4

\* The bit that is out next is the word's next bit.
LEMMA NextBit ==
  ASSUME NEW data \in Reg, NEW s \in 0 .. Width - 1
  PROVE  tx_bit(transfer_mode.msb, Shifted(transfer_mode.msb, data, s)) = data[BitAt(s + 1)]
<1> USE TransferAssumption DEF Indices
<1>1. CASE transfer_mode.msb
  <2>1. Width - 1 \in Indices /\ ~(Width - 1 < s) /\ Width - 1 - s = Width - (s + 1)
    OBVIOUS
  <2> QED
    BY <1>1, <2>1 DEF tx_bit, Shifted, BitAt
<1>2. CASE ~transfer_mode.msb
  <2>1. 0 \in Indices /\ ~(0 + s > Width - 1) /\ 0 + s = s + 1 - 1
    OBVIOUS
  <2> QED
    BY <1>2, <2>1 DEF tx_bit, Shifted, BitAt
<1> QED
  BY <1>1, <1>2

\* Shift and sample keep registers and bits.
LEMMA RegistersStay ==
  ASSUME NEW msb \in BOOLEAN, NEW data \in Reg, NEW bit \in Bit
  PROVE  /\ shift_tx(msb, data) \in Reg /\ sample(msb, data, bit) \in Reg
         /\ tx_bit(msb, data) \in Bit
         /\ Shifted(msb, data, 0) = data
<1> USE TransferAssumption DEF Indices, Reg, Bit
<1>1. ASSUME NEW i \in Indices
      PROVE  (i # 0 => i - 1 \in Indices) /\ (i # Width - 1 => i + 1 \in Indices)
  OBVIOUS
<1>2. 0 \in Indices /\ Width - 1 \in Indices
  OBVIOUS
<1>3. shift_tx(msb, data) \in Reg
  BY <1>1 DEF shift_tx
<1>4. sample(msb, data, bit) \in Reg
  BY <1>1 DEF sample
<1>5. tx_bit(msb, data) \in Bit
  BY <1>2 DEF tx_bit
<1>6. Shifted(msb, data, 0) = data
  <2>1. ASSUME NEW i \in Indices
        PROVE  Shifted(msb, data, 0)[i] = data[i]
    <3>1. ~(i < 0) /\ i - 0 = i /\ ~(i + 0 > Width - 1) /\ i + 0 = i
      OBVIOUS
    <3> QED
      BY <3>1 DEF Shifted
  <2>2. Shifted(msb, data, 0) = [i \in Indices |-> Shifted(msb, data, 0)[i]]
    BY DEF Shifted
  <2> QED
    BY <2>1, <2>2
<1> QED
  BY <1>3, <1>4, <1>5, <1>6

(* Which edge comes next.                                                  *)
LEMMA NextEdge ==
  ASSUME NEW n \in Nat, NEW h \in 0 .. n, NEW odd \in {0, 1},
         odd = 1 => h < n
  PROVE  /\ 2 * (n - h) - odd \in Nat
         /\ (2 * (n - h) - odd) % 2 = 0 <=> odd = 0
<1>1. PICK m \in Nat : m = n - h
  OBVIOUS
<1>2. odd = 1 => m # 0
  BY <1>1
<1>3. (2 * m) % 2 = 0
  BY SMTT(20)
<1>4. m # 0 => (2 * m - 1) % 2 = 1 /\ 2 * m - 1 \in Nat
  BY SMTT(20)
<1> QED
  BY <1>1, <1>2, <1>3, <1>4

(* What a transfer that is under way has made.                             *)
LEMMA Underway ==
  ASSUME TransferInv, transfer_edges # 0
  PROVE  /\ word.bits \in 1 .. Width /\ transfer_period \in 1 .. MaxPeriod
         /\ \E h \in 0 .. word.bits, odd \in Bit :
              /\ InTransfer(h, odd) /\ h < word.bits
              /\ active_edge <=> odd = 0
              /\ transfer_edges = 1 <=> odd = 1 /\ h + 1 = word.bits
<1>1. word.bits \in 0 .. Width /\ word.bits # 0
  BY DEF TransferInv, RegistersOK, TransferTypeOK
<1>2. PICK h \in 0 .. word.bits, odd \in Bit : InTransfer(h, odd)
  BY <1>1 DEF TransferInv
<1>3. /\ odd = 1 => h < word.bits
      /\ transfer_edges = 2 * (word.bits - h) - odd
  BY <1>2 DEF InTransfer, Made
<1>4. word.bits \in Nat /\ odd \in {0, 1}
  BY <1>1, TransferAssumption DEF Bit
<1>5. active_edge <=> odd = 0
  BY <1>3, <1>4, NextEdge DEF active_edge
<1>6. h < word.bits
  BY <1>3, <1>4
<1>7. transfer_edges = 1 <=> odd = 1 /\ h + 1 = word.bits
  <2>1. PICK m \in Nat \ {0} : m = word.bits - h
    BY <1>4, <1>6
  <2>2. 2 * m # 1 /\ (2 * m - 1 = 1 <=> m = 1)
    OBVIOUS
  <2>3. m = 1 <=> h + 1 = word.bits
    BY <1>4, <2>1
  <2> QED
    BY <1>3, <1>4, <2>1, <2>2, <2>3
<1>8. word.bits \in 1 .. Width /\ transfer_period \in 1 .. MaxPeriod
  BY <1>1, TransferAssumption DEF TransferInv
<1> QED
  BY <1>2, <1>5, <1>6, <1>7, <1>8

\* A cycle between two edges of the clock keeps the invariant.
LEMMA CountKeeps ==
  ASSUME TransferInv, Count
  PROVE  TransferInv'
<1>1. transfer_edges # 0
  BY DEF Count
<1>2. PICK h \in 0 .. word.bits, odd \in Bit : InTransfer(h, odd)
  BY <1>1, Underway
<1>3. /\ word.bits \in 1 .. Width /\ transfer_period \in 1 .. MaxPeriod
  BY <1>1, Underway
<1>4. /\ transfer_tick \in 1 .. transfer_period
      /\ since = (2 * h + odd) * transfer_period + (transfer_period - transfer_tick)
      /\ ck = (IF odd = 0 THEN transfer_mode.cpol ELSE 1 - transfer_mode.cpol)
  BY <1>2 DEF InTransfer, Clocked
<1>5. (2 * h + odd) * transfer_period \in Nat
  <2>1. 2 * h + odd \in Nat /\ transfer_period \in Nat
    BY <1>3, TransferAssumption DEF Bit
  <2> QED
    BY <2>1, SMTT(20)
<1>6. /\ tx' = tx /\ rx' = rx /\ ck' = ck /\ out' = out /\ transfer_edges' = transfer_edges
      /\ transfer_period' = transfer_period /\ transfer_mode' = transfer_mode
      /\ word' = word /\ presented' = presented /\ received' = received
      /\ transfer_tick' = transfer_tick - 1 /\ since' = since + 1 /\ ~(transfer_tick <= 1)
  BY DEF Count, elapsed
<1>7. Clocked(h, odd)'
  <2>1. transfer_tick - 1 \in 1 .. transfer_period
    BY <1>3, <1>4, <1>6
  <2>2. since + 1 = (2 * h + odd) * transfer_period + (transfer_period - (transfer_tick - 1))
    BY <1>3, <1>4, <1>5
  <2> QED
    BY <1>4, <1>6, <2>1, <2>2 DEF Clocked
<1>8. (Made(h, odd) /\ Presented(h, odd) /\ Received)'
  BY <1>2, <1>6 DEF InTransfer, Made, Presented, Received, ShiftsMade, BitsOut, BitAt
<1>9. RegistersOK'
  BY <1>6 DEF TransferInv, RegistersOK, TransferTypeOK
<1> QED
  BY <1>3, <1>6, <1>7, <1>8, <1>9 DEF TransferInv, InTransfer

(* A transition takes (h, 0) to (h, 1) and (h, 1) to (h + 1, 0).           *)
LEMMA TransitionClocks ==
  ASSUME TransferInv, NEW bit \in Bit, Transition(bit),
         NEW h \in 0 .. word.bits, NEW odd \in Bit, InTransfer(h, odd),
         h < word.bits, active_edge <=> odd = 0
  PROVE  (Made(h + odd, 1 - odd) /\ Clocked(h + odd, 1 - odd))'
<1>1. /\ word.bits \in 1 .. Width /\ transfer_period \in 1 .. MaxPeriod
      /\ transfer_mode.cpol \in {0, 1} /\ odd \in {0, 1}
  BY Underway DEF Transition, TransferInv, RegistersOK, TransferTypeOK, Modes, Bit
<1>2. /\ transfer_tick \in 1 .. transfer_period
      /\ since = (2 * h + odd) * transfer_period + (transfer_period - transfer_tick)
      /\ transfer_edges = 2 * (word.bits - h) - odd
  BY DEF InTransfer, Clocked, Made
<1>3. /\ transfer_period' = transfer_period /\ transfer_mode' = transfer_mode
      /\ word' = word /\ transfer_edges' = transfer_edges - 1
      /\ transfer_tick' = transfer_period /\ since' = since + 1 /\ transfer_tick <= 1
      /\ ck' = IF odd = 0 THEN 1 - transfer_mode.cpol ELSE transfer_mode.cpol
  BY DEF Transition, elapsed, new_clock
<1>4. word.bits \in Nat /\ transfer_period \in Nat
  BY <1>1, TransferAssumption
<1>5. /\ h + odd \in 0 .. word.bits /\ 1 - odd \in {0, 1}
      /\ 1 - odd = 1 => h + odd < word.bits
      /\ transfer_edges - 1 = 2 * (word.bits - (h + odd)) - (1 - odd)
  BY <1>1, <1>2, <1>4
<1>6. 2 * (h + odd) + (1 - odd) = (2 * h + odd) + 1
  BY <1>1, <1>4
<1>7. ASSUME NEW q \in Nat, NEW p \in Nat
      PROVE  q * p \in Nat /\ (q + 1) * p = q * p + p
  BY <1>7, SMTT(20)
<1>8. 2 * h + odd \in Nat
  BY <1>1, <1>4
<1>9. since + 1 = (2 * (h + odd) + (1 - odd)) * transfer_period + (transfer_period - transfer_period)
  <2> DEFINE q == 2 * h + odd
  <2>1. q * transfer_period \in Nat /\ (q + 1) * transfer_period = q * transfer_period + transfer_period
    BY <1>4, <1>7, <1>8
  <2>2. since = q * transfer_period + (transfer_period - transfer_tick) /\ transfer_tick = 1
    BY <1>1, <1>2, <1>3, <1>4
  <2>3. 2 * (h + odd) + (1 - odd) = q + 1
    BY <1>6
  <2> HIDE DEF q
  <2>4. since + 1 = (q + 1) * transfer_period
    BY <1>4, <2>1, <2>2
  <2>5. (q + 1) * transfer_period + (transfer_period - transfer_period) = (q + 1) * transfer_period
    BY <1>4, <2>1
  <2> QED
    BY <2>3, <2>4, <2>5
<1>10. Made(h + odd, 1 - odd)'
  BY <1>3, <1>5 DEF Made, Bit
<1>11. transfer_tick' \in 1 .. transfer_period'
  BY <1>1, <1>3, <1>4
<1>12. Clocked(h + odd, 1 - odd)'
  BY <1>1, <1>3, <1>9, <1>11 DEF Clocked
<1> QED
  BY <1>10, <1>12

(* A bit leaves at the edge before the one it is sampled at.               *)
LEMMA TransitionPresents ==
  ASSUME TransferInv, NEW bit \in Bit, Transition(bit),
         NEW h \in 0 .. word.bits, NEW odd \in Bit, InTransfer(h, odd),
         h < word.bits, active_edge <=> odd = 0,
         transfer_edges = 1 <=> odd = 1 /\ h + 1 = word.bits
  PROVE  /\ Presented(h + odd, 1 - odd)'
         /\ Len(presented') = IF sample_edge THEN Len(presented) + 1 ELSE Len(presented)
<1> DEFINE n == word.bits
           mode == transfer_mode
           s == ShiftsMade(h, odd)
<1>1. /\ n \in 1 .. Width /\ odd \in {0, 1} /\ mode.cpha \in {0, 1}
      /\ mode.msb \in BOOLEAN /\ mode.drive \in BOOLEAN
      /\ word.tx \in Reg /\ tx \in Reg /\ out \in Bit
  BY Underway DEF Transition, TransferInv, RegistersOK, TransferTypeOK, Modes, Bit
<1>2. n \in Nat /\ h \in Nat /\ n <= Width /\ h + 1 <= n
  BY <1>1, TransferAssumption
<1>3. /\ presented \in Seq(Bit)
      /\ Len(presented) = IF mode.cpha = 0 THEN h + odd ELSE h
      /\ mode.drive =>
           /\ tx = Shifted(mode.msb, word.tx, s)
           /\ BitsOut(h, odd) # 0 => out = word.tx[BitAt(BitsOut(h, odd))]
           /\ \A i \in 1 .. Len(presented) : presented[i] = word.tx[BitAt(i)]
  BY DEF InTransfer, Presented
<1>4. /\ transfer_mode' = transfer_mode /\ word' = word
      /\ presented' = IF sample_edge THEN Append(presented, out) ELSE presented
      /\ tx' = IF shifting THEN shift_tx(mode.msb, tx) ELSE tx
      /\ out' = IF ~update_out THEN out
                ELSE tx_bit(mode.msb, IF mode.cpha = 1 THEN tx ELSE shift_tx(mode.msb, tx))
  BY DEF Transition
<1>5. /\ sample_edge <=> (IF mode.cpha = 0 THEN odd = 0 ELSE odd = 1)
      /\ shifting <=> (IF mode.cpha = 0 THEN odd = 1 ELSE odd = 0) /\ mode.drive
  <2>1. mode.cpha = 1 <=> mode.cpha # 0
    BY <1>1
  <2>2. sample_edge <=> ~(active_edge <=> mode.cpha = 1)
    BY Zenon DEF sample_edge, active_edge
  <2> QED
    BY <1>1, <2>1, <2>2 DEF shifting
<1>6. update_out <=> shifting /\ (mode.cpha = 1 \/ ~(odd = 1 /\ h + 1 = n))
  BY DEF update_out
<1> HIDE DEF n, mode
<1>7. Len(presented) = h \/ ~sample_edge
  BY <1>1, <1>2, <1>3, <1>5
<1>8. /\ presented' \in Seq(Bit)
      /\ Len(presented') = IF sample_edge THEN Len(presented) + 1 ELSE Len(presented)
  BY <1>1, <1>3, <1>4
<1>9. Len(presented') = IF mode.cpha = 0 THEN (h + odd) + (1 - odd) ELSE h + odd
  BY <1>1, <1>2, <1>3, <1>5, <1>8
<1>10. s = (IF mode.cpha = 0 THEN h ELSE h + odd) /\ s \in Nat
  BY <1>1, <1>2 DEF ShiftsMade, mode
<1>11. BitsOut(h, odd) = h + (IF mode.cpha = 0 THEN 1 ELSE odd)
  BY <1>1, <1>2 DEF BitsOut, mode, n
<1> DEFINE s2 == ShiftsMade(h + odd, 1 - odd)
           o2 == BitsOut(h + odd, 1 - odd)
<1>12. s2 = IF mode.cpha = 0 THEN h + odd ELSE h + 1
  BY <1>1, <1>2 DEF ShiftsMade, mode
<1>13. o2 = IF mode.cpha = 0 THEN IF odd = 1 /\ h + 1 = n THEN h + 1 ELSE h + odd + 1
            ELSE h + 1
  BY <1>1, <1>2 DEF BitsOut, mode, n
<1> HIDE DEF s, s2, o2
<1>14. ASSUME mode.drive
       PROVE  /\ tx' = Shifted(mode.msb, word.tx, s2)
              /\ out' = word.tx[BitAt(o2)]
  <2>1. tx = Shifted(mode.msb, word.tx, s)
    BY <1>3, <1>14
  <2>2. shift_tx(mode.msb, tx) = Shifted(mode.msb, word.tx, s + 1)
    BY <1>1, <1>10, <2>1, ShiftedMore
  <2>3. s2 = IF shifting THEN s + 1 ELSE s
    BY <1>1, <1>2, <1>5, <1>10, <1>12, <1>14
  <2>4. tx' = Shifted(mode.msb, word.tx, s2)
    BY <1>4, <2>1, <2>2, <2>3
  <2>5. CASE ~update_out
    <3>1. o2 = BitsOut(h, odd) /\ o2 # 0
      BY <1>1, <1>2, <1>5, <1>6, <1>11, <1>13, <1>14, <2>5
    <3> QED
      BY <1>3, <1>4, <1>14, <2>4, <2>5, <3>1
  <2>6. CASE update_out /\ mode.cpha = 1
    <3>1. s = h /\ o2 = h + 1 /\ h \in 0 .. Width - 1
      BY <1>1, <1>2, <1>5, <1>6, <1>10, <1>13, <2>6, TransferAssumption
    <3>2. out' = tx_bit(mode.msb, tx)
      BY <1>4, <2>6
    <3> QED
      BY <1>1, <2>1, <2>4, <3>1, <3>2, NextBit DEF mode
  <2>7. CASE update_out /\ mode.cpha = 0
    <3>1. s + 1 = h + 1 /\ o2 = h + 1 + 1 /\ h + 1 \in 0 .. Width - 1
      BY <1>1, <1>2, <1>5, <1>6, <1>10, <1>13, <2>7, TransferAssumption
    <3>2. out' = tx_bit(mode.msb, shift_tx(mode.msb, tx))
      BY <1>4, <2>7
    <3> QED
      BY <1>1, <2>2, <2>4, <3>1, <3>2, NextBit DEF mode
  <2> QED
    BY <1>1, <2>5, <2>6, <2>7
<1>15. ASSUME mode.drive, NEW i \in 1 .. Len(presented')
       PROVE  presented'[i] = word.tx[BitAt(i)]
  <2>1. CASE ~sample_edge
    BY <1>3, <1>4, <1>15, <2>1
  <2>2. CASE sample_edge /\ i # Len(presented')
    <3>1. i \in 1 .. Len(presented) /\ presented' = Append(presented, out)
      BY <1>3, <1>4, <1>8, <1>15, <2>2
    <3>2. presented'[i] = presented[i]
      BY <1>1, <1>3, <3>1
    <3> QED
      BY <1>3, <1>15, <3>1, <3>2
  <2>3. CASE sample_edge /\ i = Len(presented')
    <3>1. i = h + 1 /\ i = Len(presented) + 1 /\ presented' = Append(presented, out)
      BY <1>4, <1>7, <1>8, <2>3
    <3>2. presented'[i] = out
      BY <1>1, <1>3, <3>1
    <3>3. BitsOut(h, odd) = h + 1
      BY <1>1, <1>2, <1>5, <1>11, <2>3
    <3> QED
      BY <1>2, <1>3, <1>15, <3>1, <3>2, <3>3
  <2> QED
    BY <2>1, <2>2, <2>3
<1>16. Presented(h + odd, 1 - odd)'
  <2>1. s2' = s2 /\ o2' = o2 /\ \A i : BitAt(i)' = BitAt(i)
    BY <1>4 DEF s2, o2, ShiftsMade, BitsOut, BitAt
  <2> QED
    BY <1>4, <1>8, <1>9, <1>14, <1>15, <2>1 DEF Presented, mode, s2, o2
<1> QED
  BY <1>8, <1>16

(* The bit sampled becomes the innermost one of rx.                        *)
LEMMA TransitionReceives ==
  ASSUME TransferInv, NEW bit \in Bit, Transition(bit),
         Len(presented) \in 0 .. Width - 1 \/ ~sample_edge,
         Received, presented \in Seq(Bit),
         Len(presented') = IF sample_edge THEN Len(presented) + 1 ELSE Len(presented)
  PROVE  Received'
<1> DEFINE r == Len(received)
           samples == transfer_mode.sample /\ sample_edge
<1>1. /\ received \in Seq(Bit)
      /\ r = IF transfer_mode.sample THEN Len(presented) ELSE 0
      /\ \A i \in 1 .. r :
           received[i] = rx[IF transfer_mode.msb THEN r - i ELSE Width - 1 - (r - i)]
  BY DEF Received
<1>2. /\ transfer_mode' = transfer_mode
      /\ rx' = IF samples THEN sample(transfer_mode.msb, rx, bit) ELSE rx
      /\ received' = IF samples THEN Append(received, bit) ELSE received
      /\ transfer_mode.msb \in BOOLEAN /\ transfer_mode.sample \in BOOLEAN /\ rx \in Reg
  BY DEF Transition, TransferInv, RegistersOK, TransferTypeOK, Modes
<1>3. CASE ~samples
  <2>1. received' = received /\ rx' = rx
    BY <1>2, <1>3
  <2>2. Len(received) = IF transfer_mode.sample THEN Len(presented') ELSE 0
    BY <1>1, <1>2, <1>3
  <2> QED
    BY <1>1, <1>2, <2>1, <2>2 DEF Received
<1>4. CASE samples
  <2>1. /\ r \in Nat /\ r + 1 <= Width
        /\ received' = Append(received, bit)
        /\ rx' = sample(transfer_mode.msb, rx, bit)
    BY <1>1, <1>2, <1>4, TransferAssumption
  <2>2. received' \in Seq(Bit) /\ Len(received') = r + 1 /\ received'[r + 1] = bit
    BY <1>1, <2>1
  <2>3. \A i \in 1 .. r : received'[i] = received[i]
    BY <1>1, <2>1
  <2>4. Len(received') = IF transfer_mode.sample THEN Len(presented') ELSE 0
    BY <1>1, <1>4, <2>2
  <2> HIDE DEF r
  <2>5. ASSUME NEW i \in 1 .. r + 1
        PROVE  received'[i] = rx'[IF transfer_mode.msb THEN r + 1 - i ELSE Width - 1 - (r + 1 - i)]
    <3>1. CASE i = r + 1
      <4>1. r + 1 - i = 0 /\ Width - 1 - (r + 1 - i) = Width - 1
            /\ 0 \in Indices /\ Width - 1 \in Indices
        BY <2>1, <3>1, TransferAssumption DEF Indices
      <4> QED
        BY <2>1, <2>2, <3>1, <4>1 DEF sample
    <3>2. CASE i # r + 1
      <4> DEFINE up   == r + 1 - i
                 down == Width - 1 - (r + 1 - i)
      <4>1. /\ i \in 1 .. r /\ up \in Indices /\ up # 0 /\ up - 1 = r - i
            /\ down \in Indices /\ down # Width - 1 /\ down + 1 = Width - 1 - (r - i)
        BY <2>1, <3>2, TransferAssumption DEF Indices
      <4> HIDE DEF up, down
      <4>2. CASE transfer_mode.msb
        <5>1. rx'[up] = rx[up - 1]
          BY <2>1, <4>1, <4>2 DEF sample
        <5>2. received[i] = rx[r - i]
          BY <1>1, <4>1, <4>2 DEF r
        <5> QED
          BY <2>3, <4>1, <4>2, <5>1, <5>2 DEF up
      <4>3. CASE ~transfer_mode.msb
        <5>1. rx'[down] = rx[down + 1]
          BY <2>1, <4>1, <4>3 DEF sample
        <5>2. received[i] = rx[Width - 1 - (r - i)]
          BY <1>1, <4>1, <4>3 DEF r
        <5> QED
          BY <2>3, <4>1, <4>3, <5>1, <5>2 DEF down
      <4> QED
        BY <1>2, <4>2, <4>3
    <3> QED
      BY <3>1, <3>2
  <2>6. \A i \in 1 .. Len(received') :
          received'[i] = rx'[IF transfer_mode.msb THEN Len(received') - i
                             ELSE Width - 1 - (Len(received') - i)]
    <3> SUFFICES ASSUME NEW i \in 1 .. Len(received')
                 PROVE  received'[i] = rx'[IF transfer_mode.msb THEN Len(received') - i
                                           ELSE Width - 1 - (Len(received') - i)]
      OBVIOUS
    <3>1. i \in 1 .. r + 1 /\ Len(received') - i = r + 1 - i
      BY <2>1, <2>2
    <3>2. received'[i] = rx'[IF transfer_mode.msb THEN r + 1 - i ELSE Width - 1 - (r + 1 - i)]
      BY <2>5, <3>1
    <3> QED
      BY <3>1, <3>2
  <2>7. transfer_mode' = transfer_mode /\ received' \in Seq(Bit)
    BY <1>2, <2>2
  <2> QED
    BY <2>4, <2>6, <2>7 DEF Received
<1> QED
  BY <1>3, <1>4

\* An edge of the clock keeps it.
LEMMA TransitionKeeps ==
  ASSUME TransferInv, NEW bit \in Bit, Transition(bit)
  PROVE  TransferInv'
<1>1. transfer_edges # 0
  BY DEF Transition
<1>2. PICK h \in 0 .. word.bits, odd \in Bit :
        /\ InTransfer(h, odd) /\ h < word.bits
        /\ active_edge <=> odd = 0
        /\ transfer_edges = 1 <=> odd = 1 /\ h + 1 = word.bits
  BY <1>1, Underway
<1>3. word.bits \in 1 .. Width /\ transfer_period \in 1 .. MaxPeriod
  BY <1>1, Underway
<1>4. (Made(h + odd, 1 - odd) /\ Clocked(h + odd, 1 - odd))'
  BY <1>2, TransitionClocks
<1>5. /\ Presented(h + odd, 1 - odd)'
      /\ Len(presented') = IF sample_edge THEN Len(presented) + 1 ELSE Len(presented)
  BY <1>2, TransitionPresents
<1>6. Received'
  <2>1. /\ presented \in Seq(Bit) /\ Received
        /\ Len(presented) = IF transfer_mode.cpha = 0 THEN h + odd ELSE h
        /\ transfer_mode.cpha \in {0, 1}
    BY <1>2 DEF InTransfer, Presented, TransferInv, RegistersOK, TransferTypeOK, Modes, Bit
  <2>2. transfer_mode.cpha = 0 => (sample_edge => odd = 0)
    BY <1>2 DEF sample_edge, active_edge
  <2>3. h \in 0 .. Width - 1
    BY <1>2, <1>3, TransferAssumption
  <2>4. Len(presented) \in 0 .. Width - 1 \/ ~sample_edge
    BY <2>1, <2>2, <2>3
  <2> QED
    BY <1>5, <2>1, <2>4, TransitionReceives
<1>7. /\ word' = word /\ transfer_period' = transfer_period /\ transfer_mode' = transfer_mode
      /\ transfer_edges' = transfer_edges - 1
      /\ h + odd \in 0 .. word.bits /\ 1 - odd \in Bit
  <2>1. word.bits \in Nat /\ odd \in {0, 1}
    BY <1>3, TransferAssumption DEF Bit
  <2> QED
    BY <1>2, <2>1 DEF Transition, Bit
<1>8. RegistersOK'
  <2>1. /\ tx \in Reg /\ rx \in Reg /\ out \in Bit /\ transfer_mode \in Modes
        /\ transfer_edges \in Nat /\ word \in [bits : 0 .. Width, tx : Reg]
    BY DEF TransferInv, RegistersOK, TransferTypeOK
  <2>2. /\ transfer_mode.msb \in BOOLEAN /\ transfer_mode.cpol \in {0, 1}
    BY <2>1 DEF Modes, Bit
  <2>3. /\ shift_tx(transfer_mode.msb, tx) \in Reg
        /\ sample(transfer_mode.msb, rx, bit) \in Reg
        /\ tx_bit(transfer_mode.msb, tx) \in Bit
    BY <2>1, <2>2, RegistersStay
  <2>4. tx_bit(transfer_mode.msb, shift_tx(transfer_mode.msb, tx)) \in Bit
    BY <2>2, <2>3, RegistersStay
  <2>5. tx' \in Reg /\ rx' \in Reg /\ out' \in Bit
    BY <2>1, <2>3, <2>4 DEF Transition
  <2>6. ck' \in Bit
    BY <2>2 DEF Transition, new_clock, Bit
  <2>7. transfer_edges' \in Nat
    BY <1>1, <1>7, <2>1
  <2>8. word'.bits # 0
    BY <1>3, <1>7
  <2> QED
    BY <1>7, <2>1, <2>5, <2>6, <2>7, <2>8 DEF RegistersOK, TransferTypeOK
<1>9. InTransfer(h + odd, 1 - odd)'
  BY <1>4, <1>5, <1>6 DEF InTransfer
<1> QED
  BY <1>3, <1>7, <1>8, <1>9 DEF TransferInv

\* A transfer begins in it.
LEMMA IssueStarts ==
  ASSUME TransferInv, NEW a \in 1 .. Width, NEW b \in 1 .. MaxPeriod, NEW mode \in Modes,
         issue(a, b, mode)
  PROVE  TransferInv'
<1> USE TransferAssumption
<1>1. /\ transfer_edges' = 2 * a /\ transfer_tick' = b /\ transfer_period' = b
      /\ transfer_mode' = mode /\ ck' = mode.cpol
      /\ out' = IF mode.cpha = 0 /\ mode.drive THEN tx_bit(mode.msb, tx) ELSE out
      /\ word' = [bits |-> a, tx |-> tx] /\ since' = 0
      /\ presented' = << >> /\ received' = << >>
      /\ tx' = tx /\ rx' = rx
  BY DEF issue
<1>2. /\ tx \in Reg /\ rx \in Reg /\ out \in Bit
      /\ mode.cpol \in {0, 1} /\ mode.cpha \in {0, 1} /\ mode.msb \in BOOLEAN
      /\ mode.drive \in BOOLEAN /\ mode.sample \in BOOLEAN
  BY DEF TransferInv, RegistersOK, TransferTypeOK, Modes, Bit
<1>3. /\ word'.bits = a /\ word'.tx = tx
  BY <1>1
<1>4. tx_bit(mode.msb, tx) \in Bit /\ Shifted(mode.msb, tx, 0) = tx
  <2>1. 0 \in Bit
    BY DEF Bit
  <2> QED
    BY <1>2, <2>1, RegistersStay
<1>5. RegistersOK'
  <2>1. a \in 0 .. Width /\ 2 * a \in Nat /\ a # 0
    OBVIOUS
  <2>2. word' \in [bits : 0 .. Width, tx : Reg]
    BY <1>1, <1>2, <2>1
  <2> QED
    BY <1>1, <1>2, <1>3, <1>4, <2>1, <2>2 DEF RegistersOK, TransferTypeOK, Bit
<1>6. Made(0, 0)'
  BY <1>1, <1>3 DEF Made, Bit
<1>7. Clocked(0, 0)'
  <2>1. (2 * 0 + 0) * b + (b - b) = 0
    OBVIOUS
  <2> QED
    BY <1>1, <2>1 DEF Clocked
<1>8. Presented(0, 0)'
  <2>1. presented' \in Seq(Bit) /\ Len(presented') = 0
    BY <1>1
  <2>2. ShiftsMade(0, 0)' = 0 /\ BitsOut(0, 0)' = IF mode.cpha = 1 THEN 0 ELSE 1
    BY <1>1, <1>2, <1>3 DEF ShiftsMade, BitsOut
  <2>3. ASSUME mode.drive, mode.cpha = 0
        PROVE  out' = tx[BitAt(1)']
    <3>1. BitAt(1)' = IF mode.msb THEN Width - 1 ELSE 0
      BY <1>1, <1>2 DEF BitAt
    <3> QED
      BY <1>1, <1>2, <2>3, <3>1 DEF tx_bit
  <2> QED
    BY <1>1, <1>2, <1>3, <1>4, <2>1, <2>2, <2>3 DEF Presented
<1>9. Received'
  <2>1. received' \in Seq(Bit) /\ Len(received') = 0 /\ Len(presented') = 0
    BY <1>1
  <2> QED
    BY <2>1 DEF Received
<1>10. InTransfer(0, 0)'
  BY <1>6, <1>7, <1>8, <1>9 DEF InTransfer
<1>11. 0 \in 0 .. a /\ 0 \in Bit
  BY DEF Bit
<1> QED
  BY <1>1, <1>3, <1>5, <1>10, <1>11 DEF TransferInv

(* Outside a transfer nothing is promised.                                 *)
LEMMA OutsideKeeps ==
  ASSUME TransferInv, TransferStop \/ start \/ Other
  PROVE  TransferInv'
<1> USE TransferAssumption
<1>1. 0 \in 0 .. Width /\ 0 \in Bit /\ Zero \in Reg /\ NoMode \in Modes
  BY DEF Bit, Zero, Reg, NoMode, Modes
<1>2. /\ tx \in Reg /\ rx \in Reg /\ ck \in Bit /\ out \in Bit /\ transfer_mode \in Modes
  BY DEF TransferInv, RegistersOK, TransferTypeOK
<1>3. transfer_edges' = 0 /\ word'.bits = 0 /\ word' \in [bits : 0 .. Width, tx : Reg]
  <2>1. CASE TransferStop
    BY <1>1, <1>2, <2>1 DEF TransferStop, Unassigned
  <2>2. CASE start
    BY <1>1, <1>2, <2>2 DEF start, Unassigned
  <2>3. CASE Other
    BY <1>1, <1>2, <2>3 DEF Other, Unassigned
  <2> QED
    BY <2>1, <2>2, <2>3
<1>4. RegistersOK'
  BY <1>1, <1>2, <1>3 DEF RegistersOK, TransferTypeOK, TransferStop, start, Other
<1> QED
  BY <1>3, <1>4 DEF TransferInv

(* The inductive invariant of the transfers.                               *)
LEMMA TransferInvariant == TransferSpec => []TransferInv
<1>1. TransferInit => TransferInv
  <2> SUFFICES ASSUME TransferInit
               PROVE  TransferInv
    OBVIOUS
  <2>1. 0 \in 0 .. Width /\ 0 \in Bit /\ Zero \in Reg /\ NoMode \in Modes
    BY TransferAssumption DEF Bit, Zero, Reg, NoMode, Modes
  <2>2. word \in [bits : 0 .. Width, tx : Reg] /\ word.bits = 0
    BY <2>1 DEF TransferInit
  <2> QED
    BY <2>1, <2>2 DEF TransferInit, TransferInv, RegistersOK, TransferTypeOK
<1>2. TransferInv /\ [TransferNext]_transferVars => TransferInv'
  <2> SUFFICES ASSUME TransferInv, [TransferNext]_transferVars
               PROVE  TransferInv'
    OBVIOUS
  <2>1. CASE UNCHANGED transferVars
    BY <2>1 DEF transferVars, registers, TransferInv, RegistersOK, TransferTypeOK, InTransfer,
       Made, Clocked, Presented, Received, ShiftsMade, BitsOut, BitAt
  <2>2. CASE TransferNext
    BY <2>2, IssueStarts, CountKeeps, TransitionKeeps, OutsideKeeps DEF TransferNext
  <2> QED
    BY <2>1, <2>2
<1> QED
  BY <1>1, <1>2, PTL DEF TransferSpec

(* XFER makes "exactly 2*a transitions, each separated by b cycles"        *)
(* (docs/isa.md 72-77), for every count, half period and clock mode.       *)
THEOREM TransfersKeepTime == TransferSpec => []ClockShape
<1>1. TransferInv => ClockShape
  <2> SUFFICES ASSUME TransferInv, word.bits # 0
               PROVE  /\ ck = transfer_mode.cpol <=> transfer_edges % 2 = 0
                      /\ LET made == 2 * word.bits - transfer_edges
                         IN  /\ made * transfer_period <= since
                             /\ Transferring => since < (made + 1) * transfer_period
    BY DEF ClockShape
  <2>1. PICK h \in 0 .. word.bits, odd \in Bit : InTransfer(h, odd)
    BY DEF TransferInv
  <2>2. /\ word.bits \in Nat /\ transfer_period \in Nat /\ odd \in {0, 1}
        /\ transfer_mode.cpol \in {0, 1}
    BY TransferAssumption DEF TransferInv, RegistersOK, TransferTypeOK, Modes, Bit
  <2>3. /\ odd = 1 => h < word.bits
        /\ transfer_edges = 2 * (word.bits - h) - odd
        /\ ck = (IF odd = 0 THEN transfer_mode.cpol ELSE 1 - transfer_mode.cpol)
        /\ transfer_tick \in 1 .. transfer_period
        /\ since = (2 * h + odd) * transfer_period + (transfer_period - transfer_tick)
    BY <2>1 DEF InTransfer, Made, Clocked
  <2>4. transfer_edges % 2 = 0 <=> odd = 0
    BY <2>2, <2>3, NextEdge
  <2>5. ck = transfer_mode.cpol <=> odd = 0
    BY <2>2, <2>3
  <2> DEFINE q == 2 * h + odd
  <2>6. 2 * word.bits - transfer_edges = q /\ q \in Nat
    BY <2>2, <2>3
  <2>7. q * transfer_period \in Nat /\ (q + 1) * transfer_period = q * transfer_period + transfer_period
    <3>1. ASSUME NEW k \in Nat, NEW p \in Nat
          PROVE  k * p \in Nat /\ (k + 1) * p = k * p + p
      BY <3>1, SMTT(20)
    <3> QED
      BY <2>2, <2>6, <3>1
  <2>8. since = q * transfer_period + (transfer_period - transfer_tick)
    BY <2>3
  <2> HIDE DEF q
  <2>9. q * transfer_period <= since /\ since < (q + 1) * transfer_period
    BY <2>2, <2>3, <2>7, <2>8
  <2> QED
    BY <2>4, <2>5, <2>6, <2>9
<1> QED
  BY TransferInvariant, <1>1, PTL

(* The data leaves one edge before it is sampled (engine_transfer.ml), in  *)
(* the four modes and both bit orders: the bits of the word go out in      *)
(* order, those of the input come in in order.                             *)
THEOREM TransfersExchangeWords == TransferSpec => []WordsExchanged
<1>1. TransferInv => WordsExchanged
  <2> SUFFICES ASSUME TransferInv, word.bits # 0
               PROVE  WordsExchanged
    BY DEF WordsExchanged, PeripheralSeesWord, ReceivesBits
  <2>1. PICK h \in 0 .. word.bits, odd \in Bit : InTransfer(h, odd)
    BY DEF TransferInv
  <2>2. /\ word.bits \in Nat /\ odd \in {0, 1}
        /\ transfer_mode.cpha \in {0, 1}
    BY TransferAssumption DEF TransferInv, RegistersOK, TransferTypeOK, Modes, Bit
  <2>3. ASSUME Ended
        PROVE  h = word.bits /\ odd = 0
    <3>1. 2 * (word.bits - h) - odd = 0
      BY <2>1, <2>3 DEF Ended, InTransfer, Made
    <3>2. PICK m \in Nat : m = word.bits - h
      BY <2>2
    <3>3. 2 * m - odd = 0 => m = 0 /\ odd = 0
      BY <2>2
    <3>4. m = 0 /\ odd = 0
      BY <3>1, <3>2, <3>3
    <3> QED
      BY <2>2, <3>2, <3>4
  <2>4. Presented(h, odd) /\ Received
    BY <2>1 DEF InTransfer
  <2>5. Ended => Len(presented) = word.bits
    BY <2>2, <2>3, <2>4 DEF Presented
  <2>6. Ended => BitsOut(h, odd) = word.bits
    BY <2>2, <2>3 DEF BitsOut
  <2>7. PeripheralSeesWord
    BY <2>4, <2>5, <2>6 DEF PeripheralSeesWord, Presented
  <2>8. ReceivesBits
    BY <2>4, <2>5 DEF ReceivesBits, Received
  <2> QED
    BY <2>7, <2>8 DEF WordsExchanged
<1> QED
  BY TransferInvariant, <1>1, PTL
=============================================================================

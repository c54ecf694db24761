------------------------------- MODULE Engine -------------------------------
(***************************************************************************)
(* One engine executing any committed image under any inputs, started,     *)
(* stopped and cleared by the host at any edge.  Between START and the     *)
(* next BEGIN the image does not change (module Control), so it is chosen  *)
(* once per behaviour.                                                     *)
(***************************************************************************)
EXTENDS EngineStep

CONSTANT Images    \* the images tried: sequences of instructions

(* An operand the decoder refuses (LIMIT 0, an XFER of no bits or of no    *)
(* half period, engine_decode.ml 57-59, 81) makes the instruction invalid. *)
Decoded ==
  {i \in Instructions : /\ i.kind = "limit" => i.n # 0
                        /\ i.kind = "xfer" => i.n # 0 /\ i.m # 0}

ASSUME ImagesAssumption == Images \subseteq Seq(Decoded)

VARIABLES
  image,
  engine,   \* the state of EngineStep
  unmet,    \* history: consecutive unsuccessful samples of the current wait
  owed      \* history: cycles until the next instruction is due

engineVars == <<image, engine, unmet, owed>>

EngineInit ==
  /\ image \in Images
  /\ engine = Cleared /\ unmet = 0 /\ owed = 0

AtWait == Inside(engine, image) /\ Waits(Current(engine, image))
Issues == engine.timer = 0 /\ engine.edges = 0

(* The extra cycles an instruction takes (docs/isa.md 23-24 and 72-77).    *)
Extra(instruction) ==
  CASE instruction.kind = "wait" -> instruction.n
    [] instruction.kind = "xfer" -> 2 * instruction.n * instruction.m
    [] OTHER -> 0

(* One edge of an active engine.                                           *)
Run(met) ==
  /\ Active(engine)
  /\ engine' = [Step(engine, image, met) EXCEPT !.counter = Counted(engine, image, met)]
  /\ unmet' = IF Issues /\ AtWait /\ ~met
              THEN IF unmet > engine.limit THEN unmet ELSE unmet + 1    \* saturates
              ELSE 0
  /\ owed' = IF ~Issues THEN owed - 1
             ELSE IF Inside(engine, image) THEN Extra(Current(engine, image)) ELSE 0
  /\ UNCHANGED image

(* STOP wins over START (module Control has the commands).                 *)
Stop ==
  /\ engine' = [engine EXCEPT !.running = FALSE, !.edges = 0]
  /\ unmet' = 0 /\ owed' = 0
  /\ UNCHANGED image

Start ==
  /\ engine.fault = 0
  /\ engine' = Started
  /\ unmet' = 0 /\ owed' = 0
  /\ UNCHANGED image

Clear ==
  /\ ~engine.running
  /\ engine' = [engine EXCEPT !.fault = 0]
  /\ UNCHANGED <<image, unmet, owed>>

EngineReset ==
  /\ engine' = Cleared /\ unmet' = 0 /\ owed' = 0
  /\ UNCHANGED image

EngineNext == (\E met \in BOOLEAN : Run(met)) \/ Stop \/ Start \/ Clear \/ EngineReset

EngineSpec     == EngineInit /\ [][EngineNext]_engineVars
(* The clock runs: an engine at a wait samples again.  Nothing is assumed  *)
(* of what it samples, nor of the words PULL and PUSH wait for.            *)
EngineFairSpec == EngineSpec /\ WF_engineVars(AtWait /\ \E met \in BOOLEAN : Run(met))

-----------------------------------------------------------------------------
(* The cycles the registers still hold back the next instruction for.      *)
Remaining ==
  engine.timer +
    (IF engine.edges = 0 THEN 0 ELSE engine.tick + (engine.edges - 1) * engine.period)

(* "A nonblocking instruction costs one cycle.  WAIT n advances PC on      *)
(* issue, then holds execution for n additional cycles" and XFER makes     *)
(* "exactly 2*a transitions, each separated by b cycles" (docs/isa.md      *)
(* 23-24, 72-77): the next instruction issues on the exact edge its        *)
(* predecessor's cost says, never earlier or later.                        *)
OnTime == Active(engine) => owed = Remaining /\ (Issues <=> owed = 0)

(* A wait times out after LIMIT consecutive unsuccessful samples of its    *)
(* own, however earlier waits of the program ended (docs/isa.md 48-51).    *)
WaitBounded ==
  Active(engine) => engine.blocked = unmet /\ unmet < engine.limit
(* The counter of the split_instruction_decode builds "increments exactly  *)
(* where the branches above execute finish or JMP" (engine.ml 239-245).    *)
CountersAgree == engine.counter = engine.completed

(* The three counts an engine keeps, of the cycles of its instructions, of *)
(* the samples of its waits and of what it completed, are what they should.*)
Timely == OnTime /\ WaitBounded /\ CountersAgree

(* A blocked wait ends: by its condition, its timeout or the host.  (PULL  *)
(* and ordinary PUSH wait without bound.)                                  *)
BlockedEnds == engine.blocked # 0 /\ engine.running ~> engine.blocked = 0 \/ ~engine.running
=============================================================================

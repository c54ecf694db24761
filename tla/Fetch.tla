-------------------------------- MODULE Fetch --------------------------------
(***************************************************************************)
(* How an engine gets its instructions, from program words written through *)
(* window 1 to the word it executes (hardcaml/lib/instruction_sram.ml,     *)
(* processor.ml 211-230, engine.ml 283-306).  Two memories are kept side   *)
(* by side: the single-port instruction SRAM of the chip, read one edge    *)
(* ahead at the program counter's next value, and the register memory with *)
(* a one-word prefetch of the baseline configurations.  Both serve one     *)
(* engine; each step is one clock edge.                                    *)
(***************************************************************************)
EXTENDS Naturals, Sequences

CONSTANTS
  ProgramWords,   \* words of the store; an address wraps modulo this
  Code,           \* instruction words
  Targets         \* branch targets tried, some outside every image

ASSUME FetchAssumption ==
  ProgramWords \in Nat \ {0} /\ Code # {} /\ Targets \subseteq Nat

VARIABLES
  memory,     \* contents of the program store
  dout,       \* output register of the SRAM
  ahead,      \* the prefetched word: valid, tag, cached
  pc, running,
  writing, loaded, length,   \* the image registers; length 0: not committed
  image       \* history: the program words since BEGIN

imageVars == <<writing, loaded, length, image>>
vars == <<memory, dout, ahead, pc, running, imageVars>>

Addresses == 0 .. ProgramWords - 1
Address(counter) == counter % ProgramWords

(* Nothing is prefetched, whatever the register holds.                     *)
Nothing(word) == [valid |-> FALSE, tag |-> 0, cached |-> word]

Init ==
  /\ memory \in [Addresses -> Code] /\ dout \in Code        \* no reset
  /\ \E word \in Code : ahead = Nothing(word)
  /\ pc = 0 /\ running = FALSE
  /\ writing = FALSE /\ loaded = 0 /\ length = 0 /\ image = << >>

-----------------------------------------------------------------------------
(* The two instruction outputs.                                            *)
Instruction_sram == dout
XInstruction_prefetch_Untagged == IF ahead.valid THEN ahead.cached ELSE memory[Address(pc)]
Instruction_prefetch ==
  IF ahead.valid /\ ahead.tag = pc THEN ahead.cached ELSE memory[Address(pc)]

(* The single port: a write keeps the output register; any other edge      *)
(* reads at the next program counter.                                      *)
Sram(write_enable, write_data, next_pc) ==
  /\ memory' = IF write_enable THEN [memory EXCEPT ![loaded] = write_data] ELSE memory
  /\ dout' = IF write_enable THEN dout ELSE memory[Address(next_pc)]

(* The lookahead register reads the contents before the edge.              *)
Prefetch == ahead' = [valid |-> TRUE, tag |-> pc + 1, cached |-> memory[Address(pc + 1)]]

Edge(next_pc) ==
  /\ pc' = next_pc
  /\ \E any \in Code : Sram(FALSE, any, next_pc)
  /\ Prefetch

(* A running engine: in its image it executes the word it is given, which  *)
(* holds, advances, branches, halts or faults; outside it faults.          *)
Execute ==
  /\ running
  /\ UNCHANGED imageVars
  /\ \/ /\ pc < length
        /\ \/ \E next \in {pc, pc + 1} \cup Targets : Edge(next) /\ UNCHANGED running
           \/ Edge(pc + 1) /\ running' = FALSE
     \/ Edge(pc) /\ running' = FALSE

Hold == ~running /\ Edge(pc) /\ UNCHANGED <<running, imageVars>>

-----------------------------------------------------------------------------
(* The host, as in module Control.                                         *)

Begin ==
  /\ Edge(pc) /\ running' = FALSE
  /\ writing' = TRUE /\ loaded' = 0 /\ length' = 0 /\ image' = << >>

ProgramWord(word) ==
  /\ ~running /\ writing /\ loaded < ProgramWords
  /\ pc' = pc
  /\ Sram(TRUE, word, pc)
  /\ Prefetch
  /\ loaded' = loaded + 1 /\ image' = Append(image, word)
  /\ UNCHANGED <<running, writing, length>>

Commit ==
  /\ ~running /\ writing /\ loaded # 0
  /\ Edge(pc)
  /\ writing' = FALSE /\ length' = loaded
  /\ UNCHANGED <<running, loaded, image>>

Start ==
  /\ length # 0
  /\ Edge(0) /\ running' = TRUE
  /\ UNCHANGED imageVars

Stop == Edge(pc) /\ running' = FALSE /\ UNCHANGED imageVars

(* The chip's clear disables the SRAM; nothing in a store has a reset.     *)
Reset ==
  /\ UNCHANGED <<memory, dout>>
  /\ \E word \in Code : ahead' = Nothing(word)
  /\ pc' = 0 /\ running' = FALSE
  /\ writing' = FALSE /\ loaded' = 0 /\ length' = 0 /\ image' = << >>

Next ==
  \/ Execute \/ Hold
  \/ Begin \/ (\E word \in Code : ProgramWord(word)) \/ Commit \/ Start \/ Stop
  \/ Reset

Spec == Init /\ [][Next]_vars

-----------------------------------------------------------------------------
TypeOK ==
  /\ memory \in [Addresses -> Code] /\ dout \in Code
  /\ ahead \in [valid : BOOLEAN, tag : Nat, cached : Code]
  /\ pc \in Nat /\ running \in BOOLEAN /\ writing \in BOOLEAN
  /\ loaded \in 0 .. ProgramWords /\ length \in 0 .. ProgramWords
  /\ image \in Seq(Code) /\ Len(image) = loaded

(* What a running engine executes is what the host wrote: the word at the  *)
(* program counter of the image committed, although the SRAM's one port is *)
(* also the one it is written through, its output register is a cycle      *)
(* ahead, and a branch target may alias an address of the image.           *)
SramFetchesImage ==
  running /\ pc < length => Instruction_sram = image[pc + 1]

(* "Prefetch may change internal implementation only" (docs/isa.md 83-85): *)
(* the prefetched word is never stale.                                     *)
PrefetchFetchesImage ==
  running /\ pc < length => Instruction_prefetch = image[pc + 1]

(* Both memories execute the image.                                        *)
FetchesImage == SramFetchesImage /\ PrefetchFetchesImage

(* The store holds the image, a committed image is complete, and a running *)
(* engine's next word has been read already.                               *)
FetchInv ==
  /\ TypeOK
  /\ \A i \in 0 .. loaded - 1 : memory[i] = image[i + 1]
  /\ length # 0 => length = loaded /\ ~writing
  /\ running => length # 0
  /\ running => dout = memory[Address(pc)]
  /\ running /\ ahead.valid /\ ahead.tag = pc => ahead.cached = memory[Address(pc)]
=============================================================================

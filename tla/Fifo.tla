-------------------------------- MODULE Fifo --------------------------------
(***************************************************************************)
(* The ring buffer behind every TX and RX queue (hardcaml/lib/fifo.ml), in *)
(* the three forms the generator can emit.  They share the occupancy       *)
(* registers count, rd and wr and differ in when a storage word is written:*)
(*                                                                         *)
(*   mem    Fifo.create_with             on the edge that accepts the word *)
(*   stage  Fifo.create_staged_gated     one edge later, from a staging    *)
(*                                       register that a read bypasses     *)
(*   free   Fifo.create_free_slot_gated  on every edge of a non-full queue *)
(*                                                                         *)
(* One step of the module is one clock edge; all three storages see the    *)
(* same push, pop, clear and data.  Storage contents have no reset.        *)
(***************************************************************************)
EXTENDS Naturals, Sequences

CONSTANTS
  Depth,   \* words one queue holds (Config.fifo_words: 2, 4, 8 or 32)
  Words    \* the data values

ASSUME DepthAssumption == Depth \in Nat \ {0}
ASSUME WordsAssumption == Words # {}

VARIABLES
  count,   \* words held: the level output
  rd,      \* read pointer
  wr,      \* write pointer
  mem,     \* storage of create_with
  staged,  \* storage of create_staged_gated
  stage,   \* its staging register: valid, slot, data
  free     \* storage of create_free_slot_gated

occupancy == <<count, rd, wr>>
fifoVars == <<count, rd, wr, mem, staged, stage, free>>

Slots == 0 .. Depth - 1

valid == count # 0
ready == count # Depth

(* A pointer is log2(Depth) bits wide and wraps.                           *)
Increment(pointer) == IF pointer = Depth - 1 THEN 0 ELSE pointer + 1

(* The heads the three forms present to their reader.                      *)
Head_create_with == mem[rd]
Head_staged == IF stage.valid /\ stage.slot = rd THEN stage.data ELSE staged[rd]
Head_free_slot == free[rd]

(* Only the occupancy and the staging flag have a reset: storage and the *)
(* staged word power up with any contents.                                 *)
FifoInit ==
  /\ count = 0 /\ rd = 0 /\ wr = 0
  /\ mem \in [Slots -> Words] /\ staged \in [Slots -> Words] /\ free \in [Slots -> Words]
  /\ stage \in [valid : BOOLEAN, slot : Slots, data : Words] /\ ~stage.valid


(* Pointers and level, the same in the three forms.                        *)
Occupancy(put, take, clear) ==
  /\ wr' = IF clear THEN 0 ELSE IF put THEN Increment(wr) ELSE wr
  /\ rd' = IF clear THEN 0 ELSE IF take THEN Increment(rd) ELSE rd
  /\ count' = IF clear THEN 0
              ELSE IF put /\ ~take THEN count + 1
              ELSE IF take /\ ~put THEN count - 1
              ELSE count

(* fifo_write_staging: the word and its slot are registered on every edge, *)
(* the accepted push too unless the queue is cleared; a word already       *)
(* staged reaches its slot.                                                *)
StagedWrite(put, clear, data) ==
  /\ stage' = [valid |-> put /\ ~clear, slot |-> wr, data |-> data]
  /\ staged' = IF stage.valid THEN [staged EXCEPT ![stage.slot] = stage.data] ELSE staged

(* Mutant: a full queue takes a word when one leaves on the same edge.     *)
XClock_FullBypass(push, pop, clear, data) ==
  LET put  == push /\ (ready \/ pop) /\ ~clear
      take == pop /\ valid /\ ~clear
  IN  /\ Occupancy(put, take, clear)
      /\ mem' = IF put THEN [mem EXCEPT ![wr] = data] ELSE mem
      /\ StagedWrite(put, clear, data)
      /\ free' = IF ready THEN [free EXCEPT ![wr] = data] ELSE free

(* One clock edge.                                                         *)
Clock(push, pop, clear, data) ==
  LET put  == push /\ ready /\ ~clear
      take == pop /\ valid /\ ~clear
  IN  /\ Occupancy(put, take, clear)
      /\ mem' = IF put THEN [mem EXCEPT ![wr] = data] ELSE mem
      /\ StagedWrite(put, clear, data)
      /\ free' = IF ready THEN [free EXCEPT ![wr] = data] ELSE free

FifoNext == \E push, pop, clear \in BOOLEAN, data \in Words : Clock(push, pop, clear, data)

FifoSpec == FifoInit /\ [][FifoNext]_fifoVars
-----------------------------------------------------------------------------
FifoTypeOK ==
  /\ count \in 0 .. Depth /\ rd \in Slots /\ wr \in Slots
  /\ mem \in [Slots -> Words] /\ staged \in [Slots -> Words] /\ free \in [Slots -> Words]
  /\ stage \in [valid : BOOLEAN, slot : Slots, data : Words]

(* The slot of the i-th word from the head, i = 0 .. count - 1.            *)
SlotOf(i) == IF rd + i < Depth THEN rd + i ELSE rd + i - Depth

(* What the staged form would read at a slot.                              *)
StagedWord(s) == IF stage.valid /\ stage.slot = s THEN stage.data ELSE staged[s]

(* The inductive invariant behind both properties below: the write pointer *)
(* is the first slot after the words held, and at every held slot the      *)
(* three storages give the same word.                                      *)
RingInv ==
  /\ FifoTypeOK
  /\ wr = SlotOf(count)
  /\ \A i \in 0 .. count - 1 :
       /\ StagedWord(SlotOf(i)) = mem[SlotOf(i)]
       /\ free[SlotOf(i)] = mem[SlotOf(i)]

(* The words a reader would pop, oldest first.                             *)
Contents == [i \in 1 .. count |-> mem[SlotOf(i - 1)]]

Abstract == INSTANCE BoundedQueue WITH queue <- Contents

(* fifo.ml 49-57 and 96-103 say that ready, valid, level and the head are  *)
(* those of create_with at every cycle.  Ready, valid and level are shared *)
(* here; the three heads agree whenever the queue has a head.              *)
SameHead ==
  valid => Head_staged = Head_create_with /\ Head_free_slot = Head_create_with

(* The ring buffer is the abstract bounded queue, in each of its forms: no *)
(* word is lost, duplicated, overwritten or reordered by pointer           *)
(* wrap-around, by a push and a pop on one edge at either limit, by FLUSH  *)
(* racing either, or on its way through the staging register or the slot   *)
(* that is written on every edge.                                          *)
ImplementsQueue == Abstract!Spec /\ []SameHead
=============================================================================

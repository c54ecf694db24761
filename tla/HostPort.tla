------------------------------ MODULE HostPort ------------------------------
(***************************************************************************)
(* The nibble port of the chip (hardcaml/lib/host.ml): ui carries a window *)
(* number, a write strobe, a read strobe and a nibble; a word is           *)
(* WordLength nibbles, least significant first.                            *)
(*                                                                         *)
(* Two circuits gather the word being written: a buffer every accepted     *)
(* nibble shifts through (create_with), and slots loaded in place          *)
(* (slots_impl, the host_nibble_slots builds).  Both are kept here, fed    *)
(* by the same nibbles.  Nibble i of a word is at index i.                 *)
(***************************************************************************)
EXTENDS Naturals, Sequences

CONSTANTS
  WordLength,  \* nibbles in a word (8)
  Nibbles,     \* nibble values
  Zero         \* the nibble registers are cleared to

ASSUME PortAssumption == WordLength \in Nat \ {0, 1} /\ Zero \in Nibbles

VARIABLES
  previous_window,
  write_index,   \* nibbles of the current word already accepted
  write_buffer,  \* the shifting buffer
  slots,         \* the slots of the other circuit
  presenting,    \* a word is offered to the host
  snapshot,      \* that word, copied when it was offered
  read_index,    \* its nibbles already taken
  written,       \* history: the word completed on the last edge, or << >>
  taken          \* history: an offered word was taken on the last edge

bufferVars == <<write_index, write_buffer, slots>>
readVars   == <<presenting, snapshot, read_index>>
portVars   == <<previous_window, bufferVars, readVars, written, taken>>

Windows == 0 .. 3
Indices == 0 .. WordLength - 1
Last    == WordLength - 1
Word    == [Indices -> Nibbles]
UI      == [window : Windows, write : BOOLEAN, read : BOOLEAN, nibble : Nibbles]
AsSeq(word) == [i \in 1 .. WordLength |-> word[i - 1]]

Init ==
  /\ previous_window = 0
  /\ write_index = 0
  /\ write_buffer = [i \in Indices |-> Zero]
  /\ slots = [i \in 0 .. Last - 1 |-> Zero]
  /\ presenting = FALSE /\ snapshot = [i \in Indices |-> Zero] /\ read_index = 0
  /\ written = << >> /\ taken = FALSE

-----------------------------------------------------------------------------
(* The first edge of a new window is a bubble: nothing is accepted on it,  *)
(* and it ends both transfers.                                             *)
Changed(ui) == ui.window # previous_window

(* write_ready and read_valid: the processor's word for the live window.   *)
WriteAccept(ui, write_ready) == write_ready /\ ~Changed(ui) /\ ui.write
ReadAccept(ui)               == presenting /\ ~Changed(ui) /\ ui.read

(* The completed word: the last nibble is live, the others are buffered.   *)
Shifted(ui) == [i \in Indices |-> IF i = Last THEN ui.nibble ELSE write_buffer[i + 1]]
Slotted(ui) == [i \in Indices |-> IF i = Last THEN ui.nibble ELSE slots[i]]

(* The strobes of a whole word.                                            *)
write(ui, write_ready) == WriteAccept(ui, write_ready) /\ write_index = Last
read_word(ui)          == ReadAccept(ui) /\ read_index = Last

(* While the host stays in window 3 the mover leaves the queue alone.      *)
read_lock(ui) == ui.window = 3 /\ ~Changed(ui)

-----------------------------------------------------------------------------
(* Mutant: a bubble keeps the nibbles gathered so far.                     *)
XGather_KeepsPartial(ui, write_ready) ==
  IF WriteAccept(ui, write_ready)
  THEN /\ write_index' = (write_index + 1) % WordLength
       /\ write_buffer' = Shifted(ui)
       /\ slots' = [i \in 0 .. Last - 1 |-> IF i = write_index THEN ui.nibble ELSE slots[i]]
  ELSE UNCHANGED bufferVars
(* The write half.  A bubble clears the index and the buffer but no slot.  *)
Gather(ui, write_ready) ==
  IF Changed(ui)
  THEN write_index' = 0 /\ write_buffer' = [i \in Indices |-> Zero] /\ UNCHANGED slots
  ELSE IF WriteAccept(ui, write_ready)
  THEN /\ write_index' = (write_index + 1) % WordLength
       /\ write_buffer' = Shifted(ui)
       /\ slots' = [i \in 0 .. Last - 1 |-> IF i = write_index THEN ui.nibble ELSE slots[i]]
  ELSE UNCHANGED bufferVars

(* The read half.                                                          *)
Present(ui, read_valid, read_data) ==
  IF Changed(ui)
  THEN presenting' = FALSE /\ read_index' = 0 /\ UNCHANGED snapshot
  ELSE IF ~presenting /\ read_valid
  THEN presenting' = TRUE /\ snapshot' = read_data /\ read_index' = 0
  ELSE IF ReadAccept(ui)
  THEN /\ read_index' = (read_index + 1) % WordLength
       /\ presenting' = (read_index # Last)
       /\ UNCHANGED snapshot
  ELSE UNCHANGED readVars

(* One clock edge of the port.                                             *)
Port(ui, write_ready, read_valid, read_data) ==
  /\ Gather(ui, write_ready)
  /\ Present(ui, read_valid, read_data)
  /\ previous_window' = ui.window
  /\ written' = IF write(ui, write_ready) THEN AsSeq(Shifted(ui)) ELSE << >>
  /\ taken' = read_word(ui)

Clear ==
  /\ previous_window' = 0 /\ write_index' = 0
  /\ write_buffer' = [i \in Indices |-> Zero] /\ slots' = [i \in 0 .. Last - 1 |-> Zero]
  /\ presenting' = FALSE /\ snapshot' = [i \in Indices |-> Zero] /\ read_index' = 0
  /\ written' = << >> /\ taken' = FALSE

(* The processor's answers for the live window (processor.ml 185-189):     *)
(* commands are always taken and status is always there, program words and *)
(* TX words are taken when there is room, RX words are there when the      *)
(* queue has one; the rest is refused.                                     *)
Ready(window) == IF window = 0 THEN {TRUE} ELSE IF window = 3 THEN {FALSE} ELSE BOOLEAN
Valid(window) == IF window = 0 THEN {TRUE} ELSE IF window = 3 THEN BOOLEAN ELSE {FALSE}

Next ==
  \/ Clear
  \/ \E ui \in UI : \E ready \in Ready(ui.window), valid \in Valid(ui.window) :
       IF valid THEN \E data \in Word : Port(ui, ready, valid, data)
                ELSE Port(ui, ready, valid, snapshot)

Spec == Init /\ [][Next]_portVars

-----------------------------------------------------------------------------
TypeOK ==
  /\ previous_window \in Windows /\ write_index \in Indices /\ read_index \in Indices
  /\ write_buffer \in Word /\ snapshot \in Word /\ slots \in [0 .. Last - 1 -> Nibbles]
  /\ presenting \in BOOLEAN /\ taken \in BOOLEAN

(* The two circuits agree on every nibble of the word in progress, wherever*)
(* the host stalled or changed window before: the slots hold in place what *)
(* the buffer holds at its far end (host.ml 14-21).  So the completed word *)
(* is the same.                                                            *)
SlotsAgree ==
  /\ \A i \in 0 .. Last - 1 :
       i < write_index => slots[i] = write_buffer[WordLength - write_index + i]
  /\ write_index = Last => \A ui \in UI : Slotted(ui) = Shifted(ui)

(* A word is offered from its first nibble, and only in windows 0 and 3.   *)
OfferedFromWindow ==
  /\ presenting => previous_window \in {0, 3}
  /\ ~presenting => read_index = 0

PortInv == TypeOK /\ SlotsAgree /\ OfferedFromWindow

(* The port implements the word port.                                      *)
Partial == [i \in 1 .. write_index |-> write_buffer[WordLength - write_index + i - 1]]
Offered == IF presenting
           THEN [i \in 1 .. WordLength - read_index |-> snapshot[read_index + i - 1]]
           ELSE << >>

Abstract == INSTANCE WordPort WITH
              window <- previous_window, partial <- Partial, offered <- Offered

ImplementsWordPort == Abstract!Spec
=============================================================================

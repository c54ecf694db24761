------------------------------ MODULE Transfer ------------------------------
(***************************************************************************)
(* The fused serial transfer of an engine, XFER (hardcaml/lib/             *)
(* engine_transfer.ml, shifts in engine_datapath.ml): 2 * a clock          *)
(* transitions b cycles apart, bits shifted out of tx and into rx, in the  *)
(* four clock modes and both bit orders.  One step is one clock edge of an *)
(* engine that transfers, is stopped or started, or executes firmware.     *)
(*                                                                         *)
(* Bit i of a register is at index i.  `ck' and `out' are the two output   *)
(* levels the transfer writes; PINS has chosen distinct pins for them, or  *)
(* the transfer does not drive `out' (engine_decode.ml).  The input pin is *)
(* arbitrary: it may be any pin, after its synchronizer.                   *)
(***************************************************************************)
EXTENDS Naturals, Sequences

CONSTANTS
  Width,       \* bits of a register (Config.data_width: 16 or 32)
  MaxPeriod    \* longest half period tried (255 on the chip)

ASSUME TransferAssumption == Width \in Nat \ {0} /\ MaxPeriod \in Nat \ {0}

VARIABLES
  tx, rx,          \* shift registers
  ck, out,         \* levels of the clock and data-out pins
  transfer_edges,  \* transitions still to come
  transfer_tick,   \* cycles to the next one
  transfer_period,
  transfer_mode,
  word,            \* history: tx when the transfer was issued, and its bit count
  since,           \* history: cycles since issue
  presented,       \* history: levels of `out' at the sampling transitions
  received         \* history: input bits sampled

registers == <<tx, rx, ck, out, transfer_edges, transfer_tick, transfer_period, transfer_mode>>
transferVars == <<registers, word, since, presented, received>>

Bit     == {0, 1}
Indices == 0 .. Width - 1
Reg     == [Indices -> Bit]
Modes   == [cpol : Bit, cpha : Bit, msb : BOOLEAN, drive : BOOLEAN, sample : BOOLEAN]
Zero    == [i \in Indices |-> 0]
NoMode  == [cpol |-> 0, cpha |-> 0, msb |-> FALSE, drive |-> FALSE, sample |-> FALSE]

TransferInit ==
  /\ tx = Zero /\ rx = Zero /\ ck = 0 /\ out = 0
  /\ transfer_edges = 0 /\ transfer_tick = 0 /\ transfer_period = 0
  /\ transfer_mode = NoMode
  /\ word = [bits |-> 0, tx |-> tx] /\ since = 0 /\ presented = << >> /\ received = << >>

-----------------------------------------------------------------------------
tx_bit(msb, data) == IF msb THEN data[Width - 1] ELSE data[0]

(* Left for MSB first, right for LSB first, zero filled.                   *)
shift_tx(msb, data) ==
  [i \in Indices |->
     IF msb THEN IF i = 0 THEN 0 ELSE data[i - 1]
            ELSE IF i = Width - 1 THEN 0 ELSE data[i + 1]]
sample(msb, data, bit) ==
  [i \in Indices |->
     IF msb THEN IF i = 0 THEN bit ELSE data[i - 1]
            ELSE IF i = Width - 1 THEN bit ELSE data[i + 1]]

(* XFER issues: clock idle, the first bit prepared for CPHA 0.             *)
issue(a, b, mode) ==
  /\ transfer_edges = 0
  /\ transfer_edges' = 2 * a /\ transfer_tick' = b /\ transfer_period' = b
  /\ transfer_mode' = mode
  /\ ck' = mode.cpol
  /\ out' = IF mode.cpha = 0 /\ mode.drive THEN tx_bit(mode.msb, tx) ELSE out
  /\ word' = [bits |-> a, tx |-> tx] /\ since' = 0 /\ presented' = << >> /\ received' = << >>
  /\ UNCHANGED <<tx, rx>>

(* The edge that comes next is the active one (away from the idle level).  *)
active_edge  == transfer_edges % 2 = 0
sample_edge  == active_edge # (transfer_mode.cpha = 1)

(* Mutants: the half period is one cycle short; both phases shift on the   *)
(* active edge; the clock idles low in every mode.                         *)
Xshifting_Active == active_edge /\ transfer_mode.drive
Xelapsed_Early == transfer_tick <= 2
elapsed   == transfer_tick <= 1
new_clock == IF active_edge THEN 1 - transfer_mode.cpol ELSE transfer_mode.cpol

(* The data leaves one edge before it is sampled: CPHA 0 shifts on idle    *)
(* edges, CPHA 1 drives and shifts on active ones.  After the last idle    *)
(* edge of CPHA 0 the last bit stays.                                      *)
shifting   == (IF transfer_mode.cpha = 1 THEN active_edge ELSE ~active_edge) /\ transfer_mode.drive
update_out == shifting /\ (transfer_mode.cpha = 1 \/ transfer_edges # 1)

(* A cycle without a transition.                                           *)
Count ==
  /\ transfer_edges # 0 /\ ~elapsed
  /\ transfer_tick' = transfer_tick - 1
  /\ since' = since + 1
  /\ UNCHANGED <<tx, rx, ck, out, transfer_edges, transfer_period, transfer_mode,
                 word, presented, received>>

(* A transition.                                                           *)
Transition(input_bit) ==
  LET mode == transfer_mode
      samples == mode.sample /\ sample_edge
  IN  /\ transfer_edges # 0 /\ elapsed
      /\ transfer_tick' = transfer_period
      /\ transfer_edges' = transfer_edges - 1
      /\ ck' = new_clock
      /\ out' = IF ~update_out THEN out
                ELSE tx_bit(mode.msb, IF mode.cpha = 1 THEN tx ELSE shift_tx(mode.msb, tx))
      /\ tx' = IF shifting THEN shift_tx(mode.msb, tx) ELSE tx
      /\ rx' = IF samples THEN sample(mode.msb, rx, input_bit) ELSE rx
      /\ since' = since + 1
      /\ presented' = IF sample_edge THEN Append(presented, out) ELSE presented
      /\ received' = IF samples THEN Append(received, input_bit) ELSE received
      /\ UNCHANGED <<transfer_period, transfer_mode, word>>

(* Outside a transfer the histories are those of no transfer.              *)
Unassigned(data) ==
  word' = [bits |-> 0, tx |-> data] /\ since' = 0 /\ presented' = << >> /\ received' = << >>

(* STOP ends a transfer where it stands (engine.ml 231).                   *)
TransferStop ==
  /\ transfer_edges # 0
  /\ transfer_edges' = 0
  /\ Unassigned(tx)
  /\ UNCHANGED <<tx, rx, ck, out, transfer_tick, transfer_period, transfer_mode>>

(* START clears every register and pin at any time.                        *)
start ==
  /\ tx' = Zero /\ rx' = Zero /\ ck' = 0 /\ out' = 0
  /\ transfer_edges' = 0 /\ transfer_tick' = 0 /\ transfer_period' = 0
  /\ transfer_mode' = NoMode
  /\ Unassigned(Zero)

(* Between transfers the firmware loads registers and drives pins as it    *)
(* likes; no other instruction writes both rx and the pins.                *)
Other ==
  /\ transfer_edges = 0
  /\ \/ tx' \in Reg /\ ck' \in Bit /\ out' \in Bit /\ UNCHANGED rx
     \/ rx' \in Reg /\ UNCHANGED <<tx, ck, out>>
  /\ Unassigned(tx')
  /\ UNCHANGED <<transfer_edges, transfer_tick, transfer_period, transfer_mode>>

TransferNext ==
  \/ \E a \in 1 .. Width, b \in 1 .. MaxPeriod, mode \in Modes : issue(a, b, mode)
  \/ Count
  \/ \E input_bit \in Bit : Transition(input_bit)
  \/ TransferStop \/ start
  \/ Other

TransferSpec == TransferInit /\ [][TransferNext]_transferVars

-----------------------------------------------------------------------------
TransferTypeOK ==
  /\ tx \in Reg /\ rx \in Reg /\ ck \in Bit /\ out \in Bit
  /\ transfer_mode \in Modes /\ transfer_edges \in Nat
  /\ word \in [bits : 0 .. Width, tx : Reg]

Transferring == transfer_edges # 0
Ended        == word.bits # 0 /\ transfer_edges = 0
BitAt(i)     == IF transfer_mode.msb THEN Width - i ELSE i - 1

(* Transitions alternate from the mode's idle level, so after 2 * a of     *)
(* them the clock is idle again, and they come exactly b cycles apart, the *)
(* first one b cycles after issue (docs/isa.md 72-77): k of them have been *)
(* made k * b cycles after issue, neither sooner nor later.                *)
ClockShape ==
  word.bits # 0 =>
    /\ ck = transfer_mode.cpol <=> transfer_edges % 2 = 0
    /\ LET made == 2 * word.bits - transfer_edges
       IN  made * transfer_period <= since /\ (Transferring => since < (made + 1) * transfer_period)

(* A peripheral that samples `out' on this mode's sampling edge receives   *)
(* the word's bits in order, each of them standing before the edge it is   *)
(* sampled at; after the transfer it has received exactly `a' bits.        *)
PeripheralSeesWord ==
  word.bits # 0 /\ transfer_mode.drive =>
    /\ \A i \in 1 .. Len(presented) : presented[i] = word.tx[BitAt(i)]
    /\ Ended => Len(presented) = word.bits
    /\ Ended => out = word.tx[BitAt(word.bits)]

(* rx ends with the sampled bits, the last one innermost, in either order. *)
ReceivesBits ==
  word.bits # 0 =>
    /\ Ended => Len(received) = (IF transfer_mode.sample THEN word.bits ELSE 0)
    /\ \A i \in 1 .. Len(received) :
         LET age == Len(received) - i
         IN  received[i] = rx[IF transfer_mode.msb THEN age ELSE Width - 1 - age]

(* Both directions of the transfer: the bits of the word go out in order,  *)
(* the bits of the input come in in order.                                 *)
WordsExchanged == PeripheralSeesWord /\ ReceivesBits
=============================================================================

------------------------------ MODULE Lockstep ------------------------------
(***************************************************************************)
(* The lockstep port (LockstepPort and LockstepEmulator in                 *)
(* host/pe_host/ports/pio_lockstep.py) on the running PIO program: the CPU *)
(* puts operations into the TX FIFO, takes results from the RX FIFO, halts *)
(* the clock for a reset, and restarts the program when a handshake never  *)
(* completes.  Every CPU step may fall into any cycle of the PIO.          *)
(*                                                                         *)
(* A call is a list of steps: submit a chunk of operations, wait for the   *)
(* results, and those of a reset.                                          *)
(***************************************************************************)
EXTENDS LockstepPio, SequencesExt

CONSTANTS
  MaxCalls,    \* calls of a behaviour
  SleepCycles, \* PIO cycles that pass at least while wait_halted sleeps 2 us
  MaxWraps,    \* times Y wraps at most between two stamps
  Slack        \* frames the bounds of the RP2's clock are at most off

ASSUME LockstepAssumption ==
  /\ MaxCalls \in Nat /\ SleepCycles \in Nat /\ YModulus \in Nat \ {0}
  /\ MaxWraps \in Nat /\ Slack \in Nat

VARIABLES
  call,         \* the call in progress
  todo,         \* its steps still to do
  putting,      \* the operations of a chunk not yet in the TX FIFO
  results,      \* results still to take, oldest first: [kind, sigma]
  values,       \* results taken in this call
  sigma,        \* frames of all operations put so far
  slept,        \* cycles slept in wait_halted
  window,       \* window bits on the ui pins when all operations have run
  calls,        \* calls made
  _d,           \* idle and stall frames the port has counted, modulo YModulus
  _last_stamp,  \* the program has had a stamp that bounds the next
  count_exact,
  idled,        \* history: the frames it really idled and stalled up to the last stamp
  drift,        \* history: frames counted less those there were, since the first stamp
  wrote, took,  \* history: words written and read by the calls that returned
  gave_up       \* history: the calls that timed out

stampVars == <<_d, _last_stamp, count_exact, idled, drift>>
hostVars == <<call, todo, putting, results, values, sigma, slept, window, calls,
              stampVars, wrote, took, gave_up>>
vars == <<pioVars, hostVars>>

-----------------------------------------------------------------------------
(* Operations: the FIFO word, and the kind of its result, if it has one.   *)
op_cycle(pins)       == [word |-> <<ADDR_CYC, pins>>, kind |-> "stamp"]
op_write(pins)       == [word |-> <<ADDR_WR, pins>>, kind |-> "none"]
op_read(pins)        == [word |-> <<ADDR_RD, pins>>, kind |-> "data"]
op_read_bubble(pins) == [word |-> <<ADDR_RDB, pins, pins>>, kind |-> "data"]
OP_HALT              == [word |-> <<ADDR_HALT>>, kind |-> "stamp"]

Glued(a, b) ==
  <<a.word[1], b.word[1]>> \in
    {<<ADDR_CYC, ADDR_WR>>, <<ADDR_WR, ADDR_CYC>>, <<ADDR_RD, ADDR_CYC>>, <<ADDR_RDB, ADDR_CYC>>}

(* Operations that stay together, then chunks of at most TxDepth words.    *)
Piece(pieces, op) ==
  IF pieces # << >> /\ Glued(Last(Last(pieces)), op)
  THEN Append(Front(pieces), Append(Last(pieces), op))
  ELSE Append(pieces, <<op>>)
Pieces(ops) ==
  LET upto[k \in 0 .. Len(ops)] == IF k = 0 THEN << >> ELSE Piece(upto[k - 1], ops[k])
  IN  upto[Len(ops)]

Chunk(chunks, piece) ==
  IF chunks # << >> /\ Len(Last(chunks)) + Len(piece) <= TxDepth
  THEN Append(Front(chunks), Last(chunks) \o piece)
  ELSE Append(chunks, piece)
Chunks(ops) ==
  LET pieces == Pieces(ops)
      upto[k \in 0 .. Len(pieces)] == IF k = 0 THEN << >> ELSE Chunk(upto[k - 1], pieces[k])
  IN  upto[Len(pieces)]

(* Steps of a call.                                                        *)
Submit(ops)    == [do |-> "submit", ops |-> ops, level |-> FALSE]
Do(step)       == [do |-> step, ops |-> << >>, level |-> FALSE]
SetReset(on)   == [do |-> "set_reset", ops |-> << >>, level |-> on]

run_ops(ops) == LET chunks == Chunks(ops) IN
  [i \in 1 .. Len(chunks) |-> Submit(chunks[i])] \o <<Do("wait")>>
_halt(step) == <<Submit(<<OP_HALT>>), Do("tx_empty"), Do("sleep"), step, Do("put"), Do("wait")>>

write_word(w, number) ==
  run_ops(<<op_cycle(Idle(w))>>
          \o [i \in 1 .. WordLength |-> op_write(UI(w, TRUE, FALSE, Nibble(number, i - 1)))]
          \o <<op_cycle(Idle(w))>>)
read_word(w) ==
  LET pins == UI(w, FALSE, TRUE, 0) IN
  run_ops(<<IF w = window THEN op_read(pins) ELSE op_read_bubble(pins), op_cycle(Idle(w))>>)
reset == _halt(SetReset(TRUE)) \o run_ops(<<op_cycle(Idle(0))>>) \o _halt(SetReset(FALSE))
cycle(w) == run_ops(<<op_cycle(Idle(w))>>)
bounce == cycle(1)

NoCall == [kind |-> "none", window |-> 0]

-----------------------------------------------------------------------------
(* Results come back in the order of their operations.                     *)
RxReady == sm.rx # << >>

(* Mutant: a wrap of Y since the last stamp is not resolved.                *)
XResolve_NoWrap(delta, low) == delta
(* The least number of frames from low on that agrees with Y: while delta  *)
(* is below low, Y has wrapped once more.                                  *)
Resolve(delta, low) ==
  IF delta >= low THEN delta
  ELSE delta + YModulus * ((low - delta + YModulus - 1) \div YModulus)

(* Modulo YModulus, the frames idled up to a stamp: by the decrements of Y,*)
(* and by the edges there had been at its sample less the frames booked.   *)
ByCounter(value)      == (YModulus - value[1]) % YModulus
ByEdges(entry, value) == (value[2] + YModulus - entry.sigma) % YModulus

(* The count from a stamp.  Between this stamp and the last the program    *)
(* idled for any number of wraps more than the pins show, and the times of *)
(* put and get bound the frames from below and from above.                 *)
_stamp(entry, value) ==
  \E wraps \in 0 .. MaxWraps, early, late \in 0 .. Slack :
    LET frames == ((ByEdges(entry, value) + YModulus - idled) % YModulus) + wraps * YModulus
        low == frames - early
        high == frames + late
        delta == (ByCounter(value) + YModulus - _d) % YModulus
        counted == IF _last_stamp THEN Resolve(delta, low) ELSE delta IN
    /\ _d' = (_d + counted) % YModulus
    /\ _last_stamp' = TRUE
    /\ count_exact' = (count_exact /\ (_last_stamp => high - low < YModulus))
    /\ idled' = ByEdges(entry, value)
    /\ drift' = IF _last_stamp /\ count_exact' THEN drift + counted - frames ELSE drift

_collect_one ==
  LET entry == Head(results)
      value == Head(sm.rx) IN
  /\ results # << >> /\ RxReady
  /\ sm' = [sm EXCEPT !.rx = Tail(@)]
  /\ results' = Tail(results)
  /\ values' = IF entry.kind = "data" THEN Append(values, value) ELSE values
  /\ IF entry.kind = "stamp" THEN _stamp(entry, value) ELSE UNCHANGED stampVars

(* _account, for the operations of a chunk in order.                       *)
Booked(a, op) ==
  LET total == (a.sigma + 1 + FIXED_FRAMES(op.word[1])) % YModulus IN
  [sigma   |-> total,
   results |-> IF op.kind = "none" THEN a.results
               ELSE Append(a.results, [kind |-> op.kind, sigma |-> total])]
Account(ops) ==
  LET upto[k \in 0 .. Len(ops)] == IF k = 0 THEN [sigma |-> sigma, results |-> results]
                                   ELSE Booked(upto[k - 1], ops[k])
  IN  upto[Len(ops)]

-----------------------------------------------------------------------------
Step == Head(todo)
Doing(step) == todo # << >> /\ Step.do = step /\ putting = << >>
Done == todo' = Tail(todo)

Collects ==
  \/ Doing("submit") /\ Len(Account(Step.ops).results) > RxDepth
  \/ Doing("wait") /\ results # << >>

Collect ==
  /\ Collects /\ _collect_one
  /\ UNCHANGED <<clk, ui, sync1, sync2, chip, rst, edges, age, paused, chipWrote, chipTook>>
  /\ UNCHANGED <<call, todo, putting, sigma, slept, window, calls, wrote, took, gave_up>>

(* A chunk is booked and put when the TX FIFO has room for all of it.      *)
SubmitChunk ==
  /\ Doing("submit") /\ ~Collects
  /\ Len(sm.tx) + Len(Step.ops) <= TxDepth
  /\ putting' = Step.ops
  /\ sigma' = Account(Step.ops).sigma /\ results' = Account(Step.ops).results
  /\ Done
  /\ UNCHANGED <<pioVars, call, values, slept, window, calls, stampVars, wrote, took, gave_up>>

Put(word) == sm' = [sm EXCEPT !.tx = Append(@, word)]
PioElse == UNCHANGED <<clk, ui, sync1, sync2, chip, rst, edges, age, paused, chipWrote, chipTook>>

PutWord ==
  /\ putting # << >> /\ Len(sm.tx) < TxDepth
  /\ Put(Head(putting).word) /\ putting' = Tail(putting) /\ PioElse
  /\ UNCHANGED <<call, todo, results, values, sigma, slept, window, calls,
                 stampVars, wrote, took, gave_up>>

(* The steps of a reset: wait for HALT to stall, switch rst_n, release it. *)
WaitHalted ==
  /\ Doing("tx_empty") /\ sm.tx = << >> /\ Done /\ slept' = 0
  /\ UNCHANGED <<pioVars, call, putting, results, values, sigma, window, calls,
                 stampVars, wrote, took, gave_up>>

set_reset ==
  /\ Doing("set_reset") /\ Done /\ rst' = Step.level
  /\ UNCHANGED <<sm, clk, ui, sync1, sync2, chip, edges, age, paused, chipWrote, chipTook>>
  /\ UNCHANGED <<call, putting, results, values, sigma, slept, window, calls,
                 stampVars, wrote, took, gave_up>>

_release ==
  /\ Doing("put") /\ Len(sm.tx) < TxDepth /\ Put(<<0>>) /\ PioElse /\ Done
  /\ UNCHANGED <<call, putting, results, values, sigma, slept, window, calls,
                 stampVars, wrote, took, gave_up>>

Waited ==
  /\ Doing("wait") /\ results = << >> /\ Done
  /\ UNCHANGED <<pioVars, call, putting, results, values, sigma, slept, window, calls,
                 stampVars, wrote, took, gave_up>>

Return ==
  /\ call # NoCall /\ todo = << >> /\ putting = << >>
  /\ call' = NoCall /\ values' = << >>
  /\ wrote' = IF call.kind = "write" THEN Append(wrote, calls) ELSE wrote
  /\ took' = IF call.kind = "read" THEN Append(took, values[1]) ELSE took
  /\ UNCHANGED <<pioVars, todo, putting, results, sigma, slept, window, calls, stampVars,
                 gave_up>>

-----------------------------------------------------------------------------
(* A call.  Its number is the word it writes.                              *)
Steps(kind, w) ==
  CASE kind = "write" -> write_word(w, calls + 1)
    [] kind = "read"  -> read_word(w)
    [] kind = "cycle" -> cycle(w)
    [] kind = "reset" -> reset
WindowsOf(kind) ==
  CASE kind = "write" -> {0, 2} [] kind = "read" -> {0, 3} [] kind = "cycle" -> {window}
    [] kind = "reset" -> {0}

Call(kind, w) ==
  /\ call = NoCall /\ calls < MaxCalls
  /\ call' = [kind |-> kind, window |-> w]
  /\ todo' = Steps(kind, w)
  /\ window' = w /\ calls' = calls + 1
  /\ UNCHANGED <<pioVars, putting, results, values, sigma, slept, stampVars, wrote, took, gave_up>>

(* Mutant: the wait for TX space has no deadline.                           *)
(* Nothing moved for watchdog_us: the program is restarted, the call       *)
(* raises, and the emulator leaves the window to drop the partial word.    *)
XBlocked_TxPollsForEver == Collects /\ ~RxReady
Blocked ==
  \/ Collects /\ ~RxReady
  \/ Doing("submit") /\ ~Collects /\ Len(sm.tx) + Len(Step.ops) > TxDepth
  \/ Doing("tx_empty") /\ sm.tx # << >>

Timeout ==
  /\ Blocked /\ Handshaking
  /\ Restart
  /\ results' = << >> /\ values' = << >> /\ sigma' = 0 /\ count_exact' = FALSE
  /\ _d' = 0 /\ _last_stamp' = FALSE /\ idled' = 0
  /\ call' = [kind |-> "bounce", window |-> 1] /\ window' = 1 /\ todo' = bounce
  /\ gave_up' = gave_up \cup {calls}
  /\ UNCHANGED <<putting, slept, calls, drift, wrote, took>>

-----------------------------------------------------------------------------
Init ==
  /\ PioInit
  /\ call = NoCall /\ todo = << >> /\ putting = << >> /\ results = << >> /\ values = << >>
  /\ sigma = 0 /\ slept = 0 /\ window = 0 /\ calls = 0
  /\ _d = 0 /\ _last_stamp = FALSE /\ count_exact = TRUE /\ idled = 0 /\ drift = 0
  /\ wrote = << >> /\ took = << >> /\ gave_up = {}

(* The program runs on, whatever the CPU does; a sleep ends after some of  *)
(* its cycles.                                                             *)
Run ==
  /\ Cycle
  /\ IF Doing("sleep")
     THEN /\ slept' = slept + 1
          /\ todo' = IF slept + 1 >= SleepCycles THEN Tail(todo) ELSE todo
     ELSE UNCHANGED <<slept, todo>>
  /\ UNCHANGED <<call, putting, results, values, sigma, window, calls, stampVars,
                 wrote, took, gave_up>>

HostStep ==
  \/ Collect \/ SubmitChunk \/ PutWord \/ WaitHalted \/ set_reset \/ _release \/ Waited \/ Return

Next ==
  \/ Run \/ HostStep \/ Timeout
  \/ \E kind \in {"write", "read", "cycle", "reset"} : \E w \in WindowsOf(kind) : Call(kind, w)

Spec == Init /\ [][Next]_vars
FairSpec == Spec /\ WF_vars(Run) /\ WF_vars(HostStep) /\ WF_vars(Timeout)

-----------------------------------------------------------------------------
(* Between calls, the chip has completed exactly the words of the writes   *)
(* that returned, each once, in order and of its own eight nibbles, however*)
(* the chip stalled them; a write that timed out as its last nibble was    *)
(* taken may have been done too, but never in part and never twice.        *)
WriteExactlyOnce ==
  /\ \A i, j \in 1 .. Len(chipWrote) : i < j => chipWrote[i] < chipWrote[j]
  /\ call = NoCall => wrote = SelectSeq(chipWrote, LAMBDA w : w \notin gave_up)

(* Between calls, the words the reads returned are the words the chip gave *)
(* up, each once, in order and whole: no ninth nibble is taken, and no     *)
(* result of an abandoned operation is taken for one of a later.           *)
ReadExactlyOnce ==
  call = NoCall =>
    took = [k \in 1 .. chipTook |-> [i \in 1 .. WordLength |-> Nibble(k, i - 1)]]

(* port.count and the rising edges ("the exact number of rising edges at   *)
(* every result").  At every stamp they agree modulo 2^24, whatever the    *)
(* program idled and stalled and however often it was restarted; and from  *)
(* the first stamp on, as long as count_exact stands, the port has counted *)
(* every frame between two stamps, those of whole wraps of Y included.     *)
(* Before the first stamp nothing bounds them, and wraps are missed.       *)
CountExact == _d = idled /\ drift = 0

(* The words a board that clocks the chip itself owes its caller.          *)
PortKept == WriteExactlyOnce /\ ReadExactlyOnce

(* The clock the engines see: a period of six cycles unless HALT or a      *)
(* restart held it, ui half a period away from both rising edges, and both *)
(* reset transitions while the clock is halted low.                        *)
PinSchedule ==
  [][/\ clk = 0 /\ clk' = 1 => age = 5 \/ paused
     /\ ui' # ui => age = 2 \/ paused'
     /\ rst' # rst => clk = 0 /\ sm.pc = ADDR_HALT /\ sm.tx = << >>]_vars

(* A program stuck in a handshake is a timeout, never a hung CPU: every    *)
(* call returns.                                                           *)
CallsReturn == call # NoCall ~> call = NoCall
=============================================================================

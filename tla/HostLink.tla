------------------------------ MODULE HostLink ------------------------------
(***************************************************************************)
(* The host library (host/pe_host/host.py, class ProtocolEmulator) driving *)
(* the nibble port.  The library owns the clock: one of its port cycles is *)
(* one edge of the chip, and samples uo before the edge                    *)
(* (host/pe_host/ports/base.py).  Every call is a plan of primitives       *)
(* (write_word, read_word, one cycle in another window), each with its own *)
(* retries, timeout and abandonment, while on the chip queues fill and     *)
(* drain, the mover moves and engines fault as they like.                  *)
(***************************************************************************)
EXTENDS HostPort

CONSTANTS
  Timeout,    \* stalled cycles a nibble is retried for
  RxDepth,    \* words of the selected RX queue
  RxWords     \* what engines push into it

ASSUME LinkAssumption ==
  /\ Timeout \in Nat \ {0} /\ RxDepth \in Nat \ {0} /\ RxWords \subseteq Word
  /\ 1 \in Nibbles       \* the opcode nibble of READ_SELECT

VARIABLES
  hostWindow,   \* self.window
  plan,         \* primitives the current call still has to do
  phase,        \* where the first of them is
  n, waited,    \* nibble of the word, stalled cycles of the nibble
  result,       \* nibbles read
  first,        \* FAULT in the first sample of a write_word: unset, low or high
  call,         \* the current or last call
  outcome,      \* how it ended: "busy", "done" or "timeout" (HostTimeout, None, False)
  verdict,      \* last_command_ok
  rx,           \* RX queue of the selected engine
  rsel,         \* host_read_select
  hostFault, engineFault,   \* the two reasons for FAULT (uo[7])
  sentWords,    \* history: program and TX words accepted during the call
  popped,       \* history: RX words popped during the call
  accepted,     \* history: the chip accepted the call's command
  since         \* history: what the status words showed since the call's READ_SELECT

hostVars == <<hostWindow, plan, phase, n, waited, result, first, call, outcome, verdict>>
chipVars == <<rx, rsel, hostFault, engineFault>>
seenVars == <<sentWords, popped, accepted>>
linkVars == <<portVars, hostVars, chipVars, seenVars, since>>

(* The command words: READ_SELECT, whose validity depends on its payload   *)
(* only, and all the others, which the chip accepts or rejects.  A status  *)
(* word shows its index and what the chip has just then (processor.ml      *)
(* 190-204): the state of an engine, a level, the clock.                   *)
IsReadSelect(word)  == word[Last] = 1
ReadSelectWord(i)   == [j \in Indices |-> IF j = Last THEN 1 ELSE i]
StatusWord(i, live) == [j \in Indices |-> IF j = Last THEN (IF live THEN 1 ELSE Zero) ELSE i]

WritePrimitive(window, word, nibbles) ==
  [kind |-> "write", window |-> window, word |-> word, nibbles |-> nibbles]
ReadPrimitive(window, nibbles) == [kind |-> "read", window |-> window, nibbles |-> nibbles]
Visit(window) == [kind |-> "visit", window |-> window]

NoCall == [op |-> "none"]

LinkInit ==
  /\ Init
  /\ hostWindow = 0 /\ plan = << >> /\ phase = "nibble" /\ n = 0 /\ waited = 0
  /\ result = << >> /\ first = "unset" /\ call = NoCall /\ outcome = "done" /\ verdict = "unknown"
  /\ rx = << >> /\ rsel = Zero /\ hostFault = FALSE /\ engineFault = FALSE
  /\ sentWords = << >> /\ popped = << >> /\ accepted = FALSE /\ since = BOOLEAN

-----------------------------------------------------------------------------
(* One edge of the chip under the host's ui.                               *)
Driven(window, write_strobe, read_strobe, nibble) ==
  [window |-> window, write |-> write_strobe, read |-> read_strobe, nibble |-> nibble]
Resting(window) == Driven(window, FALSE, FALSE, Zero)

(* The samples: uo[4] write-ready, uo[5] read-valid, uo[3:0], uo[7] FAULT. *)
SeesReady(ui, ready) == ready /\ ~Changed(ui)
SeesValid(ui)        == presenting /\ ~Changed(ui)
SeesFault            == hostFault \/ engineFault

RxValid(ui) == ui.window = 0 \/ (ui.window = 3 /\ rx # << >>)
ReadData(ui, live) == IF ui.window = 3 /\ rx # << >> THEN Head(rx) ELSE StatusWord(rsel, live)

(* The selected RX queue: the host's pop or the mover's, and a push.       *)
Queue(ui) ==
  LET rests == IF read_word(ui) /\ ui.window = 3 THEN {Tail(rx)}
               ELSE IF rx # << >> /\ ~read_lock(ui) THEN {rx, Tail(rx)} ELSE {rx}
  IN  \E rest \in rests :
        \/ rx' = rest
        \/ Len(rx) < RxDepth /\ \E word \in RxWords : rx' = Append(rest, word)

(* The command of a completed window 0 word.                               *)
Command(ui, ready) ==
  IF write(ui, ready) /\ ui.window = 0
  THEN IF IsReadSelect(Shifted(ui))
       THEN /\ rsel' = Shifted(ui)[0] /\ accepted' = TRUE
            /\ UNCHANGED hostFault /\ engineFault' \in {engineFault, TRUE}
       ELSE /\ UNCHANGED rsel
            /\ \/ /\ accepted' = TRUE                   \* CLEAR may clear either fault
                  /\ hostFault' \in {hostFault, FALSE} /\ engineFault' \in BOOLEAN
               \/ accepted' = FALSE /\ hostFault' = TRUE /\ engineFault' \in {engineFault, TRUE}
  ELSE /\ UNCHANGED <<rsel, hostFault, accepted>> /\ engineFault' \in {engineFault, TRUE}

Chip(ui, ready) ==
  /\ ready \in Ready(ui.window)
  /\ \E live \in BOOLEAN :
       /\ Port(ui, ready, RxValid(ui), ReadData(ui, live))
       /\ since' = IF write(ui, ready) /\ ui.window = 0 /\ IsReadSelect(Shifted(ui))
                   THEN {} ELSE since \cup {live}
  /\ Queue(ui)
  /\ Command(ui, ready)
  /\ sentWords' = IF write(ui, ready) /\ ui.window \in {1, 2} THEN Append(sentWords, Shifted(ui)) ELSE sentWords
  /\ popped' = IF read_word(ui) /\ ui.window = 3 THEN Append(popped, Head(rx)) ELSE popped

-----------------------------------------------------------------------------
(* The library.                                                            *)
Current == Head(plan)

(* A public call: nothing happens on the chip until its first cycle.       *)
Begin(c, p) ==
  /\ plan = << >>
  /\ plan' = p /\ phase' = (IF hostWindow = p[1].window THEN "nibble" ELSE "enter")
  /\ n' = 0 /\ waited' = 0 /\ result' = << >> /\ first' = "unset"
  /\ call' = c /\ outcome' = "busy" /\ verdict' = "unknown"
  /\ sentWords' = << >> /\ popped' = << >> /\ accepted' = FALSE /\ since' = BOOLEAN
  /\ UNCHANGED <<portVars, chipVars, hostWindow>>

(* The next primitive starts in the window the last one leaves; after the  *)
(* last one the call returns.                                              *)
Finish(window) ==
  /\ n' = 0 /\ waited' = 0 /\ plan' = Tail(plan)
  /\ IF Len(plan) = 1
     THEN outcome' = "done" /\ phase' = "nibble"
     ELSE outcome' = "busy" /\ phase' = (IF window = plan[2].window THEN "nibble" ELSE "enter")

(* Mutant: the retry loop has no limit.                                    *)
XStall_Forever == UNCHANGED <<plan, n, waited, phase, outcome>>

(* A nibble was refused: retry it, or give up by bouncing the window.      *)
Stall ==
  /\ UNCHANGED <<plan, n, outcome>>
  /\ IF waited + 1 = Timeout THEN phase' = "bounce" /\ waited' = 0
                             ELSE waited' = waited + 1 /\ UNCHANGED phase

(* A nibble went through; after the last, a whole word goes on to `phase', *)
(* a deliberately short one bounces.                                       *)
Advance ==
  /\ waited' = 0 /\ UNCHANGED <<plan, outcome>>
  /\ IF n + 1 < Current.nibbles THEN n' = n + 1 /\ UNCHANGED phase
     ELSE n' = 0 /\ phase' = (IF Current.nibbles < WordLength THEN "bounce" ELSE "after")

Sample == IF SeesFault THEN "high" ELSE "low"
SampleFirst == first' = IF first = "unset" THEN Sample ELSE first

(* set_window, and the window change inside write_word: one bubble cycle.  *)
EnterCycle ==
  /\ plan # << >> /\ phase = "enter"
  /\ hostWindow' = Current.window
  /\ \E ready \in BOOLEAN : Chip(Resting(Current.window), ready)
  /\ IF Current.kind = "write" THEN SampleFirst ELSE UNCHANGED first
  /\ IF Current.kind = "visit" THEN Finish(Current.window)
     ELSE phase' = "nibble" /\ UNCHANGED <<plan, n, waited, outcome>>
  /\ UNCHANGED <<result, call, verdict>>

WriteCycle ==
  /\ plan # << >> /\ phase = "nibble" /\ Current.kind = "write"
  /\ LET ui == Driven(Current.window, TRUE, FALSE, Current.word[n])
     IN  \E ready \in BOOLEAN :
           Chip(ui, ready) /\ IF SeesReady(ui, ready) THEN Advance ELSE Stall
  /\ SampleFirst
  /\ UNCHANGED <<hostWindow, result, call, verdict>>

(* Mutant: acceptance is judged by the sample before the word.             *)
XAfterCycle_Early ==
  /\ plan # << >> /\ phase = "after"
  /\ \E ready \in BOOLEAN : Chip(Resting(Current.window), ready)
  /\ verdict' = IF Current.window # 0 THEN "unknown"
                ELSE IF IsReadSelect(Current.word) \/ first = "low" THEN "ok" ELSE "unknown"
  /\ Finish(hostWindow)
  /\ first' = "unset"
  /\ UNCHANGED <<hostWindow, result, call>>

(* The idle cycle after a written word; for a command, what its sample     *)
(* says of acceptance (command(), with strict).                            *)
AfterCycle ==
  /\ plan # << >> /\ phase = "after"
  /\ \E ready \in BOOLEAN : Chip(Resting(Current.window), ready)
  /\ verdict' = IF Current.window # 0 THEN "unknown"
                ELSE IF IsReadSelect(Current.word) \/ ~SeesFault THEN "ok"
                ELSE IF first = "high" THEN "unknown" ELSE "rejected"
  /\ IF verdict' = "rejected"
     THEN plan' = << >> /\ outcome' = "rejected" /\ phase' = "nibble" /\ n' = 0 /\ waited' = 0
     ELSE Finish(hostWindow)
  /\ first' = "unset"
  /\ UNCHANGED <<hostWindow, result, call>>

ReadCycle ==
  /\ plan # << >> /\ phase = "nibble" /\ Current.kind = "read"
  /\ LET ui == Driven(Current.window, FALSE, TRUE, Zero)
     IN  /\ \E ready \in BOOLEAN : Chip(ui, ready)
         /\ IF SeesValid(ui)
            THEN /\ result' = Append(result, snapshot[read_index])
                 /\ IF n + 1 = WordLength THEN Finish(hostWindow) ELSE Advance
            ELSE UNCHANGED result /\ Stall
  /\ UNCHANGED <<hostWindow, first, call, verdict>>

(* An idle cycle before a nibble of a read (pauses).                       *)
Pause ==
  /\ plan # << >> /\ phase = "nibble" /\ Current.kind = "read"
  /\ \E ready \in BOOLEAN : Chip(Resting(Current.window), ready)
  /\ UNCHANGED hostVars

(* Mutant: giving up leaves the window as it is.                           *)
XNeighbour_Same(window) == window

(* bounce: the window's neighbour, where the host stays.                   *)
Neighbour(window) == IF window % 2 = 0 THEN window + 1 ELSE window - 1
BounceCycle ==
  /\ plan # << >> /\ phase = "bounce"
  /\ hostWindow' = Neighbour(hostWindow)
  /\ \E ready \in BOOLEAN : Chip(Resting(hostWindow'), ready)
  /\ plan' = << >> /\ outcome' = "timeout" /\ phase' = "nibble"
  /\ UNCHANGED <<n, waited, result, first, call, verdict>>

(* idle(): a cycle between calls.                                          *)
IdleCycle ==
  /\ plan = << >>
  /\ \E ready \in BOOLEAN : Chip(Resting(hostWindow), ready)
  /\ UNCHANGED hostVars

-----------------------------------------------------------------------------
(* The calls.                                                              *)
WriteCall ==      \* tx_write, tx_try_write, try_write_word; the words of load_program
  \E window \in {1, 2}, word \in Word, nibbles \in 1 .. WordLength :
    Begin([op |-> "write", word |-> word], <<WritePrimitive(window, word, nibbles)>>)
ReadCall ==       \* rx_read, rx_try_read, try_read_word
  \E nibbles \in 1 .. WordLength :
    Begin([op |-> "read"], <<ReadPrimitive(3, nibbles)>>)
SendCommand ==    \* command
  \E word \in Word : Begin([op |-> "command", word |-> word], <<WritePrimitive(0, word, WordLength)>>)
XReadStatus_NoVisit ==   \* mutant: window 0 is not left before the read
  \E i \in Nibbles :
    Begin([op |-> "read_status", index |-> i],
          <<WritePrimitive(0, ReadSelectWord(i), WordLength), ReadPrimitive(0, WordLength)>>)
ReadStatus ==     \* read_status: through window 1 to drop a stale snapshot
  \E i \in Nibbles :
    Begin([op |-> "read_status", index |-> i],
          <<WritePrimitive(0, ReadSelectWord(i), WordLength), Visit(1), ReadPrimitive(0, WordLength)>>)

(* reset(): chip and library forget everything.                            *)
ResetCall ==
  /\ plan = << >>
  /\ Clear
  /\ hostWindow' = 0 /\ phase' = "nibble" /\ n' = 0 /\ waited' = 0 /\ first' = "unset"
  /\ result' = << >> /\ call' = NoCall /\ outcome' = "done" /\ verdict' = "unknown"
  /\ rx' = << >> /\ rsel' = Zero /\ hostFault' = FALSE /\ engineFault' = FALSE
  /\ sentWords' = << >> /\ popped' = << >> /\ accepted' = FALSE /\ since' = BOOLEAN
  /\ UNCHANGED plan

Progress == EnterCycle \/ WriteCycle \/ AfterCycle \/ ReadCycle \/ BounceCycle

LinkNext ==
  \/ Progress \/ Pause \/ IdleCycle
  \/ WriteCall \/ ReadCall \/ SendCommand \/ ReadStatus \/ ResetCall

LinkSpec == LinkInit /\ [][LinkNext]_linkVars
FairLinkSpec == LinkSpec /\ WF_linkVars(Progress)

-----------------------------------------------------------------------------
Returned(op, how) == plan = << >> /\ call.op = op /\ outcome = how

(* A write that returns has put its word into the chip exactly once;       *)
(* one that timed out or was abandoned has put nothing there, however late *)
(* the room came (host.py 171-201, 237-258).                               *)
WriteExactlyOnce ==
  /\ Returned("write", "done") => sentWords = <<call.word>>
  /\ Returned("write", "timeout") => sentWords = << >>
  /\ plan # << >> /\ phase \in {"enter", "nibble"} => sentWords = << >>

(* An RX read that returns has popped exactly the word it returns; one that*)
(* timed out or was abandoned has popped nothing ("pop only at the last    *)
(* accepted nibble", host.py 260-264).                                     *)
ReadExactlyOnce ==
  /\ Returned("read", "done") => Len(popped) = 1 /\ result = AsSeq(popped[1])
  /\ Returned("read", "timeout") => popped = << >>
  /\ call.op # "read" => popped = << >>

(* Both directions: a call moves its word once if it returns, and not at   *)
(* all if it times out or is abandoned.                                    *)
ExactlyOnce == WriteExactlyOnce /\ ReadExactlyOnce

(* read_status returns the word of the index it was asked for as the chip  *)
(* showed it at an edge after this call's READ_SELECT, never one that was  *)
(* presented before ("drop a stale snapshot", host.py 398-404).            *)
StatusFresh ==
  Returned("read_status", "done") =>
    \E live \in since : result = AsSeq(StatusWord(call.index, live))

(* A command reported accepted was accepted (host.py 288-290, 309).        *)
AcceptedIsAccepted == verdict = "ok" /\ plan = << >> /\ call.op = "command" => accepted

(* "False when it rose across the word (the chip rejected it and set its   *)
(* sticky host fault)" (host.py 289-290): a command reported rejected was  *)
(* rejected.                                                               *)
RejectedIsRejected == outcome = "rejected" => ~accepted

(* Every call returns, whatever the queues do: each retry loop is bounded. *)
CallsReturn == plan # << >> ~> plan = << >>
=============================================================================

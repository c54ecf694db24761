------------------------------ MODULE Mailbox ------------------------------
(***************************************************************************)
(* The event mailboxes and input triggers (hardcaml/lib/processor.ml 63-70 *)
(* and 284-307): one pending bit per engine, set by the host's EVENT, by   *)
(* SIGNAL of any engine and by the engine's own pin trigger, and consumed  *)
(* by its WAITEVENT.  InputPins reach the triggers through two synchronizer     *)
(* stages and a shared register of the previous sample.                    *)
(*                                                                         *)
(* One step is one clock edge.  `waits' are the engines whose WAITEVENT    *)
(* issues on it, `signals' the targets of the SIGNALs that do.             *)
(***************************************************************************)
EXTENDS EngineSet, Sequences

CONSTANTS
  InputPins,
  CommandEdges    \* nibbles of a command word: edges from reset to the first

(* The three sample registers are filled before a command of eight nibbles *)
(* is complete (host.ml 58-96).                                            *)
ASSUME CommandAssumption == CommandEdges \in Nat /\ CommandEdges >= 3

VARIABLES
  sync1, synced_pins, previous_pins,   \* the pins that are high, stage by stage
  trigger_config,                      \* per engine: enable, mode, pin
  events,                              \* engines with a pending event
  age,        \* edges since reset, up to CommandEdges
  trace,      \* history: the pins at the last three edges since reset
  woken,      \* history: engines whose WAITEVENT was fulfilled on the last edge
  counting,   \* history: engines in a loop that counts the pulses of their pin
  unanswered  \* history: pulses such an engine's pin has made, less its wakes

sampleVars == <<sync1, synced_pins, previous_pins>>
historyVars == <<trace, woken, counting, unanswered>>
mailboxVars == <<sampleVars, trigger_config, events, age, historyVars>>

TriggerModes == {"rising", "falling", "high", "low"}
Off     == [enable |-> FALSE]
Configs == [enable : {TRUE}, mode : TriggerModes, pin : InputPins] \cup {Off}

NoCommand == [op |-> "none"]

MailboxInit ==
  /\ sync1 = {} /\ synced_pins = {} /\ previous_pins = {}
  /\ trigger_config = [k \in Engines |-> Off]
  /\ events = {} /\ age = 0
  /\ trace = << >> /\ woken = {}
  /\ counting = {} /\ unanswered = [k \in Engines |-> 0]

-----------------------------------------------------------------------------
(* A transition, or a level, between two successive samples.               *)
Condition(config, before, now) ==
  CASE config.mode = "rising"  -> config.pin \in now \ before
    [] config.mode = "falling" -> config.pin \in before \ now
    [] config.mode = "high"    -> config.pin \in now
    [] config.mode = "low"     -> config.pin \notin now

(* The detectors that fire; TRIGGER inhibits the one it rewrites.          *)
ExternalEvents(host) ==
  {k \in Engines : /\ trigger_config[k].enable
                   /\ Condition(trigger_config[k], previous_pins, synced_pins)
                   /\ ~(host.op = "trigger" /\ host.engine = k)}

Delivered(host, signals) ==
  ExternalEvents(host) \cup (IF host.op = "event" THEN host.mask ELSE {}) \cup signals

(* Mutant: consumption wins over a delivery on the same edge.              *)
XEvents_ConsumeWins(consumed, delivered) == (events \cup delivered) \ consumed
Events(consumed, delivered) == (events \ consumed) \cup delivered

(* A host command takes a word of nibbles, so none completes sooner after  *)
(* reset than that; TRIGGER needs its engine halted.                       *)
XCommandPossible_AtOnce(host, waits) == TRUE     \* mutant: no word to wait for
CommandPossible(host, waits) ==
  /\ host.op # "none" => age = CommandEdges
  /\ host.op = "trigger" => host.engine \notin waits

(* The history of an engine that counts pulses: its loop is the WAITEVENT  *)
(* and JMP of test_kill_events.py 28, away for one edge after each wake    *)
(* (or none), its edge detector the only source of its events.  A pulse is *)
(* taken where it happens, between two levels of the real pin.             *)
Pulse(config, before, now) ==
  /\ config.enable
  /\ \/ config.mode = "rising"  /\ config.pin \notin before /\ config.pin \in now
     \/ config.mode = "falling" /\ config.pin \in before /\ config.pin \notin now
One(condition) == IF condition THEN 1 ELSE 0
UnderWay(k) ==      \* pulses that are still in the synchronizers
  One(Pulse(trigger_config[k], trace[1], trace[2])) + One(Pulse(trigger_config[k], trace[2], trace[3]))

InLoop(host, waits, signals) ==
  {k \in Engines \ signals :
     /\ trigger_config[k].enable /\ trigger_config[k].mode \in {"rising", "falling"}
     /\ k \in waits \/ (k \in woken /\ k \in counting)
     /\ ~(host.op = "event" /\ k \in host.mask)
     /\ ~(host.op = "trigger" /\ host.engine = k)}

CountPulses(uio, host, waits, signals) ==
  /\ woken' = waits \cap events
  /\ counting' = InLoop(host, waits, signals)
  /\ unanswered' =
       [k \in Engines |->
          IF k \notin counting' THEN 0
          ELSE (IF k \in counting THEN unanswered[k] ELSE One(k \in events) + UnderWay(k))
                 + One(Pulse(trigger_config[k], trace[3], uio)) - One(k \in woken')]

(* One clock edge with the pins at `uio'.                                  *)
MailboxEdge(uio, host, waits, signals) ==
  LET consumed  == waits \cap events
      delivered == Delivered(host, signals)
  IN  /\ CommandPossible(host, waits)
      /\ sync1' = uio /\ synced_pins' = sync1 /\ previous_pins' = synced_pins
      /\ events' = Events(consumed, delivered)
      /\ trigger_config' = IF host.op = "trigger"
                           THEN [trigger_config EXCEPT ![host.engine] = host.config]
                           ELSE trigger_config
      /\ age' = IF age < CommandEdges THEN age + 1 ELSE age
      /\ trace' = Append(IF Len(trace) = 3 THEN Tail(trace) ELSE trace, uio)
      /\ CountPulses(uio, host, waits, signals)

NoActivity    == \E uio \in SUBSET InputPins : MailboxEdge(uio, NoCommand, {}, {})
Running ==
  \E uio \in SUBSET InputPins, waits, signals \in SUBSET Engines :
    /\ waits # Engines \/ signals = {}        \* a waiting engine signals nobody
    /\ MailboxEdge(uio, NoCommand, waits, signals)
Event   ==
  \E uio \in SUBSET InputPins, waits, mask \in SUBSET Engines :
    MailboxEdge(uio, [op |-> "event", mask |-> mask], waits, {})
Trigger ==      \* its engine is halted, another may signal
  \E uio \in SUBSET InputPins, waits, signals \in SUBSET Engines, k \in Engines, config \in Configs :
    /\ signals # {} => \E j \in Engines \ {k} : j \notin waits
    /\ MailboxEdge(uio, [op |-> "trigger", engine |-> k, config |-> config], waits, signals)

MailboxReset ==
  /\ sync1' = {} /\ synced_pins' = {} /\ previous_pins' = {}
  /\ trigger_config' = [k \in Engines |-> Off]
  /\ events' = {} /\ age' = 0
  /\ trace' = << >> /\ woken' = {}
  /\ counting' = {} /\ unanswered' = [k \in Engines |-> 0]

MailboxNext == NoActivity \/ Running \/ Event \/ Trigger \/ MailboxReset

MailboxSpec == MailboxInit /\ [][MailboxNext]_mailboxVars

-----------------------------------------------------------------------------
(* An engine in such a loop is woken exactly once by every pulse of its    *)
(* pin, however late it came to the loop and however close the pulses are: *)
(* those it has not answered are still in the synchronizers, or are the    *)
(* one its mailbox holds.  A bit set and cleared on one edge stays set     *)
(* ("simultaneous delivery wins over clear", docs/isa.md 51), and no two   *)
(* pulses meet in it.                                                      *)
PulsesCounted ==
  \A k \in counting : unanswered[k] = One(k \in events) + UnderWay(k)

(* "Enabling an edge detector at a static level creates no artificial      *)
(* edge" (docs/isa.md 173): the samples an enabled detector compares are   *)
(* two successive samples of the pins since reset, not the cleared         *)
(* registers -- because no TRIGGER can come before they are flushed.       *)
NoArtificialEdge ==
  \A k \in Engines :
    trigger_config[k].enable =>
      /\ Len(trace) = 3
      /\ previous_pins = trace[1]
      /\ synced_pins = trace[2]
=============================================================================

------------------------------ MODULE Control ------------------------------
(***************************************************************************)
(* The control registers of the chip (hardcaml/lib/processor.ml) and the   *)
(* part of an engine they govern (engine.ml): program images, pin          *)
(* ownership, start, stop, faults, and the pins that result.               *)
(*                                                                         *)
(* One step is one clock edge.  On an edge the host completes at most one  *)
(* word - a command, or a program word - and every running engine executes *)
(* one operation.  Each host command is an action of its own; `op' says    *)
(* what each engine does on the same edge.  Commands that touch none of    *)
(* this state (ROUTE, FLUSH, EVENT, ...) are Idle here.                    *)
(***************************************************************************)
EXTENDS EngineSet, FiniteSets

CONSTANTS
  Pins,          \* the shared pins (eight on the chip)
  ProgramWords,  \* capacity of one engine's program store
  Code,          \* instruction words
  FaultCodes     \* the codes an engine can fault with

ASSUME ControlAssumption ==
  /\ EngineCount \in Nat \ {0}
  /\ ProgramWords \in Nat \ {0}
  /\ FaultCodes \subseteq Nat \ {0}     \* FAULT 0 does not decode

VARIABLES
  selected,   \* engine the selected-engine commands act on
  hostFault,  \* sticky: an invalid command was sent
  writing,    \* engines between BEGIN and COMMIT
  committed,  \* engines whose image is valid
  loaded,     \* program words written since BEGIN
  lengths,    \* length of the committed image
  program,    \* contents of the program stores
  owners,     \* pins each engine owns
  drains,     \* pins it drives open-drain
  running,    \* engines executing
  fault,      \* fault code, 0 for none
  values,     \* logical output levels an engine set
  enables     \* logical output enables an engine set

imageVars  == <<writing, committed, loaded, lengths, program>>
pinVars    == <<owners, drains>>
engineVars == <<running, fault, values, enables>>
vars == <<selected, hostFault, imageVars, pinVars, engineVars>>

Addresses == 0 .. ProgramWords - 1

(* What one engine does on an edge, as far as this state can tell.  Every  *)
(* instruction is one of these: SET, OUT and the edges of XFER write       *)
(* output levels, DIR writes output enables, HALT stops, FAULT and every   *)
(* failing instruction fault, and the rest is "run".                       *)
EngineOps ==
  [kind : {"run", "halt"}]
    \cup [kind : {"set", "dir"}, mask : SUBSET Pins]
    \cup [kind : {"fault"}, code : FaultCodes]

Run == [kind |-> "run"]

(* The operations the engines can be executing: the decoder lets an engine *)
(* write only pins it owns, and a halted engine executes nothing.          *)
Operations ==
  {op \in [Engines -> EngineOps] :
     \A k \in Engines :
       IF k \in running THEN op[k].kind \in {"set", "dir"} => op[k].mask \subseteq owners[k]
                       ELSE op[k] = Run}

(* An engine executes unless the edge starts or stops it.                  *)
Active(starts, stops) == {k \in running \ (starts \cup stops) : fault[k] = 0}

Init ==
  /\ selected = 0 /\ hostFault = FALSE
  /\ writing = {} /\ committed = {}
  /\ loaded = [k \in Engines |-> 0] /\ lengths = [k \in Engines |-> 0]
  /\ program \in [Engines -> [Addresses -> Code]]      \* storage has no reset
  /\ owners = [k \in Engines |-> {}] /\ drains = [k \in Engines |-> {}]
  /\ running = {} /\ fault = [k \in Engines |-> 0]
  /\ values = [k \in Engines |-> {}] /\ enables = [k \in Engines |-> {}]

-----------------------------------------------------------------------------

(* The engines on one edge: CLEAR acts on a halted engine, then STOP beats *)
(* START, which beats execution.                                           *)
EngineEdge(starts, stops, clears, op) ==
  LET active == Active(starts, stops)
      does(kind) == {k \in active : op[k].kind = kind}
      failed == does("fault")
      off    == stops \cup does("halt") \cup failed
      begun  == starts \ stops
  IN  /\ \A k \in Engines \ active : op[k] = Run
      /\ running' = (running \ off) \cup begun
      /\ fault' = [k \in Engines |->
                     IF k \in begun \cup (clears \ running) THEN 0
                     ELSE IF k \in failed THEN op[k].code ELSE fault[k]]
      /\ values' = [k \in Engines |->
                     IF k \in begun THEN {}
                     ELSE IF k \in does("set") THEN op[k].mask ELSE values[k]]
      /\ enables' = [k \in Engines |->
                     IF k \in begun \cup off THEN {}
                     ELSE IF k \in does("dir") THEN op[k].mask ELSE enables[k]]

(* The engines alone: no start, stop or clear.                             *)
Execute(op) == EngineEdge({}, {}, {}, op)

Halted == selected \notin running

-----------------------------------------------------------------------------
(* Host commands, each with the rule by which it is accepted.              *)

Idle(op) ==
  /\ Execute(op)
  /\ UNCHANGED <<selected, hostFault, imageVars, pinVars>>

(* Any invalid command.  Codes 12 .. 255 are always invalid, so one always *)
(* exists.                                                                 *)
Reject(op) ==
  /\ hostFault' = TRUE
  /\ Execute(op)
  /\ UNCHANGED <<selected, imageVars, pinVars>>

Select(k, op) ==
  /\ selected' = k
  /\ Execute(op)
  /\ UNCHANGED <<hostFault, imageVars, pinVars>>

(* Mutant: BEGIN does not stop the engine it invalidates the image of.     *)
XBegin_KeepsRunning(op) ==
  /\ committed' = committed \ {selected}
  /\ writing' = writing \cup {selected}
  /\ loaded' = [loaded EXCEPT ![selected] = 0]
  /\ lengths' = [lengths EXCEPT ![selected] = 0]
  /\ Execute(op)
  /\ UNCHANGED <<selected, hostFault, program, pinVars>>

(* BEGIN is accepted while the engine runs, and stops it.                  *)
Begin(op) ==
  /\ committed' = committed \ {selected}
  /\ writing' = writing \cup {selected}
  /\ loaded' = [loaded EXCEPT ![selected] = 0]
  /\ lengths' = [lengths EXCEPT ![selected] = 0]
  /\ EngineEdge({}, {selected}, {}, op)
  /\ UNCHANGED <<selected, hostFault, program, pinVars>>

(* Mutant: the program word that does not ask for BEGIN.                   *)
XProgramWord_WithoutBegin(word, op) ==
  /\ Halted /\ loaded[selected] < ProgramWords
  /\ program' = [program EXCEPT ![selected][loaded[selected]] = word]
  /\ loaded' = [loaded EXCEPT ![selected] = @ + 1]
  /\ Execute(op)
  /\ UNCHANGED <<selected, hostFault, writing, committed, lengths, pinVars>>

(* A program word through window 1.                                        *)
ProgramWord(word, op) ==
  /\ Halted /\ selected \in writing /\ loaded[selected] < ProgramWords
  /\ program' = [program EXCEPT ![selected][loaded[selected]] = word]
  /\ loaded' = [loaded EXCEPT ![selected] = @ + 1]
  /\ Execute(op)
  /\ UNCHANGED <<selected, hostFault, writing, committed, lengths, pinVars>>

Commit(length, op) ==
  /\ Halted /\ selected \in writing
  /\ length # 0 /\ length <= ProgramWords /\ length = loaded[selected]
  /\ committed' = committed \cup {selected}
  /\ writing' = writing \ {selected}
  /\ lengths' = [lengths EXCEPT ![selected] = length]
  /\ Execute(op)
  /\ UNCHANGED <<selected, hostFault, loaded, program, pinVars>>

Overlap(own) == \E k \in Engines \ {selected} : owners[k] \cap own # {}

Own(own, drain, op) ==
  /\ Halted /\ ~Overlap(own) /\ drain \subseteq own
  /\ owners' = [owners EXCEPT ![selected] = own]
  /\ drains' = [drains EXCEPT ![selected] = drain]
  /\ Execute(op)
  /\ UNCHANGED <<selected, hostFault, imageVars>>

(* START may name engines that already run: they restart.                  *)
Start(mask, op) ==
  /\ mask \subseteq committed /\ \A k \in mask : fault[k] = 0
  /\ EngineEdge(mask, {}, {}, op)
  /\ UNCHANGED <<selected, hostFault, imageVars, pinVars>>

Stop(mask, op) ==
  /\ EngineEdge({}, mask, {}, op)
  /\ UNCHANGED <<selected, hostFault, imageVars, pinVars>>

(* Payload bit 23 clears the host fault as well.                           *)
Clear(mask, host, op) ==
  /\ mask \cap running = {}
  /\ hostFault' = (hostFault /\ ~host)
  /\ EngineEdge({}, {}, mask, op)
  /\ UNCHANGED <<selected, imageVars, pinVars>>

(* Reset or deselection: everything but the program stores.                *)
Reset ==
  /\ selected' = 0 /\ hostFault' = FALSE
  /\ writing' = {} /\ committed' = {}
  /\ loaded' = [k \in Engines |-> 0] /\ lengths' = [k \in Engines |-> 0]
  /\ owners' = [k \in Engines |-> {}] /\ drains' = [k \in Engines |-> {}]
  /\ running' = {} /\ fault' = [k \in Engines |-> 0]
  /\ values' = [k \in Engines |-> {}] /\ enables' = [k \in Engines |-> {}]
  /\ UNCHANGED program

HostStep(op) ==
  \/ Idle(op)
  \/ Reject(op)
  \/ \E k \in Engines : Select(k, op)
  \/ Begin(op)
  \/ \E word \in Code : ProgramWord(word, op)
  \/ \E length \in 1 .. ProgramWords : Commit(length, op)
  \/ \E own, drain \in SUBSET Pins : Own(own, drain, op)
  \/ \E mask \in SUBSET Engines : Start(mask, op) \/ Stop(mask, op)
  \/ \E mask \in SUBSET Engines, host \in BOOLEAN : Clear(mask, host, op)

Next == Reset \/ \E op \in Operations : HostStep(op)

Spec == Init /\ [][Next]_vars

-----------------------------------------------------------------------------
(* What the pins see: the engines' latches, gated by ownership, running    *)
(* and fault, an open-drain pin never driven high.                         *)
Driving(k) == k \in running /\ fault[k] = 0

uio_out ==
  {p \in Pins : \E k \in Engines : Driving(k) /\ p \in (values[k] \cap owners[k]) \ drains[k]}

uio_oe ==
  {p \in Pins : \E k \in Engines :
     /\ Driving(k)
     /\ p \in enables[k] \cap owners[k]
     /\ p \notin drains[k] \/ p \notin values[k]}

-----------------------------------------------------------------------------
TypeOK ==
  /\ selected \in Engines /\ hostFault \in BOOLEAN
  /\ writing \subseteq Engines /\ committed \subseteq Engines
  /\ loaded \in [Engines -> 0 .. ProgramWords]
  /\ lengths \in [Engines -> 0 .. ProgramWords]
  /\ program \in [Engines -> [Addresses -> Code]]
  /\ owners \in [Engines -> SUBSET Pins] /\ drains \in [Engines -> SUBSET Pins]
  /\ running \subseteq Engines /\ fault \in [Engines -> {0} \cup FaultCodes]
  /\ values \in [Engines -> SUBSET Pins] /\ enables \in [Engines -> SUBSET Pins]

(* Only a fully written, committed image is ever executed: an engine that  *)
(* runs has a valid image of the length that was loaded, never one that is *)
(* being rewritten (BEGIN stops the engine on the edge it invalidates).    *)
ImageSound ==
  /\ running \subseteq committed
  /\ writing \cap committed = {}
  /\ \A k \in Engines : IF k \in committed
                        THEN lengths[k] = loaded[k] /\ lengths[k] # 0
                        ELSE lengths[k] = 0

(* No pin has two owners, and only owned pins are open-drain (OWN).        *)
OwnershipSound ==
  /\ \A i, j \in Engines : i # j => owners[i] \cap owners[j] = {}
  /\ \A k \in Engines : drains[k] \subseteq owners[k]

(* An engine with a fault has stopped, a stopped engine has released its   *)
(* output enables, and a running one has set nothing outside its pins: the *)
(* latches still fit the ownership although OWN and START come and go.     *)
LatchesSound ==
  \A k \in Engines :
    /\ k \in running => fault[k] = 0 /\ values[k] \cup enables[k] \subseteq owners[k]
    /\ k \notin running => enables[k] = {}

ControlInv == TypeOK /\ ImageSound /\ OwnershipSound /\ LatchesSound

(* A driven pin has one driver, a running engine that owns and enabled it, *)
(* and carries the level that engine set (processor.ml 320-327).           *)
PinFidelity ==
  \A p \in uio_oe :
    \E k \in running :
      /\ p \in owners[k] \cap enables[k]
      /\ p \in uio_out <=> p \in values[k]
      /\ \A j \in running \ {k} : p \notin owners[j] /\ p \notin enables[j]

(* The three together: what is executed was loaded and committed, what is  *)
(* driven is owned, and the pins show it.                                  *)
ControlSafe == ImageSound /\ OwnershipSound /\ PinFidelity

(* No live reconfiguration: while an engine keeps running nothing it       *)
(* executes from or drives with changes under it (docs/isa.md 156: "No     *)
(* live instruction memory writes are allowed").                           *)
KeepsLiveConfiguration ==
  \A k \in running \cap running' :
    /\ owners'[k] = owners[k] /\ drains'[k] = drains[k]
    /\ lengths'[k] = lengths[k] /\ program'[k] = program[k]

LiveConfigurationFixed == [][KeepsLiveConfiguration]_vars

(* A committed image changes only through BEGIN, which uncommits it first. *)
KeepsImages ==
  \A k \in committed \cap committed' :
    program'[k] = program[k] /\ lengths'[k] = lengths[k] /\ loaded'[k] = loaded[k]

ImageImmutable == [][KeepsImages]_vars

(* The first fault is kept: a faulted engine neither runs nor changes its  *)
(* code until CLEAR (or reset) removes it.                                 *)
KeepsFaults ==
  \A k \in Engines : fault[k] # 0 => k \notin running' /\ fault'[k] \in {fault[k], 0}

FaultSticky == [][KeepsFaults]_vars
=============================================================================

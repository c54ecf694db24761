---------------------------- MODULE ControlProofs ----------------------------
(***************************************************************************)
(* Control for every number of engines and pins, every program capacity    *)
(* and every set of fault codes: the inductive invariant and the safety    *)
(* properties that follow from it.                                         *)
(***************************************************************************)
EXTENDS Control, TLAPS

USE ControlAssumption DEF ControlAssumption, Engines

(* What one edge does to the engines, whatever the host command on it.     *)
LEMMA EngineEdgeStep ==
  ASSUME TypeOK, LatchesSound,
         NEW starts \in SUBSET Engines, NEW stops \in SUBSET Engines,
         NEW clears \in SUBSET Engines, NEW op \in Operations,
         EngineEdge(starts, stops, clears, op)
  PROVE  /\ running' \subseteq Engines
         /\ running' \subseteq (running \ stops) \cup starts
         /\ fault' \in [Engines -> {0} \cup FaultCodes]
         /\ values' \in [Engines -> SUBSET Pins] /\ enables' \in [Engines -> SUBSET Pins]
         /\ \A k \in running' : fault'[k] = 0 /\ values'[k] \cup enables'[k] \subseteq owners[k]
         /\ \A k \in Engines \ running' : enables'[k] = {}
         /\ \A k \in Engines : fault[k] # 0 /\ k \notin starts =>
              k \notin running' /\ fault'[k] \in {fault[k], 0}
<1> DEFINE active == Active(starts, stops)
           does(kind) == {k \in active : op[k].kind = kind}
           begun == starts \ stops
           off == stops \cup does("halt") \cup does("fault")
<1>1. active \subseteq running /\ active \subseteq Engines /\ running \subseteq Engines
  BY DEF Active, TypeOK
<1>2. op \in [Engines -> EngineOps]
  BY DEF Operations
<1>3. \A k \in does("fault") : op[k].code \in FaultCodes
  BY <1>1, <1>2 DEF EngineOps
<1>4. \A k \in does("set") \cup does("dir") : op[k].mask \subseteq owners[k] /\ op[k].mask \subseteq Pins
  BY <1>1, <1>2 DEF EngineOps, Operations
<1>5. running' = (running \ off) \cup begun
  BY DEF EngineEdge
<1>6. /\ fault' = [k \in Engines |->
                     IF k \in begun \cup (clears \ running) THEN 0
                     ELSE IF k \in does("fault") THEN op[k].code ELSE fault[k]]
      /\ values' = [k \in Engines |->
                     IF k \in begun THEN {}
                     ELSE IF k \in does("set") THEN op[k].mask ELSE values[k]]
      /\ enables' = [k \in Engines |->
                     IF k \in begun \cup off THEN {}
                     ELSE IF k \in does("dir") THEN op[k].mask ELSE enables[k]]
  BY DEF EngineEdge
<1>7. begun \cap does("fault") = {} /\ begun \cap does("set") = {} /\ begun \cap does("dir") = {}
  BY DEF Active
<1> HIDE DEF active, begun, off
<1>8. fault' \in [Engines -> {0} \cup FaultCodes]
  BY <1>3, <1>6 DEF TypeOK
<1>9. values' \in [Engines -> SUBSET Pins]
  BY <1>4, <1>6 DEF TypeOK
<1>10. enables' \in [Engines -> SUBSET Pins]
  BY <1>4, <1>6 DEF TypeOK
<1>11. running' \subseteq Engines /\ running' \subseteq (running \ stops) \cup starts
  BY <1>1, <1>5 DEF begun, off
<1>12. ASSUME NEW k \in running'
       PROVE  fault'[k] = 0 /\ values'[k] \cup enables'[k] \subseteq owners[k]
  <2>1. CASE k \in begun
    <3>1. k \in Engines
      BY <1>11
    <3>2. fault'[k] = 0
      BY <1>6, <2>1, <3>1
    <3>3. values'[k] = {}
      BY <1>6, <2>1, <3>1
    <3>4. enables'[k] = {}
      BY <1>6, <2>1, <3>1
    <3>5. QED
      BY <3>2, <3>3, <3>4
  <2>2. CASE k \notin begun
    <3>1. k \in running /\ k \notin off /\ k \in Engines
      BY <1>1, <1>5, <2>2
    <3>2. fault[k] = 0 /\ values[k] \subseteq owners[k] /\ enables[k] \subseteq owners[k]
      BY <3>1 DEF LatchesSound
    <3>3. fault'[k] = 0
      BY <1>6, <2>2, <3>1, <3>2 DEF off
    <3>4. values'[k] \subseteq owners[k]
      BY <1>4, <1>6, <2>2, <3>1, <3>2
    <3>5. enables'[k] \subseteq owners[k]
      BY <1>4, <1>6, <2>2, <3>1, <3>2
    <3>6. QED
      BY <3>3, <3>4, <3>5
  <2>3. QED
    BY <2>1, <2>2
<1>13. ASSUME NEW k \in Engines \ running' PROVE enables'[k] = {}
  <2>1. CASE k \in begun \cup off
    BY <1>6, <2>1
  <2>2. CASE k \notin begun \cup off
    <3>1. k \notin running /\ k \notin does("dir")
      BY <1>1, <1>5, <2>2
    <3>2. QED
      BY <1>6, <2>2, <3>1 DEF LatchesSound
  <2>3. QED
    BY <2>1, <2>2
<1>14. ASSUME NEW k \in Engines, fault[k] # 0, k \notin starts
       PROVE  k \notin running' /\ fault'[k] \in {fault[k], 0}
  <2>1. k \notin running /\ k \notin active /\ k \notin begun
    BY <1>1, <1>14 DEF LatchesSound, begun
  <2>2. k \notin running'
    BY <1>5, <2>1
  <2>3. fault'[k] \in {fault[k], 0}
    BY <1>6, <2>1
  <2>4. QED
    BY <2>2, <2>3
<1>15. QED
  BY <1>8, <1>9, <1>10, <1>11, <1>12, <1>13, <1>14

-----------------------------------------------------------------------------
(* The reset state satisfies the invariant.                                *)
LEMMA ControlInit == Init => ControlInv
<1> SUFFICES ASSUME Init PROVE ControlInv
  OBVIOUS
<1>1. TypeOK
  <2>1. selected \in Engines /\ writing \subseteq Engines /\ committed \subseteq Engines
    BY DEF Init
  <2>2. hostFault \in BOOLEAN /\ running \subseteq Engines
    BY DEF Init
  <2>3. loaded \in [Engines -> 0 .. ProgramWords] /\ lengths \in [Engines -> 0 .. ProgramWords]
    BY DEF Init
  <2>4. owners \in [Engines -> SUBSET Pins] /\ drains \in [Engines -> SUBSET Pins]
    BY DEF Init
  <2>5. values \in [Engines -> SUBSET Pins] /\ enables \in [Engines -> SUBSET Pins]
    BY DEF Init
  <2>6. fault \in [Engines -> {0} \cup FaultCodes] /\ program \in [Engines -> [Addresses -> Code]]
    BY DEF Init
  <2>7. QED
    BY <2>1, <2>2, <2>3, <2>4, <2>5, <2>6 DEF TypeOK
<1>2. ImageSound /\ OwnershipSound /\ LatchesSound
  BY DEF Init, ImageSound, OwnershipSound, LatchesSound
<1>3. QED
  BY <1>1, <1>2 DEF ControlInv

(* A step that leaves images and ownership alone and starts only committed *)
(* engines preserves the invariant.                                        *)
LEMMA EnginesOnlyStep ==
  ASSUME ControlInv, NEW starts \in SUBSET Engines, NEW stops \in SUBSET Engines,
         NEW clears \in SUBSET Engines, NEW op \in Operations,
         EngineEdge(starts, stops, clears, op), starts \subseteq committed,
         UNCHANGED <<imageVars, pinVars>>, selected' \in Engines, hostFault' \in BOOLEAN
  PROVE  ControlInv'
<1>1. TypeOK /\ ImageSound /\ OwnershipSound /\ LatchesSound
  BY DEF ControlInv
<1>2. /\ running' \subseteq Engines /\ running' \subseteq (running \ stops) \cup starts
      /\ fault' \in [Engines -> {0} \cup FaultCodes]
      /\ values' \in [Engines -> SUBSET Pins] /\ enables' \in [Engines -> SUBSET Pins]
      /\ \A k \in running' : fault'[k] = 0 /\ values'[k] \cup enables'[k] \subseteq owners[k]
      /\ \A k \in Engines \ running' : enables'[k] = {}
  BY <1>1, EngineEdgeStep
<1>3. UNCHANGED <<writing, committed, loaded, lengths, program, owners, drains>>
  BY DEF imageVars, pinVars
<1>4. TypeOK'
  BY <1>1, <1>2, <1>3 DEF TypeOK
<1>5. ImageSound'
  BY <1>1, <1>2, <1>3 DEF ImageSound
<1>6. OwnershipSound'
  BY <1>1, <1>3 DEF OwnershipSound
<1>7. LatchesSound'
  BY <1>2, <1>3 DEF LatchesSound
<1>8. QED
  BY <1>4, <1>5, <1>6, <1>7 DEF ControlInv

(* The invariant is inductive: one step per host command.                  *)
LEMMA ControlStep == ControlInv /\ [Next]_vars => ControlInv'
<1> SUFFICES ASSUME ControlInv, [Next]_vars PROVE ControlInv'
  OBVIOUS
<1>1. TypeOK /\ ImageSound /\ OwnershipSound /\ LatchesSound
  BY DEF ControlInv
<1>2. {} \in SUBSET Engines /\ selected \in Engines /\ {selected} \in SUBSET Engines
  BY <1>1 DEF TypeOK
<1>3. CASE UNCHANGED vars
  BY <1>3 DEF vars, imageVars, pinVars, engineVars, ControlInv, TypeOK, ImageSound,
              OwnershipSound, LatchesSound
<1>4. CASE Reset
  <2>1. TypeOK'
    <3>1. selected' \in Engines /\ writing' \subseteq Engines /\ committed' \subseteq Engines
      BY <1>4 DEF Reset
    <3>2. hostFault' \in BOOLEAN /\ running' \subseteq Engines
      BY <1>4 DEF Reset
    <3>3. loaded' \in [Engines -> 0 .. ProgramWords] /\ lengths' \in [Engines -> 0 .. ProgramWords]
      BY <1>4 DEF Reset
    <3>4. owners' \in [Engines -> SUBSET Pins] /\ drains' \in [Engines -> SUBSET Pins]
      BY <1>4 DEF Reset
    <3>5. values' \in [Engines -> SUBSET Pins] /\ enables' \in [Engines -> SUBSET Pins]
      BY <1>4 DEF Reset
    <3>6. fault' \in [Engines -> {0} \cup FaultCodes] /\ program' \in [Engines -> [Addresses -> Code]]
      BY <1>1, <1>4 DEF Reset, TypeOK
    <3>7. QED
      BY <3>1, <3>2, <3>3, <3>4, <3>5, <3>6 DEF TypeOK
  <2>2. ImageSound' /\ OwnershipSound' /\ LatchesSound'
    BY <1>4 DEF Reset, ImageSound, OwnershipSound, LatchesSound
  <2>3. QED
    BY <2>1, <2>2 DEF ControlInv
<1>5. ASSUME NEW op \in Operations, HostStep(op) PROVE ControlInv'
  <2>1. ASSUME Idle(op) PROVE ControlInv'
    BY <1>1, <1>2, <2>1, EnginesOnlyStep DEF Idle, Execute, TypeOK
  <2>2. ASSUME Reject(op) PROVE ControlInv'
    BY <1>1, <1>2, <2>2, EnginesOnlyStep DEF Reject, Execute, TypeOK
  <2>3. ASSUME NEW k \in Engines, Select(k, op) PROVE ControlInv'
    BY <1>1, <1>2, <2>3, EnginesOnlyStep DEF Select, Execute, TypeOK
  <2>4. ASSUME Begin(op) PROVE ControlInv'
    <3>1. EngineEdge({}, {selected}, {}, op)
      BY <2>4 DEF Begin
    <3>2. /\ running' \subseteq Engines /\ running' \subseteq running \ {selected}
          /\ fault' \in [Engines -> {0} \cup FaultCodes]
          /\ values' \in [Engines -> SUBSET Pins] /\ enables' \in [Engines -> SUBSET Pins]
          /\ \A k \in running' : fault'[k] = 0 /\ values'[k] \cup enables'[k] \subseteq owners[k]
          /\ \A k \in Engines \ running' : enables'[k] = {}
      BY <1>1, <1>2, <3>1, EngineEdgeStep
    <3>3. /\ committed' = committed \ {selected} /\ writing' = writing \cup {selected}
          /\ loaded' = [loaded EXCEPT ![selected] = 0]
          /\ lengths' = [lengths EXCEPT ![selected] = 0]
          /\ UNCHANGED <<selected, hostFault, program, owners, drains>>
      BY <2>4 DEF Begin, pinVars
    <3>4. TypeOK'
      <4>1. loaded' \in [Engines -> 0 .. ProgramWords] /\ lengths' \in [Engines -> 0 .. ProgramWords]
        BY <1>1, <1>2, <3>3 DEF TypeOK
      <4>2. QED
        BY <1>1, <1>2, <3>2, <3>3, <4>1 DEF TypeOK
    <3>5. ImageSound'
      BY <1>1, <1>2, <3>2, <3>3 DEF TypeOK, ImageSound
    <3>6. OwnershipSound' /\ LatchesSound'
      BY <1>1, <3>2, <3>3 DEF OwnershipSound, LatchesSound
    <3>7. QED
      BY <3>4, <3>5, <3>6 DEF ControlInv
  <2>5. ASSUME NEW word \in Code, ProgramWord(word, op) PROVE ControlInv'
    <3>1. EngineEdge({}, {}, {}, op)
      BY <2>5 DEF ProgramWord, Execute
    <3>2. /\ running' \subseteq Engines /\ running' \subseteq running
          /\ fault' \in [Engines -> {0} \cup FaultCodes]
          /\ values' \in [Engines -> SUBSET Pins] /\ enables' \in [Engines -> SUBSET Pins]
          /\ \A k \in running' : fault'[k] = 0 /\ values'[k] \cup enables'[k] \subseteq owners[k]
          /\ \A k \in Engines \ running' : enables'[k] = {}
      BY <1>1, <1>2, <3>1, EngineEdgeStep
    <3>3. /\ selected \in writing /\ loaded[selected] < ProgramWords
          /\ program' = [program EXCEPT ![selected][loaded[selected]] = word]
          /\ loaded' = [loaded EXCEPT ![selected] = loaded[selected] + 1]
          /\ UNCHANGED <<selected, hostFault, writing, committed, lengths, owners, drains>>
      BY <2>5 DEF ProgramWord, pinVars
    <3>4. loaded' \in [Engines -> 0 .. ProgramWords]
      BY <1>1, <1>2, <3>3 DEF TypeOK
    <3>5. program' \in [Engines -> [Addresses -> Code]]
      BY <1>1, <1>2, <3>3 DEF TypeOK, Addresses
    <3>6. TypeOK'
      BY <1>1, <1>2, <3>2, <3>3, <3>4, <3>5 DEF TypeOK
    <3>7. ImageSound'
      BY <1>1, <1>2, <3>2, <3>3 DEF TypeOK, ImageSound
    <3>8. OwnershipSound' /\ LatchesSound'
      BY <1>1, <3>2, <3>3 DEF OwnershipSound, LatchesSound
    <3>9. QED
      BY <3>6, <3>7, <3>8 DEF ControlInv
  <2>6. ASSUME NEW length \in 1 .. ProgramWords, Commit(length, op) PROVE ControlInv'
    <3>1. EngineEdge({}, {}, {}, op)
      BY <2>6 DEF Commit, Execute
    <3>2. /\ running' \subseteq Engines /\ running' \subseteq running
          /\ fault' \in [Engines -> {0} \cup FaultCodes]
          /\ values' \in [Engines -> SUBSET Pins] /\ enables' \in [Engines -> SUBSET Pins]
          /\ \A k \in running' : fault'[k] = 0 /\ values'[k] \cup enables'[k] \subseteq owners[k]
          /\ \A k \in Engines \ running' : enables'[k] = {}
      BY <1>1, <1>2, <3>1, EngineEdgeStep
    <3>3. /\ selected \in writing /\ length = loaded[selected]
          /\ committed' = committed \cup {selected} /\ writing' = writing \ {selected}
          /\ lengths' = [lengths EXCEPT ![selected] = length]
          /\ UNCHANGED <<selected, hostFault, loaded, program, owners, drains>>
      BY <2>6 DEF Commit, pinVars
    <3>4. TypeOK'
      BY <1>1, <1>2, <3>2, <3>3 DEF TypeOK
    <3>5. ImageSound'
      BY <1>1, <1>2, <3>2, <3>3 DEF TypeOK, ImageSound
    <3>6. OwnershipSound' /\ LatchesSound'
      BY <1>1, <3>2, <3>3 DEF OwnershipSound, LatchesSound
    <3>7. QED
      BY <3>4, <3>5, <3>6 DEF ControlInv
  <2>7. ASSUME NEW own \in SUBSET Pins, NEW drain \in SUBSET Pins, Own(own, drain, op)
        PROVE  ControlInv'
    <3>1. EngineEdge({}, {}, {}, op)
      BY <2>7 DEF Own, Execute
    <3>2. /\ running' \subseteq Engines /\ running' \subseteq running
          /\ fault' \in [Engines -> {0} \cup FaultCodes]
          /\ values' \in [Engines -> SUBSET Pins] /\ enables' \in [Engines -> SUBSET Pins]
          /\ \A k \in running' : fault'[k] = 0 /\ values'[k] \cup enables'[k] \subseteq owners[k]
          /\ \A k \in Engines \ running' : enables'[k] = {}
      BY <1>1, <1>2, <3>1, EngineEdgeStep
    <3>3. /\ selected \notin running /\ drain \subseteq own
          /\ \A k \in Engines \ {selected} : owners[k] \cap own = {}
          /\ owners' = [owners EXCEPT ![selected] = own]
          /\ drains' = [drains EXCEPT ![selected] = drain]
          /\ UNCHANGED <<selected, hostFault, writing, committed, loaded, lengths, program>>
      BY <2>7 DEF Own, Overlap, Halted, imageVars
    <3>4. TypeOK'
      BY <1>1, <1>2, <3>2, <3>3 DEF TypeOK
    <3>5. ImageSound'
      BY <1>1, <3>2, <3>3 DEF ImageSound
    <3>6. OwnershipSound'
      BY <1>1, <1>2, <3>3 DEF OwnershipSound, TypeOK
    <3>7. LatchesSound'
      BY <1>1, <1>2, <3>2, <3>3 DEF LatchesSound, TypeOK
    <3>8. QED
      BY <3>4, <3>5, <3>6, <3>7 DEF ControlInv
  <2>8. ASSUME NEW mask \in SUBSET Engines, Start(mask, op) PROVE ControlInv'
    BY <1>1, <1>2, <2>8, EnginesOnlyStep DEF Start, TypeOK
  <2>9. ASSUME NEW mask \in SUBSET Engines, Stop(mask, op) PROVE ControlInv'
    BY <1>1, <1>2, <2>9, EnginesOnlyStep DEF Stop, TypeOK
  <2>10. ASSUME NEW mask \in SUBSET Engines, NEW host \in BOOLEAN, Clear(mask, host, op)
         PROVE  ControlInv'
    <3>1. hostFault' \in BOOLEAN /\ selected' \in Engines
      BY <1>1, <2>10 DEF Clear, TypeOK
    <3>2. QED
      BY <1>1, <1>2, <2>10, <3>1, EnginesOnlyStep DEF Clear
  <2>11. QED
    BY <1>5, <2>1, <2>2, <2>3, <2>4, <2>5, <2>6, <2>7, <2>8, <2>9, <2>10 DEF HostStep
<1>6. QED
  BY <1>3, <1>4, <1>5 DEF Next

-----------------------------------------------------------------------------
(* The control invariant holds in every reachable state, whatever commands *)
(* the host sends and whatever the engines execute.                        *)
THEOREM ControlCorrect == Spec => []ControlInv
  BY ControlInit, ControlStep, PTL DEF Spec

(* The registers stay in their ranges.                                     *)
THEOREM ControlTypeCorrect == Spec => []TypeOK
<1>1. ControlInv => TypeOK
  BY DEF ControlInv
<1>2. QED
  BY <1>1, ControlCorrect, PTL

(* No engine ever runs an uncommitted, partial or half-rewritten image.    *)
THEOREM RunsCommittedImages == Spec => []ImageSound
<1>1. ControlInv => ImageSound
  BY DEF ControlInv
<1>2. QED
  BY <1>1, ControlCorrect, PTL

(* Pin ownership stays exclusive under every sequence of OWN commands.     *)
THEOREM OwnershipExclusive == Spec => []OwnershipSound
<1>1. ControlInv => OwnershipSound
  BY DEF ControlInv
<1>2. QED
  BY <1>1, ControlCorrect, PTL

(* Every driven pin has exactly one driver and carries that driver's       *)
(* level, with any number of engines and pins.                             *)
THEOREM PinsFaithful == Spec => []PinFidelity
<1>1. ControlInv => PinFidelity
  <2> SUFFICES ASSUME ControlInv, NEW p \in uio_oe
               PROVE  \E k \in running :
                        /\ p \in owners[k] \cap enables[k]
                        /\ p \in uio_out <=> p \in values[k]
                        /\ \A j \in running \ {k} : p \notin owners[j] /\ p \notin enables[j]
    BY DEF PinFidelity
  <2>1. PICK k \in Engines : /\ Driving(k) /\ p \in enables[k] \cap owners[k]
                             /\ p \notin drains[k] \/ p \notin values[k]
    BY DEF uio_oe
  <2>2. running \subseteq Engines /\ p \in Pins
    BY DEF ControlInv, TypeOK, uio_oe
  <2>3. \A j \in Engines \ {k} : p \notin owners[j]
    BY <2>1 DEF ControlInv, OwnershipSound
  <2>4. \A j \in running \ {k} : p \notin owners[j] /\ p \notin enables[j]
    BY <2>2, <2>3 DEF ControlInv, LatchesSound
  <2>5. p \in uio_out <=> p \in values[k]
    BY <2>1, <2>2, <2>3 DEF uio_out
  <2>6. QED
    BY <2>1, <2>4, <2>5 DEF Driving
<1>2. QED
  BY <1>1, ControlCorrect, PTL

-----------------------------------------------------------------------------
(* Every edge keeps committed images, live configuration and faults.       *)
LEMMA KeepsStep ==
  ControlInv /\ [Next]_vars => [KeepsImages /\ KeepsLiveConfiguration /\ KeepsFaults]_vars
<1> SUFFICES ASSUME ControlInv, Next
             PROVE  KeepsImages /\ KeepsLiveConfiguration /\ KeepsFaults
  BY DEF vars
<1>1. TypeOK /\ ImageSound /\ LatchesSound
  BY DEF ControlInv
<1>2. {} \in SUBSET Engines /\ selected \in Engines /\ {selected} \in SUBSET Engines
  BY <1>1 DEF TypeOK
<1>3. CASE Reset
  BY <1>1, <1>3 DEF Reset, KeepsImages, KeepsLiveConfiguration, KeepsFaults
<1>4. ASSUME NEW op \in Operations, HostStep(op)
      PROVE  KeepsImages /\ KeepsLiveConfiguration /\ KeepsFaults
  <2>1. PICK starts, stops, clears \in SUBSET Engines :
               /\ EngineEdge(starts, stops, clears, op)
               /\ \A k \in starts : fault[k] = 0
    BY <1>2, <1>4 DEF HostStep, Idle, Reject, Select, Begin, ProgramWord, Commit, Own, Start,
                      Stop, Clear, Execute
  <2>2. KeepsFaults
    BY <1>1, <2>1, EngineEdgeStep DEF KeepsFaults
  <2>3. ASSUME UNCHANGED <<imageVars, pinVars>> PROVE KeepsImages /\ KeepsLiveConfiguration
    BY <2>3 DEF KeepsImages, KeepsLiveConfiguration, imageVars, pinVars
  <2>4. CASE Begin(op)
    <3>1. selected \notin running'
      BY <1>1, <1>2, <2>4, EngineEdgeStep DEF Begin
    <3>2. KeepsImages
      BY <1>1, <1>2, <2>4 DEF Begin, KeepsImages, TypeOK
    <3>3. KeepsLiveConfiguration
      BY <1>1, <1>2, <2>4, <3>1 DEF Begin, KeepsLiveConfiguration, TypeOK, pinVars
    <3>4. QED
      BY <2>2, <3>2, <3>3
  <2>5. ASSUME NEW word \in Code, ProgramWord(word, op) PROVE KeepsImages /\ KeepsLiveConfiguration
    <3>1. selected \notin running /\ selected \notin committed
      BY <1>1, <2>5 DEF ProgramWord, Halted, ImageSound
    <3>2. KeepsImages
      BY <1>1, <1>2, <2>5, <3>1 DEF ProgramWord, KeepsImages, TypeOK
    <3>3. KeepsLiveConfiguration
      BY <1>1, <1>2, <2>5, <3>1 DEF ProgramWord, KeepsLiveConfiguration, TypeOK, pinVars
    <3>4. QED
      BY <3>2, <3>3
  <2>6. ASSUME NEW length \in 1 .. ProgramWords, Commit(length, op)
        PROVE  KeepsImages /\ KeepsLiveConfiguration
    <3>1. selected \notin running /\ selected \notin committed
      BY <1>1, <2>6 DEF Commit, Halted, ImageSound
    <3>2. KeepsImages
      BY <1>1, <1>2, <2>6, <3>1 DEF Commit, KeepsImages, TypeOK
    <3>3. KeepsLiveConfiguration
      BY <1>1, <1>2, <2>6, <3>1 DEF Commit, KeepsLiveConfiguration, TypeOK, pinVars
    <3>4. QED
      BY <3>2, <3>3
  <2>7. ASSUME NEW own \in SUBSET Pins, NEW drain \in SUBSET Pins, Own(own, drain, op)
        PROVE  KeepsImages /\ KeepsLiveConfiguration
    <3>1. selected \notin running
      BY <2>7 DEF Own, Halted
    <3>2. KeepsImages
      BY <2>7 DEF Own, KeepsImages, imageVars
    <3>3. KeepsLiveConfiguration
      BY <1>1, <1>2, <2>7, <3>1 DEF Own, KeepsLiveConfiguration, TypeOK, imageVars
    <3>4. QED
      BY <3>2, <3>3
  <2>8. KeepsImages /\ KeepsLiveConfiguration
    BY <1>4, <2>3, <2>4, <2>5, <2>6, <2>7
       DEF HostStep, Idle, Reject, Select, Start, Stop, Clear
  <2>9. QED
    BY <2>2, <2>8
<1>5. QED
  BY <1>3, <1>4 DEF Next

(* Every reachable state of the control registers is safe in all three ways: *)
(* images, ownership and pins, for any number of engines and pins.           *)
THEOREM ControlIsSafe == Spec => []ControlSafe
<1>1. ImageSound /\ OwnershipSound /\ PinFidelity => ControlSafe
  BY DEF ControlSafe
<1>2. QED
  BY <1>1, RunsCommittedImages, OwnershipExclusive, PinsFaithful, PTL

(* A committed image changes only through BEGIN.                           *)
THEOREM ImagesImmutable == Spec => ImageImmutable
<1>1. ControlInv /\ [Next]_vars => [KeepsImages]_vars
  BY KeepsStep
<1>2. QED
  BY <1>1, ControlCorrect, PTL DEF Spec, ImageImmutable

(* Nothing an engine executes from or drives with changes while it runs.   *)
THEOREM LiveConfigurationIsFixed == Spec => LiveConfigurationFixed
<1>1. ControlInv /\ [Next]_vars => [KeepsLiveConfiguration]_vars
  BY KeepsStep
<1>2. QED
  BY <1>1, ControlCorrect, PTL DEF Spec, LiveConfigurationFixed

(* A fault is kept, and the engine stopped, until it is cleared.           *)
THEOREM FaultsAreSticky == Spec => FaultSticky
<1>1. ControlInv /\ [Next]_vars => [KeepsFaults]_vars
  BY KeepsStep
<1>2. QED
  BY <1>1, ControlCorrect, PTL DEF Spec, FaultSticky
=============================================================================

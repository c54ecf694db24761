---------------------------- MODULE StorageProofs ----------------------------
(***************************************************************************)
(* Proofs about the storages of the chip.  Fetch, for every size of the    *)
(* program store and every set of branch targets: an engine executes the   *)
(* committed image.  Fifo, for every depth and every set of words: the     *)
(* ring invariant, the agreement of the three storage forms, and the       *)
(* refinement of the abstract bounded queue.                               *)
(***************************************************************************)
EXTENDS Fetch, Fifo, TLAPS

(* An address is in the store, and a counter within it is its own address. *)
LEMMA AddressType ==
  ASSUME NEW n \in Nat
  PROVE  /\ Address(n) \in Addresses
         /\ n < ProgramWords => Address(n) = n
BY FetchAssumption DEF FetchAssumption, Address, Addresses

(* The parts of the invariant that concern the stored image.               *)
Stored ==
  /\ \A i \in 0 .. loaded - 1 : memory[i] = image[i + 1]
  /\ length # 0 => length = loaded /\ ~writing
  /\ running => length # 0

(* The parts that concern the words already read.                          *)
Read ==
  /\ running => dout = memory[Address(pc)]
  /\ running /\ ahead.valid /\ ahead.tag = pc => ahead.cached = memory[Address(pc)]

\* The invariant by its parts.
LEMMA InvParts == FetchInv <=> TypeOK /\ Stored /\ Read
BY DEF FetchInv, Stored, Read

-----------------------------------------------------------------------------
(* An edge without a write, which all actions but two are.                 *)
LEMMA EdgeReads ==
  ASSUME TypeOK, NEW next_pc \in Nat, Edge(next_pc)
  PROVE  /\ memory' = memory /\ pc' = next_pc /\ pc' \in Nat
         /\ dout' = memory[Address(next_pc)] /\ dout' \in Code
         /\ ahead' = [valid |-> TRUE, tag |-> pc + 1, cached |-> memory[Address(pc + 1)]]
         /\ ahead' \in [valid : BOOLEAN, tag : Nat, cached : Code]
         /\ Read'
<1> USE FetchAssumption DEF FetchAssumption
<1>1. memory' = memory /\ pc' = next_pc /\ dout' = memory[Address(next_pc)]
  BY DEF Edge, Sram
<1>2. ahead' = [valid |-> TRUE, tag |-> pc + 1, cached |-> memory[Address(pc + 1)]]
  BY DEF Edge, Prefetch
<1>3. pc \in Nat /\ pc + 1 \in Nat /\ memory \in [Addresses -> Code]
  BY DEF TypeOK
<1>4. Address(next_pc) \in Addresses /\ Address(pc + 1) \in Addresses
  BY <1>3, AddressType
<1>5. dout' \in Code /\ ahead' \in [valid : BOOLEAN, tag : Nat, cached : Code]
  BY <1>1, <1>2, <1>3, <1>4
<1>6. Address(pc)' = Address(next_pc)
  BY <1>1 DEF Address
<1>7. Read'
  BY <1>1, <1>2, <1>6 DEF Read
<1> QED BY <1>1, <1>2, <1>5, <1>7

(* A write and a prefetch of a halted engine.                              *)
LEMMA WriteStores ==
  ASSUME FetchInv, NEW word \in Code, ProgramWord(word)
  PROVE  FetchInv'
<1> USE FetchAssumption DEF FetchAssumption
<1>1. TypeOK /\ Stored BY InvParts
<1>2. /\ ~running /\ running' = FALSE /\ writing' = writing /\ length' = length
      /\ writing /\ loaded < ProgramWords /\ pc' = pc
      /\ loaded' = loaded + 1 /\ image' = Append(image, word)
      /\ memory' = [memory EXCEPT ![loaded] = word] /\ dout' = dout
      /\ ahead' = [valid |-> TRUE, tag |-> pc + 1, cached |-> memory[Address(pc + 1)]]
  BY <1>1 DEF ProgramWord, Sram, Prefetch, TypeOK
<1>3. loaded \in Addresses /\ pc + 1 \in Nat
  BY <1>1, <1>2 DEF TypeOK, Addresses
<1>4. TypeOK'
  <2>1. memory' \in [Addresses -> Code] /\ dout' \in Code
    BY <1>1, <1>2 DEF TypeOK
  <2>2. ahead' \in [valid : BOOLEAN, tag : Nat, cached : Code]
    BY <1>1, <1>2, <1>3, AddressType DEF TypeOK
  <2>3. image' \in Seq(Code) /\ Len(image') = loaded'
    BY <1>1, <1>2 DEF TypeOK
  <2>4. /\ pc' \in Nat /\ running' \in BOOLEAN /\ writing' \in BOOLEAN
        /\ loaded' \in 0 .. ProgramWords /\ length' \in 0 .. ProgramWords
    <3>1. pc' \in Nat /\ running' \in BOOLEAN /\ writing' \in BOOLEAN
      BY <1>1, <1>2, Zenon DEF TypeOK
    <3>2. loaded' \in 0 .. ProgramWords /\ length' \in 0 .. ProgramWords
      BY <1>1, <1>2 DEF TypeOK
    <3> QED BY <3>1, <3>2
  <2> QED BY <2>1, <2>2, <2>3, <2>4 DEF TypeOK
<1>5. \A i \in 0 .. loaded' - 1 : memory'[i] = image'[i + 1]
  <2> SUFFICES ASSUME NEW i \in 0 .. loaded' - 1 PROVE memory'[i] = image'[i + 1]
    OBVIOUS
  <2>1. loaded \in Nat /\ image \in Seq(Code) /\ Len(image) = loaded
        /\ memory \in [Addresses -> Code]
    BY <1>1 DEF TypeOK
  <2>2. CASE i = loaded
    BY <1>2, <1>3, <2>1, <2>2
  <2>3. CASE i < loaded
    <3>1. i \in 0 .. loaded - 1 /\ i + 1 \in 1 .. Len(image)
      BY <2>1, <2>3, <1>2
    <3>2. memory'[i] = memory[i] /\ image'[i + 1] = image[i + 1]
      BY <1>2, <1>3, <2>1, <3>1 DEF Addresses
    <3> QED BY <1>1, <3>1, <3>2 DEF Stored
  <2> QED BY <1>2, <2>1, <2>2, <2>3
<1>6. length = 0
  BY <1>1, <1>2 DEF Stored
<1> QED BY <1>2, <1>4, <1>5, <1>6 DEF FetchInv

-----------------------------------------------------------------------------
(* The image registers after a clear or BEGIN.                             *)
LEMMA NoImage ==
  /\ << >> \in Seq(Code) /\ Len(<< >>) = 0 /\ 0 \in Nat
  /\ 0 \in 0 .. ProgramWords
  /\ \A word \in Code : Nothing(word) \in [valid : BOOLEAN, tag : Nat, cached : Code]
               /\ ~Nothing(word).valid
<1>1. << >> \in Seq(Code) /\ Len(<< >>) = 0
  OBVIOUS
<1>2. 0 \in 0 .. ProgramWords
  BY FetchAssumption DEF FetchAssumption
<1>3. \A word \in Code : Nothing(word) \in [valid : BOOLEAN, tag : Nat, cached : Code]
               /\ ~Nothing(word).valid
  BY DEF Nothing
<1> QED BY <1>1, <1>2, <1>3

\* Nothing is stored or read at first.
LEMMA FetchInitially == Init => FetchInv
<1> SUFFICES ASSUME Init PROVE FetchInv
  OBVIOUS
<1>1. TypeOK
  BY NoImage, Zenon DEF Init, TypeOK
<1> QED BY <1>1 DEF Init, FetchInv

\* Every step keeps what is stored and what was read.
LEMMA FetchStep == FetchInv /\ [Next]_vars => FetchInv'
<1> SUFFICES ASSUME FetchInv, [Next]_vars PROVE FetchInv'
  OBVIOUS
<1> USE FetchAssumption DEF FetchAssumption
<1>0. TypeOK /\ Stored /\ Read /\ pc \in Nat /\ pc + 1 \in Nat
  BY InvParts DEF TypeOK
<1>1. CASE Execute
  <2>1. /\ writing' = writing /\ loaded' = loaded /\ length' = length /\ image' = image
        /\ running /\ running' \in BOOLEAN
        /\ \E next \in Nat : Edge(next)
    BY <1>0, <1>1 DEF Execute, imageVars
  <2>2. PICK next \in Nat : Edge(next)
    BY <2>1
  <2>3. memory' = memory /\ pc' \in Nat /\ dout' \in Code
        /\ ahead' \in [valid : BOOLEAN, tag : Nat, cached : Code] /\ Read'
    BY <1>0, <2>2, EdgeReads
  <2>4. TypeOK' BY <1>0, <2>1, <2>3 DEF TypeOK
  <2>5. Stored' BY <1>0, <2>1, <2>3 DEF Stored
  <2> QED BY <2>3, <2>4, <2>5 DEF FetchInv, Stored, Read
<1>2. CASE Hold \/ Stop \/ Commit
  <2>1. Edge(pc)
    BY <1>2 DEF Hold, Stop, Commit
  <2>2. memory' = memory /\ pc' \in Nat /\ dout' \in Code
        /\ ahead' \in [valid : BOOLEAN, tag : Nat, cached : Code] /\ Read'
    BY <1>0, <2>1, EdgeReads
  <2>3. /\ running' = FALSE /\ loaded' = loaded /\ image' = image
        /\ \/ writing' = writing /\ length' = length
           \/ writing' = FALSE /\ length' = loaded
    BY <1>0, <1>2 DEF Hold, Stop, Commit, imageVars, TypeOK
  <2>4. TypeOK' BY <1>0, <2>2, <2>3 DEF TypeOK
  <2>5. Stored' BY <1>0, <2>2, <2>3 DEF Stored
  <2> QED BY <2>2, <2>4, <2>5 DEF FetchInv, Stored, Read
<1>3. CASE Begin
  <2>1. Edge(pc)
    BY <1>3 DEF Begin
  <2>2. memory' = memory /\ pc' \in Nat /\ dout' \in Code
        /\ ahead' \in [valid : BOOLEAN, tag : Nat, cached : Code] /\ Read'
    BY <1>0, <2>1, EdgeReads
  <2>3. running' = FALSE /\ writing' = TRUE /\ loaded' = 0 /\ length' = 0 /\ image' = << >>
    BY <1>3 DEF Begin
  <2>4. TypeOK' BY <1>0, <2>2, <2>3, NoImage, Zenon DEF TypeOK
  <2>5. Stored' BY <2>3 DEF Stored
  <2> QED BY <2>2, <2>4, <2>5 DEF FetchInv, Stored, Read
<1>4. CASE Start
  <2>1. Edge(0)
    BY <1>4 DEF Start
  <2>2. memory' = memory /\ pc' \in Nat /\ dout' \in Code
        /\ ahead' \in [valid : BOOLEAN, tag : Nat, cached : Code] /\ Read'
    BY <1>0, <2>1, EdgeReads
  <2>3. /\ running' = TRUE /\ length # 0
        /\ writing' = writing /\ loaded' = loaded /\ length' = length /\ image' = image
    BY <1>4 DEF Start, imageVars
  <2>4. TypeOK' BY <1>0, <2>2, <2>3 DEF TypeOK
  <2>5. Stored' BY <1>0, <2>2, <2>3 DEF Stored
  <2> QED BY <2>2, <2>4, <2>5 DEF FetchInv, Stored, Read
<1>5. CASE \E word \in Code : ProgramWord(word)
  BY <1>5, WriteStores
<1>6. CASE Reset
  <2>1. TypeOK' BY <1>0, <1>6, NoImage, Zenon DEF Reset, TypeOK
  <2> QED BY <1>6, <2>1 DEF Reset, FetchInv
<1>7. CASE UNCHANGED vars
  BY <1>7 DEF vars, imageVars, FetchInv, TypeOK, Address
<1> QED BY <1>1, <1>2, <1>3, <1>4, <1>5, <1>6, <1>7 DEF Next

(* The store holds the host's words and the engine's next one is read.     *)
THEOREM FetchCorrect == Spec => []FetchInv
BY FetchInitially, FetchStep, PTL DEF Spec

(* A word of the image is at its own address.                              *)
LEMMA ImageWord ==
  ASSUME FetchInv, running, pc < length
  PROVE  memory[Address(pc)] = image[pc + 1]
<1>1. pc \in Nat /\ length \in 0 .. ProgramWords /\ length = loaded
  BY DEF FetchInv, TypeOK
<1>2. Address(pc) = pc /\ pc \in 0 .. loaded - 1
  BY <1>1, AddressType, FetchAssumption DEF FetchAssumption
<1> QED BY <1>2 DEF FetchInv

(* The chip's SRAM: a running engine executes the image the host wrote.    *)
THEOREM SramExecutesImage == Spec => []SramFetchesImage
<1>1. FetchInv => SramFetchesImage
  BY ImageWord DEF FetchInv, SramFetchesImage, Instruction_sram
<1> QED BY <1>1, FetchCorrect, PTL

(* The prefetching memory: so it does there.                               *)
THEOREM PrefetchExecutesImage == Spec => []PrefetchFetchesImage
<1>1. FetchInv => PrefetchFetchesImage
  BY ImageWord DEF FetchInv, PrefetchFetchesImage, Instruction_prefetch
<1> QED BY <1>1, FetchCorrect, PTL

(* Both instruction memories execute what the host wrote and committed.      *)
THEOREM ExecutesImage == Spec => []FetchesImage
<1>1. SramFetchesImage /\ PrefetchFetchesImage => FetchesImage
  BY DEF FetchesImage
<1> QED BY <1>1, SramExecutesImage, PrefetchExecutesImage, PTL

-----------------------------------------------------------------------------
USE DepthAssumption DEF DepthAssumption

(* The ring invariant holds in the reset state, whatever the storage       *)
(* powered up with.                                                        *)
LEMMA RingInit == FifoInit => RingInv
<1> SUFFICES ASSUME FifoInit PROVE RingInv
  OBVIOUS
<1>1. FifoTypeOK
  BY DEF FifoInit, FifoTypeOK, Slots
<1>2. wr = SlotOf(count) /\ 0 .. count - 1 = {}
  BY DEF FifoInit, SlotOf
<1>3. QED
  BY <1>1, <1>2 DEF RingInv

(* A clock edge with any request keeps every register in its range.        *)
LEMMA TypeStep ==
  ASSUME FifoTypeOK, NEW push \in BOOLEAN, NEW pop \in BOOLEAN, NEW clear \in BOOLEAN,
         NEW data \in Words, Clock(push, pop, clear, data)
  PROVE  FifoTypeOK'
<1> USE DEF FifoTypeOK, Slots, valid, ready
<1>1. count' \in 0 .. Depth /\ rd' \in Slots /\ wr' \in Slots
  BY DEF Clock, Occupancy, Increment
<1>2. mem' \in [Slots -> Words] /\ free' \in [Slots -> Words]
  BY DEF Clock
<1>3. staged' \in [Slots -> Words] /\ stage' \in [valid : BOOLEAN, slot : Slots, data : Words]
  BY DEF Clock, StagedWrite
<1>4. QED
  BY <1>1, <1>2, <1>3

(* Held slots are distinct from one another and from the write pointer of  *)
(* a queue that is not full: this is what makes overwriting impossible.    *)
LEMMA SlotsDistinct ==
  ASSUME RingInv
  PROVE  /\ \A i \in 0 .. count : SlotOf(i) \in Slots
         /\ \A i, j \in 0 .. count - 1 : SlotOf(i) = SlotOf(j) => i = j
         /\ ready => \A i \in 0 .. count - 1 : SlotOf(i) # wr
  BY DEF RingInv, FifoTypeOK, SlotOf, Slots, ready

(* A pop moves every word one place nearer the head and nothing else moves *)
(* a word: where the word at distance i was before the edge.               *)
LEMMA SlotStep ==
  ASSUME RingInv, NEW push \in BOOLEAN, NEW pop \in BOOLEAN, NEW clear \in BOOLEAN,
         NEW data \in Words, Clock(push, pop, clear, data), ~clear, NEW i \in 0 .. count
  PROVE  /\ pop /\ valid /\ i # count => SlotOf(i)' = SlotOf(i + 1)
         /\ ~(pop /\ valid) => SlotOf(i)' = SlotOf(i)
<1> USE DEF RingInv, FifoTypeOK, Slots
<1>1. CASE pop /\ valid
  <2>1. rd' = Increment(rd)
    BY <1>1 DEF Clock, Occupancy
  <2>2. SlotOf(i)' = IF rd' + i < Depth THEN rd' + i ELSE rd' + i - Depth
    BY DEF SlotOf
  <2>3. QED
    BY <1>1, <2>1, <2>2 DEF SlotOf, Increment
<1>2. CASE ~(pop /\ valid)
  BY <1>2 DEF Clock, Occupancy, SlotOf
<1>3. QED
  BY <1>1, <1>2

(* The ring invariant is inductive.                                        *)
LEMMA RingStep ==
  ASSUME RingInv, NEW push \in BOOLEAN, NEW pop \in BOOLEAN, NEW clear \in BOOLEAN,
         NEW data \in Words, Clock(push, pop, clear, data)
  PROVE  RingInv'
<1>1. FifoTypeOK'
  BY TypeStep DEF RingInv
<1>2. CASE clear
  <2>1. count' = 0 /\ rd' = 0 /\ wr' = 0
    BY <1>2 DEF Clock, Occupancy
  <2>2. QED
    BY <1>1, <2>1 DEF RingInv, SlotOf
<1>3. CASE ~clear
  <2> DEFINE put  == push /\ ready
             take == pop /\ valid
  <2>1. wr' = SlotOf(count)'
    BY <1>3 DEF RingInv, FifoTypeOK, SlotOf, Slots, Clock, Occupancy, Increment, valid, ready
  <2>2. ASSUME NEW i \in 0 .. count' - 1
        PROVE  /\ StagedWord(SlotOf(i))' = mem'[SlotOf(i)']
               /\ free'[SlotOf(i)'] = mem'[SlotOf(i)']
    <3>1. PICK j \in 0 .. count : SlotOf(i)' = SlotOf(j) /\ (j = count => put)
      <4>1. count' = IF put /\ ~take THEN count + 1
                     ELSE IF take /\ ~put THEN count - 1 ELSE count
        BY <1>3 DEF Clock, Occupancy
      <4>2. count \in Nat /\ (take => count > 0)
        BY DEF RingInv, FifoTypeOK, valid
      <4>3. CASE take
        <5>1. i \in 0 .. count /\ i # count /\ i + 1 \in 0 .. count /\ (i + 1 = count => put)
          BY <4>1, <4>2, <4>3
        <5>2. SlotOf(i)' = SlotOf(i + 1)
          BY <1>3, <4>3, <5>1, SlotStep
        <5>3. QED
          BY <5>1, <5>2
      <4>4. CASE ~take
        <5>1. i \in 0 .. count /\ (i = count => put)
          BY <4>1, <4>2, <4>4
        <5>2. SlotOf(i)' = SlotOf(i)
          BY <1>3, <4>4, <5>1, SlotStep
        <5>3. QED
          BY <5>1, <5>2
      <4>5. QED
        BY <4>3, <4>4
    <3> DEFINE s == SlotOf(j)
    <3>2. /\ mem' = IF put THEN [mem EXCEPT ![wr] = data] ELSE mem
          /\ free' = IF ready THEN [free EXCEPT ![wr] = data] ELSE free
          /\ stage' = [valid |-> put, slot |-> wr, data |-> data]
          /\ staged' = IF stage.valid THEN [staged EXCEPT ![stage.slot] = stage.data]
                       ELSE staged
      BY <1>3 DEF Clock, StagedWrite
    <3>3. StagedWord(SlotOf(i))' = IF put /\ wr = s THEN data ELSE staged'[s]
      <4>1. StagedWord(SlotOf(i))' = IF stage'.valid /\ stage'.slot = s
                                     THEN stage'.data ELSE staged'[s]
        BY <3>1 DEF StagedWord
      <4>2. stage'.valid = put /\ stage'.slot = wr /\ stage'.data = data
        BY <3>2
      <4>3. QED
        BY <4>1, <4>2
    <3>4. s \in Slots /\ wr \in Slots /\ stage.slot \in Slots
      BY SlotsDistinct DEF RingInv, FifoTypeOK
    <3>5. CASE j = count
      <4>1. s = wr /\ put
        BY <3>1, <3>5 DEF RingInv
      <4>2. mem'[s] = data /\ free'[s] = data
        BY <3>2, <3>4, <4>1 DEF RingInv, FifoTypeOK
      <4>3. QED
        BY <3>1, <3>3, <4>1, <4>2
    <3>6. CASE j # count
      <4>1. j \in 0 .. count - 1
        BY <3>6 DEF RingInv, FifoTypeOK
      <4>2. ready => s # wr
        BY <4>1, SlotsDistinct
      <4>3. mem'[s] = mem[s] /\ free'[s] = free[s]
        BY <3>2, <3>4, <4>2 DEF RingInv, FifoTypeOK
      <4>4. staged'[s] = StagedWord(s)
        BY <3>2, <3>4 DEF RingInv, FifoTypeOK, StagedWord
      <4>5. StagedWord(s) = mem[s] /\ free[s] = mem[s]
        BY <4>1 DEF RingInv
      <4>6. QED
        BY <3>1, <3>3, <4>2, <4>3, <4>4, <4>5
    <3>7. QED
      BY <3>5, <3>6
  <2>3. QED
    BY <1>1, <2>1, <2>2 DEF RingInv
<1>4. QED
  BY <1>2, <1>3

-----------------------------------------------------------------------------
(* Every reachable state of a queue of any depth satisfies the ring        *)
(* invariant: pointer arithmetic never lets an accepted word fall on a     *)
(* held one.                                                               *)
THEOREM RingCorrect == FifoSpec => []RingInv
<1>1. RingInv /\ [FifoNext]_fifoVars => RingInv'
  <2> SUFFICES ASSUME RingInv, [FifoNext]_fifoVars PROVE RingInv'
    OBVIOUS
  <2>1. CASE FifoNext
    <3>1. PICK push, pop, clear \in BOOLEAN, data \in Words : Clock(push, pop, clear, data)
      BY <2>1 DEF FifoNext
    <3>2. QED
      BY <3>1, RingStep
  <2>2. CASE UNCHANGED fifoVars
    BY <2>2 DEF fifoVars, RingInv, FifoTypeOK, SlotOf, StagedWord
  <2>3. QED
    BY <2>1, <2>2
<1>2. QED
  BY RingInit, <1>1, PTL DEF FifoSpec

(* The registers of the queue never leave their ranges, at any depth.      *)
THEOREM TypeCorrect == FifoSpec => []FifoTypeOK
<1>1. RingInv => FifoTypeOK
  BY DEF RingInv
<1>2. QED
  BY <1>1, RingCorrect, PTL

(* The timing variants fifo_write_staging and fifo_write_free_slot present *)
(* the same head as the ring buffer of record, at any depth (the comments  *)
(* at fifo.ml 49-57 and 96-103).                                           *)
THEOREM VariantsAgree == FifoSpec => []SameHead
<1>1. RingInv => SameHead
  <2> SUFFICES ASSUME RingInv, valid
               PROVE  Head_staged = Head_create_with /\ Head_free_slot = Head_create_with
    BY DEF SameHead
  <2>1. 0 \in 0 .. count - 1 /\ SlotOf(0) = rd
    BY DEF RingInv, FifoTypeOK, Slots, valid, SlotOf
  <2>2. QED
    BY <2>1 DEF RingInv, StagedWord, Head_staged, Head_create_with, Head_free_slot
<1>2. QED
  BY <1>1, RingCorrect, PTL

(* A push appends and a pop removes the first word of Contents.            *)
LEMMA ContentsStep ==
  ASSUME RingInv, NEW push \in BOOLEAN, NEW pop \in BOOLEAN, NEW clear \in BOOLEAN,
         NEW data \in Words, Clock(push, pop, clear, data)
  PROVE  Abstract!Clock(push, pop, clear, data)
<1> DEFINE put  == push /\ ready
           take == pop /\ valid
           rest == IF take THEN Tail(Contents) ELSE Contents
<1>1. Contents \in Seq(Words) /\ Len(Contents) = count /\ count \in Nat
  <2>1. count \in Nat /\ \A i \in 1 .. count : SlotOf(i - 1) \in Slots
    BY SlotsDistinct DEF RingInv, FifoTypeOK
  <2>2. \A i \in 1 .. count : mem[SlotOf(i - 1)] \in Words
    BY <2>1 DEF RingInv, FifoTypeOK
  <2>3. QED
    BY <2>1, <2>2 DEF Contents
<1>2. CASE clear
  <2>1. count' = 0
    BY <1>2 DEF Clock, Occupancy
  <2>2. Contents' = << >>
    BY <2>1 DEF Contents
  <2>3. QED
    BY <1>2, <2>2 DEF Abstract!Clock, Abstract!After
<1>3. CASE ~clear
  <2>1. count' = IF put /\ ~take THEN count + 1
                 ELSE IF take /\ ~put THEN count - 1 ELSE count
    BY <1>3 DEF Clock, Occupancy
  <2>2. mem' = IF put THEN [mem EXCEPT ![wr] = data] ELSE mem
    BY <1>3 DEF Clock
  <2>3. take => count > 0
    BY <1>1 DEF valid
  <2>4. rest \in Seq(Words) /\ Len(rest) = IF take THEN count - 1 ELSE count
    BY <1>1, <2>3
  <2>5. ASSUME NEW i \in 1 .. Len(rest)
        PROVE  SlotOf(i - 1)' \in Slots /\ mem'[SlotOf(i - 1)'] = rest[i]
    <3>1. i - 1 \in 0 .. count /\ i - 1 # count
      BY <1>1, <2>3, <2>4
    <3> DEFINE j == IF take THEN i ELSE i - 1
    <3>2. j \in 0 .. count - 1
      BY <1>1, <2>3, <2>4
    <3>3. SlotOf(i - 1)' = SlotOf(j)
      BY <1>1, <1>3, <3>1, SlotStep
    <3>4. rest[i] = mem[SlotOf(j)]
      BY <1>1, <2>3, <2>4, <3>2 DEF Contents
    <3>5. SlotOf(j) \in Slots /\ (put => SlotOf(j) # wr)
      BY <3>2, <1>1, SlotsDistinct
    <3>6. mem'[SlotOf(j)] = mem[SlotOf(j)]
      BY <2>2, <3>5 DEF RingInv, FifoTypeOK
    <3>7. QED
      BY <3>3, <3>4, <3>5, <3>6
  <2>6. CASE ~put
    <3>1. Len(rest) = count' /\ Contents' = [i \in 1 .. count' |-> mem'[SlotOf(i - 1)']]
      BY <1>1, <2>1, <2>3, <2>4, <2>6 DEF Contents
    <3>2. Contents' = rest
      <4>1. \A i \in 1 .. count' : mem'[SlotOf(i - 1)'] = rest[i]
        BY <2>5, <3>1
      <4>2. rest = [i \in 1 .. count' |-> rest[i]]
        BY <2>4, <3>1
      <4> HIDE DEF rest
      <4>3. QED
        BY <3>1, <4>1, <4>2
    <3>3. ~(push /\ Abstract!Ready(Contents)) /\ (take <=> pop /\ Abstract!Valid(Contents))
      BY <1>1, <2>6 DEF Abstract!Ready, Abstract!Valid, ready, valid
    <3>4. QED
      BY <1>3, <3>2, <3>3 DEF Abstract!Clock, Abstract!After
  <2>7. CASE put
    <3>1. count' = Len(rest) + 1 /\ Contents' = [i \in 1 .. count' |-> mem'[SlotOf(i - 1)']]
      BY <1>1, <2>1, <2>3, <2>4, <2>7 DEF Contents
    <3>2. PICK n \in 0 .. count : n = Len(rest)
      BY <1>1, <2>3, <2>4
    <3>3. SlotOf(n)' = wr /\ wr \in Slots
      <4>1. wr = SlotOf(count) /\ wr \in Slots
        BY DEF RingInv, FifoTypeOK
      <4>2. CASE take
        <5>1. n # count /\ n + 1 = count
          BY <1>1, <2>3, <2>4, <3>2, <4>2
        <5>2. SlotOf(n)' = SlotOf(n + 1)
          BY <1>3, <4>2, <5>1, SlotStep
        <5>3. QED
          BY <4>1, <5>1, <5>2
      <4>3. CASE ~take
        <5>1. n = count
          BY <2>4, <3>2, <4>3
        <5>2. SlotOf(n)' = SlotOf(n)
          BY <1>3, <4>3, SlotStep
        <5>3. QED
          BY <4>1, <5>1, <5>2
      <4>4. QED
        BY <4>2, <4>3
    <3>4. mem'[SlotOf(n)'] = data
      BY <2>2, <2>7, <3>3 DEF RingInv, FifoTypeOK
    <3> DEFINE longer == Append(rest, data)
    <3>5. /\ longer = [i \in 1 .. n + 1 |-> longer[i]]
          /\ longer[n + 1] = data
          /\ \A i \in 1 .. n : longer[i] = rest[i]
      <4> HIDE DEF rest
      <4>1. longer \in Seq(Words) /\ Len(longer) = n + 1
        BY <2>4, <3>2
      <4>2. longer[n + 1] = data
        BY <2>4, <3>2
      <4>3. \A i \in 1 .. n : longer[i] = rest[i]
        BY <2>4, <3>2
      <4>4. longer = [i \in 1 .. n + 1 |-> longer[i]]
        <5> HIDE DEF longer
        <5>1. QED
          BY <4>1
      <4>5. QED
        BY <4>2, <4>3, <4>4
    <3>6. Contents' = longer
      <4> HIDE DEF rest, longer
      <4>1. \A i \in 1 .. n : mem'[SlotOf(i - 1)'] = longer[i]
        BY <2>5, <3>2, <3>5
      <4>2. mem'[SlotOf((n + 1) - 1)'] = longer[n + 1]
        <5>1. (n + 1) - 1 = n
          OBVIOUS
        <5>2. QED
          BY <3>4, <3>5, <5>1
      <4>3. \A i \in 1 .. n + 1 : mem'[SlotOf(i - 1)'] = longer[i]
        <5>1. \A i \in 1 .. n + 1 : i = n + 1 \/ i \in 1 .. n
          OBVIOUS
        <5>2. QED
          BY <4>1, <4>2, <5>1
      <4>4. QED
        BY <3>1, <3>2, <3>5, <4>3
    <3>7. (push /\ Abstract!Ready(Contents)) /\ (take <=> pop /\ Abstract!Valid(Contents))
      BY <1>1, <2>7 DEF Abstract!Ready, Abstract!Valid, ready, valid
    <3>8. QED
      BY <1>3, <3>6, <3>7 DEF Abstract!Clock, Abstract!After
  <2>8. QED
    BY <2>6, <2>7
<1>4. QED
  BY <1>2, <1>3

(* The ring buffer implements the abstract bounded queue at any depth: no  *)
(* accepted word is lost, duplicated, overwritten or reordered, and FLUSH  *)
(* empties the queue whatever races with it.                               *)
THEOREM FifoRefinesQueue == FifoSpec => ImplementsQueue
<1>1. FifoInit => Abstract!Init
  BY DEF FifoInit, Abstract!Init, Contents
<1>2. RingInv /\ [FifoNext]_fifoVars => [Abstract!Next]_Contents
  <2> SUFFICES ASSUME RingInv, [FifoNext]_fifoVars PROVE [Abstract!Next]_Contents
    OBVIOUS
  <2>1. CASE FifoNext
    <3>1. PICK push, pop, clear \in BOOLEAN, data \in Words : Clock(push, pop, clear, data)
      BY <2>1 DEF FifoNext
    <3>2. Abstract!Clock(push, pop, clear, data)
      BY <3>1, ContentsStep
    <3>3. QED
      BY <3>2 DEF Abstract!Next
  <2>2. CASE UNCHANGED fifoVars
    BY <2>2 DEF fifoVars, Contents, SlotOf
  <2>3. QED
    BY <2>1, <2>2
<1>3. QED
  BY <1>1, <1>2, RingCorrect, VariantsAgree, PTL DEF FifoSpec, ImplementsQueue, Abstract!Spec
=============================================================================

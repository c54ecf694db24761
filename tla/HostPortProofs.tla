--------------------------- MODULE HostPortProofs ---------------------------
(***************************************************************************)
(* Proofs about the nibble port and the host library that drives it, for   *)
(* every word length, nibble set, timeout and depth of the RX queue.       *)
(***************************************************************************)
EXTENDS HostLink, SequenceTheorems, TLAPS

USE PortAssumption DEF Windows, Indices, Last

\* The nibble after one.
LEMMA NextIndex ==
  ASSUME NEW i \in Indices
  PROVE  (i + 1) % WordLength = IF i = Last THEN 0 ELSE i + 1
<1>1. WordLength \in Nat \ {0, 1}
  OBVIOUS
<1>2. CASE i = Last
  <2>1. WordLength % WordLength = 0
    BY <1>1, SMTT(20)
  <2> QED
    BY <1>2, <2>1
<1>3. CASE i # Last
  <2>1. i + 1 \in 0 .. WordLength - 1
    BY <1>3
  <2>2. \A j \in 0 .. WordLength - 1 : j % WordLength = j
    BY <1>1, SMTT(20)
  <2> QED
    BY <1>3, <2>1, <2>2
<1> QED
  BY <1>2, <1>3

\* The port starts in its invariant.
LEMMA PortInit == Init => PortInv
  BY DEF Init, PortInv, TypeOK, SlotsAgree, OfferedFromWindow, Word

(* The write half keeps the invariant.                                     *)
LEMMA GatherStep ==
  ASSUME PortInv, NEW ui \in UI, NEW ready \in BOOLEAN, Gather(ui, ready)
  PROVE  /\ write_index' \in Indices /\ write_buffer' \in Word
         /\ slots' \in [0 .. Last - 1 -> Nibbles]
         /\ SlotsAgree'
<1> USE DEF PortInv, TypeOK, Word, UI
<1>0. /\ write_index \in Indices /\ write_buffer \in Word
      /\ slots \in [0 .. Last - 1 -> Nibbles]
      /\ ui.nibble \in Nibbles
  OBVIOUS
<1>1. CASE Changed(ui)
  <2>1. write_index' = 0 /\ write_buffer' = [i \in Indices |-> Zero] /\ slots' = slots
    BY <1>1 DEF Gather
  <2> QED
    BY <1>0, <2>1 DEF SlotsAgree
<1>2. CASE ~Changed(ui) /\ WriteAccept(ui, ready)
  <2>1. /\ write_index' = (write_index + 1) % WordLength
        /\ write_buffer' = Shifted(ui)
        /\ slots' = [i \in 0 .. Last - 1 |-> IF i = write_index THEN ui.nibble ELSE slots[i]]
    BY <1>2 DEF Gather
  <2>2. write_index' = IF write_index = Last THEN 0 ELSE write_index + 1
    BY <1>0, <2>1, NextIndex
  <2>3. \A i \in Indices : write_buffer'[i] = IF i = Last THEN ui.nibble ELSE write_buffer[i + 1]
    BY <2>1 DEF Shifted
  <2>4. write_buffer' \in Word
    BY <1>0, <2>1 DEF Shifted
  <2>5. slots' \in [0 .. Last - 1 -> Nibbles]
    BY <1>0, <2>1
  <2>6. write_index' \in Indices
    BY <1>0, <2>2
  <2>7. ASSUME NEW i \in 0 .. Last - 1, i < write_index'
        PROVE  slots'[i] = write_buffer'[WordLength - write_index' + i]
    <3>1. write_index' = write_index + 1
      BY <1>0, <2>2, <2>7
    <3>2. CASE i = write_index
      BY <1>0, <2>1, <2>3, <3>1, <3>2
    <3>3. CASE i # write_index
      <4>1. i < write_index
        BY <1>0, <2>7, <3>1, <3>3
      <4>2. slots[i] = write_buffer[WordLength - write_index + i]
        BY <4>1 DEF SlotsAgree
      <4> QED
        BY <1>0, <2>1, <2>3, <3>1, <3>3, <4>1, <4>2
    <3> QED
      BY <3>2, <3>3
  <2>8. ASSUME write_index' = Last, NEW u \in UI
        PROVE  Slotted(u)' = Shifted(u)'
    <3>1. \A i \in 0 .. Last - 1 : slots'[i] = write_buffer'[i + 1]
      BY <2>7, <2>8
    <3> QED
      BY <3>1 DEF Slotted, Shifted
  <2> QED
    BY <2>4, <2>5, <2>6, <2>7, <2>8 DEF SlotsAgree
<1>3. CASE ~Changed(ui) /\ ~WriteAccept(ui, ready)
  <2>1. UNCHANGED bufferVars
    BY <1>3 DEF Gather
  <2> QED
    BY <1>0, <2>1 DEF bufferVars, SlotsAgree, Slotted, Shifted
<1> QED
  BY <1>1, <1>2, <1>3

\* The read half keeps it.
LEMMA PresentStep ==
  ASSUME PortInv, NEW ui \in UI, NEW valid \in BOOLEAN, NEW data \in Word,
         valid => ui.window \in {0, 3},
         Present(ui, valid, data), previous_window' = ui.window
  PROVE  /\ presenting' \in BOOLEAN /\ snapshot' \in Word /\ read_index' \in Indices
         /\ OfferedFromWindow'
<1>0. /\ presenting \in BOOLEAN /\ snapshot \in Word /\ read_index \in Indices
      /\ presenting => previous_window \in {0, 3}
      /\ ~presenting => read_index = 0
      /\ 0 \in Indices
  BY DEF PortInv, TypeOK, OfferedFromWindow
<1>1. CASE Changed(ui)
  <2>1. presenting' = FALSE /\ snapshot' = snapshot /\ read_index' = 0
    BY <1>1 DEF Present
  <2> QED
    BY <1>0, <2>1 DEF OfferedFromWindow
<1>2. CASE ~Changed(ui) /\ ~presenting /\ valid
  <2>1. presenting' = TRUE /\ snapshot' = data /\ read_index' = 0
    BY <1>2 DEF Present
  <2> QED
    BY <1>0, <1>2, <2>1 DEF OfferedFromWindow
<1>3. CASE ~Changed(ui) /\ ~(~presenting /\ valid) /\ ReadAccept(ui)
  <2>1. (read_index + 1) % WordLength = IF read_index = Last THEN 0 ELSE read_index + 1
    BY <1>0, NextIndex
  <2>2. /\ read_index' = (read_index + 1) % WordLength
        /\ presenting' = (read_index # Last) /\ snapshot' = snapshot
    BY <1>3 DEF Present
  <2>3. read_index' \in Indices
    BY <1>0, <2>1, <2>2
  <2>4. ui.window = previous_window /\ presenting
    BY <1>3 DEF Changed, ReadAccept
  <2>5. ~presenting' => read_index' = 0
    BY <2>1, <2>2
  <2> QED
    BY <1>0, <2>2, <2>3, <2>4, <2>5 DEF OfferedFromWindow
<1>4. CASE ~Changed(ui) /\ ~(~presenting /\ valid) /\ ~ReadAccept(ui)
  <2>1. UNCHANGED readVars /\ ui.window = previous_window
    BY <1>4 DEF Present, Changed
  <2> QED
    BY <1>0, <2>1 DEF OfferedFromWindow, readVars
<1> QED
  BY <1>1, <1>2, <1>3, <1>4

\* A reset establishes it.
LEMMA ClearStep ==
  ASSUME Clear
  PROVE  PortInv'
<1>1. TypeOK'
  BY DEF Clear, TypeOK, Word
<1>2. write_index' = 0 /\ 0 # Last
  BY DEF Clear
<1>3. SlotsAgree'
  BY <1>2 DEF SlotsAgree
<1>4. OfferedFromWindow'
  BY DEF Clear, OfferedFromWindow
<1> QED
  BY <1>1, <1>3, <1>4 DEF PortInv

\* An edge of the port keeps it.
LEMMA PortEdge ==
  ASSUME PortInv, NEW ui \in UI, NEW ready \in BOOLEAN, NEW valid \in BOOLEAN, NEW data \in Word,
         valid => ui.window \in {0, 3}, Port(ui, ready, valid, data)
  PROVE  PortInv'
<1>1. /\ Gather(ui, ready) /\ Present(ui, valid, data) /\ previous_window' = ui.window
      /\ taken' = read_word(ui)
  BY DEF Port
<1>2. ui.window \in Windows /\ ui.read \in BOOLEAN
  BY DEF UI
<1>3. taken' \in BOOLEAN
  BY <1>1, <1>2 DEF read_word, ReadAccept, PortInv, TypeOK
<1>4. /\ write_index' \in Indices /\ write_buffer' \in Word
      /\ slots' \in [0 .. Last - 1 -> Nibbles] /\ SlotsAgree'
  BY <1>1, GatherStep
<1>5. /\ presenting' \in BOOLEAN /\ snapshot' \in Word /\ read_index' \in Indices
      /\ OfferedFromWindow'
  BY <1>1, PresentStep
<1> QED
  BY <1>1, <1>2, <1>3, <1>4, <1>5 DEF PortInv, TypeOK

\* So does an edge elsewhere.
LEMMA PortStutter ==
  ASSUME PortInv, UNCHANGED portVars
  PROVE  PortInv'
  BY DEF portVars, bufferVars, readVars, PortInv, TypeOK, SlotsAgree, OfferedFromWindow,
         Slotted, Shifted

\* Every step keeps it.
LEMMA PortStep == PortInv /\ [Next]_portVars => PortInv'
<1> SUFFICES ASSUME PortInv, [Next]_portVars PROVE PortInv'
  OBVIOUS
<1>1. ASSUME NEW ui \in UI, NEW ready \in Ready(ui.window), NEW valid \in Valid(ui.window),
             IF valid THEN \E data \in Word : Port(ui, ready, valid, data)
                      ELSE Port(ui, ready, valid, snapshot)
      PROVE  PortInv'
  <2>1. ready \in BOOLEAN /\ valid \in BOOLEAN /\ (valid => ui.window \in {0, 3})
    BY DEF Ready, Valid, UI
  <2>2. snapshot \in Word
    BY DEF PortInv, TypeOK
  <2> QED
    BY <1>1, <2>1, <2>2, PortEdge
<1> QED
  BY <1>1, ClearStep, PortStutter DEF Next

(* Both write circuits hold the same word in progress and a word is offered*)
(* only where it may be: the inductive invariant of the port.              *)
THEOREM PortCorrect == Spec => []PortInv
  BY PortInit, PortStep, PTL DEF Spec

(* The slots circuit completes the word the shifting buffer completes      *)
(* (host.ml 14-21).                                                        *)
THEOREM WriteCircuitsAgree == Spec => []SlotsAgree
<1>1. PortInv => SlotsAgree
  BY DEF PortInv
<1> QED
  BY <1>1, PortCorrect, PTL

(* A read is offered only in windows 0 and 3 and from its first nibble.    *)
THEOREM OffersInWindow == Spec => []OfferedFromWindow
<1>1. PortInv => OfferedFromWindow
  BY DEF PortInv
<1> QED
  BY <1>1, PortCorrect, PTL

-----------------------------------------------------------------------------
(* The refinement: the buffered nibbles and the rest of the snapshot as    *)
(* sequences.                                                              *)
LEMMA PartialValue ==
  ASSUME NEW m \in Indices, NEW buffer \in Word
  PROVE  LET part == [i \in 1 .. m |-> buffer[WordLength - m + i - 1]]
         IN  /\ part \in Seq(Nibbles) /\ Len(part) = m
             /\ \A i \in 1 .. m : part[i] = buffer[WordLength - m + i - 1]
<1>1. \A i \in 1 .. m : buffer[WordLength - m + i - 1] \in Nibbles
  BY DEF Word
<1> QED
  BY <1>1

\* The nibbles of a word that are still to be read.
LEMMA OfferedValue ==
  ASSUME NEW m \in Indices, NEW word \in Word
  PROVE  LET rest == [i \in 1 .. WordLength - m |-> word[m + i - 1]]
         IN  /\ rest \in Seq(Nibbles) /\ Len(rest) = WordLength - m
             /\ \A i \in 1 .. WordLength - m : rest[i] = word[m + i - 1]
<1>1. \A i \in 1 .. WordLength - m : word[m + i - 1] \in Nibbles
  BY DEF Word
<1> QED
  BY <1>1

\* The write half gathers nibbles as the port of words does.
LEMMA GatherRefines ==
  ASSUME PortInv, PortInv', NEW ui \in UI, NEW ready \in BOOLEAN, Gather(ui, ready),
         written' = IF write(ui, ready) THEN AsSeq(Shifted(ui)) ELSE << >>
  PROVE  /\ Changed(ui) => Partial' = << >> /\ written' = << >>
         /\ ~Changed(ui) => Abstract!Gather
<1> USE DEF UI
<1>0. TypeOK /\ TypeOK' /\ write_index \in Indices /\ write_buffer \in Word /\ ui.nibble \in Nibbles
  BY DEF PortInv, TypeOK
<1>a. /\ Partial \in Seq(Nibbles) /\ Len(Partial) = write_index
      /\ \A i \in 1 .. write_index : Partial[i] = write_buffer[WordLength - write_index + i - 1]
  BY <1>0, PartialValue DEF Partial
<1>b. write_index' = 0 => Partial' = << >>
  BY DEF Partial
<1>1. CASE Changed(ui)
  BY <1>1, <1>b DEF Gather, write, WriteAccept
<1>2. CASE ~Changed(ui) /\ ~WriteAccept(ui, ready)
  <2>1. written' = << >> /\ UNCHANGED bufferVars
    BY <1>2 DEF Gather, write
  <2>2. Partial' = Partial
    BY <2>1 DEF Partial, bufferVars
  <2> QED
    BY <1>2, <2>1, <2>2 DEF Abstract!Gather
<1>3. CASE ~Changed(ui) /\ WriteAccept(ui, ready)
  <2> DEFINE whole == Append(Partial, ui.nibble)
  <2>1. write_index' = (write_index + 1) % WordLength /\ write_buffer' = Shifted(ui)
    BY <1>3 DEF Gather
  <2>2. write_index' = IF write_index = Last THEN 0 ELSE write_index + 1
    BY <1>0, <2>1, NextIndex
  <2>3. /\ whole \in Seq(Nibbles) /\ Len(whole) = write_index + 1
        /\ \A i \in 1 .. write_index : whole[i] = Partial[i]
        /\ whole[write_index + 1] = ui.nibble
    BY <1>0, <1>a
  <2> HIDE DEF whole
  <2>4. CASE write_index = Last
    <3>1. written' = AsSeq(Shifted(ui)) /\ Partial' = << >>
      BY <1>3, <1>b, <2>2, <2>4 DEF write
    <3>2. /\ AsSeq(Shifted(ui)) \in Seq(Nibbles) /\ Len(AsSeq(Shifted(ui))) = WordLength
          /\ \A i \in 1 .. WordLength :
               AsSeq(Shifted(ui))[i] = IF i = WordLength THEN ui.nibble ELSE write_buffer[i]
      <4> DEFINE word == AsSeq(Shifted(ui))
      <4>1. \A i \in 1 .. WordLength :
               /\ word[i] = (IF i = WordLength THEN ui.nibble ELSE write_buffer[i])
               /\ word[i] \in Nibbles
        BY <1>0 DEF Shifted, Word, AsSeq
      <4>2. word = [i \in 1 .. WordLength |-> word[i]]
        BY DEF AsSeq
      <4> HIDE DEF word
      <4>3. word \in Seq(Nibbles) /\ Len(word) = WordLength
        BY <4>1, <4>2
      <4> QED
        BY <4>1, <4>3 DEF word
    <3>3. ASSUME NEW i \in 1 .. WordLength
          PROVE  AsSeq(Shifted(ui))[i] = whole[i]
      <4>1. CASE i = WordLength
        BY <2>3, <2>4, <3>2, <4>1
      <4>2. CASE i # WordLength
        <5>1. i \in 1 .. write_index /\ WordLength - write_index + i - 1 = i
          BY <2>4, <4>2
        <5>2. whole[i] = Partial[i] /\ Partial[i] = write_buffer[WordLength - write_index + i - 1]
          BY <1>a, <2>3, <5>1
        <5> QED
          BY <3>2, <4>2, <5>1, <5>2
      <4> QED
        BY <4>1, <4>2
    <3>4. Len(whole) = WordLength
      BY <2>3, <2>4
    <3>5. AsSeq(Shifted(ui)) = whole
      BY <2>3, <3>2, <3>3, <3>4, SeqEqual
    <3> QED
      BY <1>0, <1>3, <3>1, <3>4, <3>5 DEF Abstract!Gather, whole
  <2>5. CASE write_index # Last
    <3>1. write_index' = write_index + 1 /\ written' = << >>
      BY <2>2, <2>5 DEF write
    <3>2. /\ Partial' \in Seq(Nibbles) /\ Len(Partial') = write_index + 1
          /\ \A i \in 1 .. write_index + 1 :
               Partial'[i] = write_buffer'[WordLength - (write_index + 1) + i - 1]
      <4>1. /\ Partial' \in Seq(Nibbles) /\ Len(Partial') = write_index'
            /\ \A i \in 1 .. write_index' :
                 Partial'[i] = write_buffer'[WordLength - write_index' + i - 1]
        <5>1. write_index' \in Indices /\ write_buffer' \in Word
          BY <1>0 DEF TypeOK
        <5>2. Partial' = [i \in 1 .. write_index' |-> write_buffer'[WordLength - write_index' + i - 1]]
          BY DEF Partial
        <5> QED
          BY <5>1, <5>2, PartialValue
      <4> QED
        BY <3>1, <4>1
    <3>3. ASSUME NEW i \in 1 .. write_index + 1
          PROVE  Partial'[i] = whole[i]
      <4>1. Partial'[i] = write_buffer'[WordLength - (write_index + 1) + i - 1]
        BY <3>2
      <4>2. CASE i = write_index + 1
        <5>1. WordLength - (write_index + 1) + i - 1 = Last
          BY <1>0, <4>2
        <5> QED
          BY <1>0, <2>1, <2>3, <4>1, <4>2, <5>1 DEF Shifted
      <4>3. CASE i # write_index + 1
        <5> DEFINE j == WordLength - (write_index + 1) + i - 1
        <5>1. i \in 1 .. write_index
          BY <1>0, <4>3
        <5>2. j \in Indices /\ j # Last /\ j + 1 = WordLength - write_index + i - 1
          BY <1>0, <2>5, <5>1
        <5>3. whole[i] = Partial[i] /\ Partial[i] = write_buffer[WordLength - write_index + i - 1]
          BY <1>a, <2>3, <5>1
        <5>4. write_buffer'[j] = write_buffer[j + 1]
          BY <2>1, <5>2 DEF Shifted
        <5> QED
          BY <4>1, <5>2, <5>3, <5>4
      <4> QED
        BY <4>2, <4>3
    <3>4. Partial' = whole
      BY <2>3, <3>2, <3>3, SeqEqual
    <3>5. Len(whole) # WordLength
      BY <1>0, <2>3, <2>5
    <3> QED
      BY <1>0, <1>3, <3>1, <3>4, <3>5 DEF Abstract!Gather, whole
  <2> QED
    BY <2>4, <2>5
<1> QED
  BY <1>1, <1>2, <1>3

\* The read half offers them as the port of words does.
LEMMA OfferRefines ==
  ASSUME PortInv, PortInv', NEW ui \in UI, NEW valid \in BOOLEAN, NEW data \in Word,
         Present(ui, valid, data), taken' = read_word(ui)
  PROVE  /\ Changed(ui) => Offered' = << >> /\ taken' = FALSE
         /\ ~Changed(ui) => Abstract!Offer
<1>0. /\ presenting \in BOOLEAN /\ snapshot \in Word /\ read_index \in Indices
      /\ presenting' \in BOOLEAN /\ snapshot' \in Word /\ read_index' \in Indices
      /\ ui.read \in BOOLEAN
  BY DEF PortInv, TypeOK, UI
<1>1. CASE Changed(ui)
  <2>1. presenting' = FALSE /\ taken' = FALSE
    BY <1>1 DEF Present, read_word, ReadAccept
  <2> QED
    BY <1>1, <2>1 DEF Offered
<1>2. CASE ~Changed(ui) /\ ~presenting /\ valid
  <2>1. presenting' = TRUE /\ snapshot' = data /\ read_index' = 0 /\ taken' = FALSE
    BY <1>2 DEF Present, read_word, ReadAccept
  <2>2. Offered' = [i \in 1 .. WordLength |-> data[i - 1]]
    BY <2>1 DEF Offered
  <2>3. Offered = << >>
    BY <1>2 DEF Offered
  <2>4. Offered' \in [1 .. WordLength -> Nibbles]
    BY <2>2 DEF Word
  <2> QED
    BY <1>2, <2>1, <2>3, <2>4 DEF Abstract!Offer, Abstract!Words
<1>3. CASE ~Changed(ui) /\ ~(~presenting /\ valid) /\ ReadAccept(ui)
  <2>1. /\ read_index' = (read_index + 1) % WordLength
        /\ presenting' = (read_index # Last) /\ snapshot' = snapshot
        /\ presenting /\ taken' = (read_index = Last)
    BY <1>3 DEF Present, read_word, ReadAccept
  <2>2. read_index' = IF read_index = Last THEN 0 ELSE read_index + 1
    BY <1>0, <2>1, NextIndex
  <2>3. /\ Offered \in Seq(Nibbles) /\ Len(Offered) = WordLength - read_index
        /\ \A i \in 1 .. WordLength - read_index : Offered[i] = snapshot[read_index + i - 1]
    BY <1>0, <2>1, OfferedValue DEF Offered
  <2>4. Offered # << >>
    BY <1>0, <2>3
  <2>5. /\ Tail(Offered) \in Seq(Nibbles) /\ Len(Tail(Offered)) = WordLength - read_index - 1
        /\ \A i \in 1 .. WordLength - read_index - 1 : Tail(Offered)[i] = Offered[i + 1]
    BY <2>3, <2>4, HeadTailProperties
  <2>6. CASE read_index = Last
    <3>a. presenting' = FALSE /\ taken' = TRUE
      BY <2>1, <2>6, Zenon
    <3>b. Offered' = << >>
      BY <3>a DEF Offered
    <3>c. WordLength - read_index = 1
      BY <2>6
    <3>1. Offered' = << >> /\ taken' = TRUE /\ Len(Offered) = 1
      BY <2>3, <3>a, <3>b, <3>c
    <3>2. << >> \in Seq(Nibbles) /\ Len(<< >>) = 0 /\ Len(Tail(Offered)) = 0
      <4>1. WordLength - read_index - 1 = 0
        BY <1>0, <3>c
      <4>2. Len(Tail(Offered)) = 0
        BY <2>5, <4>1, Zenon
      <4> QED
        BY <4>2, EmptySeq
    <3> DEFINE rest == Tail(Offered)
    <3>d. rest \in Seq(Nibbles) /\ Len(rest) = 0
      BY <2>5, <3>2
    <3> HIDE DEF rest
    <3>e. \A i \in 1 .. Len(rest) : rest[i] = << >>[i]
      BY <3>d
    <3>f. rest = << >>
      BY <3>2, <3>d, <3>e, SeqEqual
    <3>3. Tail(Offered) = << >>
      BY <3>f DEF rest
    <3> QED
      BY <1>3, <2>4, <3>1, <3>3 DEF Abstract!Offer
  <2>7. CASE read_index # Last
    <3>1. read_index' = read_index + 1 /\ presenting' = TRUE /\ taken' = FALSE /\ Len(Offered) # 1
      <4>1. presenting' = TRUE /\ taken' = FALSE
        BY <2>1, <2>7, Zenon
      <4>2. read_index' = read_index + 1
        BY <2>2, <2>7
      <4>3. WordLength - read_index # 1
        BY <1>0, <2>7
      <4> QED
        BY <2>3, <4>1, <4>2, <4>3
    <3>2. Offered' = [i \in 1 .. WordLength - read_index' |-> snapshot'[read_index' + i - 1]]
      BY <3>1 DEF Offered
    <3>3. /\ Offered' \in Seq(Nibbles) /\ Len(Offered') = WordLength - read_index'
          /\ \A i \in 1 .. WordLength - read_index' : Offered'[i] = snapshot'[read_index' + i - 1]
      BY <1>0, <3>2, OfferedValue
    <3>4. ASSUME NEW i \in 1 .. WordLength - read_index - 1
          PROVE  Offered'[i] = Tail(Offered)[i]
      <4>1. i + 1 \in 1 .. WordLength - read_index /\ i \in 1 .. WordLength - read_index'
        BY <1>0, <3>1
      <4>2. Tail(Offered)[i] = Offered[i + 1] /\ Offered[i + 1] = snapshot[read_index + (i + 1) - 1]
        BY <2>3, <2>5, <4>1
      <4>3. Offered'[i] = snapshot'[read_index' + i - 1] /\ snapshot' = snapshot
        BY <2>1, <3>3, <4>1
      <4>4. read_index' + i - 1 = read_index + (i + 1) - 1
        BY <1>0, <3>1
      <4> QED
        BY <4>2, <4>3, <4>4
    <3>5. Len(Offered') = Len(Tail(Offered)) /\ Len(Offered') = WordLength - read_index - 1
      BY <1>0, <2>5, <3>1, <3>3
    <3>6. Offered' = Tail(Offered)
      BY <2>5, <3>3, <3>4, <3>5, SeqEqual
    <3> QED
      BY <1>3, <2>4, <3>1, <3>6 DEF Abstract!Offer
  <2> QED
    BY <2>6, <2>7
<1>4. CASE ~Changed(ui) /\ ~(~presenting /\ valid) /\ ~ReadAccept(ui)
  <2>1. UNCHANGED readVars /\ taken' = FALSE
    BY <1>4 DEF Present, read_word
  <2>2. Offered' = Offered
    BY <2>1 DEF Offered, readVars
  <2> QED
    BY <1>4, <2>1, <2>2 DEF Abstract!Offer
<1> QED
  BY <1>1, <1>2, <1>3, <1>4

(* The nibble port implements the word port: whatever the host's stalls    *)
(* and window changes, words are gathered and offered whole, in order, or  *)
(* forgotten by leaving the window (host.ml 10-11, 58-96).                 *)
THEOREM PortRefinesWordPort == Spec => ImplementsWordPort
<1>1. Init => Abstract!Init
  <2> SUFFICES ASSUME Init PROVE Abstract!Init
    OBVIOUS
  <2>1. Partial = << >> /\ Offered = << >>
    BY DEF Init, Partial, Offered
  <2> QED
    BY <2>1 DEF Init, Abstract!Init
<1>2. PortInv /\ PortInv' /\ [Next]_portVars => [Abstract!Next]_(Abstract!vars)
  <2> SUFFICES ASSUME PortInv, PortInv', [Next]_portVars
               PROVE  [Abstract!Next]_(Abstract!vars)
    OBVIOUS
  <2>1. CASE Clear
    <3>1. Partial' = << >> /\ Offered' = << >>
      BY <2>1 DEF Clear, Partial, Offered
    <3> QED
      BY <2>1, <3>1 DEF Clear, Abstract!Next, Abstract!Clear
  <2>2. ASSUME NEW ui \in UI, NEW ready \in BOOLEAN, NEW valid \in BOOLEAN, NEW data \in Word,
               Port(ui, ready, valid, data)
        PROVE  Abstract!Next
    <3>1. /\ Gather(ui, ready) /\ Present(ui, valid, data) /\ previous_window' = ui.window
          /\ written' = IF write(ui, ready) THEN AsSeq(Shifted(ui)) ELSE << >>
          /\ taken' = read_word(ui)
      BY <2>2 DEF Port
    <3>2. /\ Changed(ui) => Partial' = << >> /\ written' = << >>
          /\ ~Changed(ui) => Abstract!Gather
      BY <3>1, GatherRefines
    <3>3. /\ Changed(ui) => Offered' = << >> /\ taken' = FALSE
          /\ ~Changed(ui) => Abstract!Offer
      BY <3>1, OfferRefines
    <3>4. CASE Changed(ui)
      <4>1. previous_window' \in (0 .. 3) \ {previous_window}
        BY <3>1, <3>4 DEF Changed, UI
      <4> QED
        BY <3>2, <3>3, <3>4, <4>1 DEF Abstract!Next, Abstract!Leave
    <3>5. CASE ~Changed(ui)
      <4>1. previous_window' = previous_window
        BY <3>1, <3>5 DEF Changed
      <4> QED
        BY <3>2, <3>3, <3>5, <4>1 DEF Abstract!Next, Abstract!Stay
    <3> QED
      BY <3>4, <3>5
  <2>3. ASSUME NEW ui \in UI, NEW ready \in Ready(ui.window), NEW valid \in Valid(ui.window),
               IF valid THEN \E data \in Word : Port(ui, ready, valid, data)
                        ELSE Port(ui, ready, valid, snapshot)
        PROVE  Abstract!Next
    <3>1. ready \in BOOLEAN /\ valid \in BOOLEAN
      BY DEF Ready, Valid
    <3>2. snapshot \in Word
      BY DEF PortInv, TypeOK
    <3> QED
      BY <2>2, <2>3, <3>1, <3>2
  <2>4. CASE UNCHANGED portVars
    BY <2>4 DEF portVars, bufferVars, readVars, Abstract!vars, Partial, Offered
  <2> QED
    BY <2>1, <2>3, <2>4 DEF Next
<1> QED
  BY <1>1, <1>2, PortCorrect, PTL DEF Spec, ImplementsWordPort, Abstract!Spec

-----------------------------------------------------------------------------
(* The library and the port.  The inductive invariant says, for every call,*)
(* what is left of its plan, that the nibbles counted by the library are   *)
(* those counted by the chip, and how the words of the call stand.         *)
Calls ==
  {NoCall} \cup [op : {"write", "command"}, word : Word] \cup [op : {"read"}]
           \cup [op : {"read_status"}, index : Nibbles]

HeadShown == presenting /\ previous_window = 3 => rx # << >> /\ snapshot = Head(rx)

ChipOK ==
  /\ PortInv /\ HeadShown
  /\ rx \in Seq(Word) /\ rsel \in Nibbles
  /\ hostFault \in BOOLEAN /\ engineFault \in BOOLEAN /\ accepted \in BOOLEAN

\* A status is a word.
LEMMA StatusWords ==
  ASSUME NEW i \in Nibbles, NEW live \in BOOLEAN
  PROVE  StatusWord(i, live) \in Word
  BY PortAssumption, LinkAssumption DEF StatusWord, Word

\* A word a status of index i was at one of these edges.
StatusSeen(word, i, lives) == \E live \in lives : word = StatusWord(i, live)

\* So is the command that selects it.
LEMMA SelectWords ==
  ASSUME NEW i \in Nibbles
  PROVE  /\ ReadSelectWord(i) \in Word /\ IsReadSelect(ReadSelectWord(i))
         /\ ReadSelectWord(i)[0] = i
<1>1. 0 \in Indices /\ Last \in Indices /\ 0 # Last
  OBVIOUS
<1> QED
  BY <1>1, LinkAssumption DEF ReadSelectWord, IsReadSelect, Word

(* One edge of the chip, whatever the host drives.                         *)
LEMMA ChipPort ==
  ASSUME ChipOK, NEW ui \in UI, NEW ready \in BOOLEAN, Chip(ui, ready)
  PROVE  /\ PortInv' /\ previous_window' = ui.window
         /\ Gather(ui, ready) /\ taken' = read_word(ui)
         /\ \E live \in BOOLEAN :
              /\ Port(ui, ready, RxValid(ui), ReadData(ui, live))
              /\ Present(ui, RxValid(ui), ReadData(ui, live))
              /\ ReadData(ui, live) \in Word
              /\ ~write(ui, ready) => since' = since \cup {live}
<1>1. PICK live \in BOOLEAN :
        /\ Port(ui, ready, RxValid(ui), ReadData(ui, live))
        /\ ~write(ui, ready) => since' = since \cup {live}
  BY DEF Chip
<1>4. RxValid(ui) \in BOOLEAN /\ (RxValid(ui) => ui.window \in {0, 3})
  BY DEF RxValid
<1>2. ReadData(ui, live) \in Word
  <2>1. rx # << >> => Head(rx) \in Word
    BY DEF ChipOK
  <2> QED
    BY <2>1, StatusWords DEF ReadData, ChipOK
<1>3. PortInv'
  BY <1>1, <1>2, <1>4, PortEdge DEF ChipOK
<1> QED
  BY <1>1, <1>2, <1>3 DEF Port

\* The chip's RX queue loses its head only to a read.
LEMMA ChipQueue ==
  ASSUME ChipOK, NEW ui \in UI, NEW ready \in BOOLEAN, Chip(ui, ready)
  PROVE  /\ rx' \in Seq(Word)
         /\ ui.window = 3 /\ ~Changed(ui) /\ ~read_word(ui) /\ rx # << >> =>
              rx' # << >> /\ Head(rx') = Head(rx)
<1> DEFINE rests == IF read_word(ui) /\ ui.window = 3 THEN {Tail(rx)}
                    ELSE IF rx # << >> /\ ~read_lock(ui) THEN {rx, Tail(rx)} ELSE {rx}
<1>1. PICK rest \in rests :
        \/ rx' = rest
        \/ Len(rx) < RxDepth /\ \E word \in RxWords : rx' = Append(rest, word)
  BY DEF Chip, Queue
<1>2. read_word(ui) => presenting /\ ui.window = previous_window
  BY DEF read_word, ReadAccept, Changed
<1>3. rx \in Seq(Word) /\ (read_word(ui) /\ ui.window = 3 => rx # << >>)
  BY <1>2 DEF ChipOK, HeadShown
<1>4. rest \in Seq(Word)
  <2>1. rx # << >> => Tail(rx) \in Seq(Word)
    BY <1>3
  <2> QED
    BY <1>3, <2>1
<1>5. rx' = rest \/ \E word \in Word : rx' = Append(rest, word)
  BY <1>1, LinkAssumption
<1>6. rx' \in Seq(Word)
  BY <1>4, <1>5
<1>7. ASSUME ui.window = 3, ~Changed(ui), ~read_word(ui), rx # << >>
      PROVE  rx' # << >> /\ Head(rx') = Head(rx)
  <2>1. rest = rx
    BY <1>7 DEF read_lock
  <2>2. ASSUME NEW word \in Word
        PROVE  Append(rx, word) # << >> /\ Head(Append(rx, word)) = Head(rx)
    <3>1. Len(rx) \in Nat /\ Len(rx) # 0
      BY <1>3, <1>7
    <3> QED
      BY <1>3, <3>1
  <2> QED
    BY <1>5, <1>7, <2>1, <2>2
<1> QED
  BY <1>6, <1>7

\* An edge of the chip keeps its state sound.
LEMMA ChipKeeps ==
  ASSUME ChipOK, NEW ui \in UI, NEW ready \in BOOLEAN, Chip(ui, ready)
  PROVE  ChipOK'
<1>1. PICK live \in BOOLEAN :
        /\ PortInv' /\ previous_window' = ui.window /\ taken' = read_word(ui)
        /\ Present(ui, RxValid(ui), ReadData(ui, live))
  BY ChipPort
<1>2. rx' \in Seq(Word)
  BY ChipQueue
<1>3. rsel' \in Nibbles
  <2>1. ui.nibble \in Nibbles /\ write_buffer \in Word
    BY DEF UI, ChipOK, PortInv, TypeOK
  <2>2. Shifted(ui)[0] \in Nibbles
    BY <2>1 DEF Shifted, Word
  <2> QED
    BY <2>2 DEF Chip, Command, ChipOK
<1>4. hostFault' \in BOOLEAN /\ engineFault' \in BOOLEAN /\ accepted' \in BOOLEAN
  BY DEF Chip, Command, ChipOK
<1>5. HeadShown'
  <2> SUFFICES ASSUME presenting', ui.window = 3
               PROVE  rx' # << >> /\ snapshot' = Head(rx')
    BY <1>1 DEF HeadShown
  <2>1. presenting \in BOOLEAN /\ ~Changed(ui)
    BY <1>1 DEF Present, ChipOK, PortInv, TypeOK
  <2>2. CASE presenting
    <3>1. ~read_word(ui) /\ snapshot' = snapshot
      BY <1>1, <2>1, <2>2 DEF Present, read_word, ReadAccept, readVars
    <3>2. rx # << >> /\ snapshot = Head(rx)
      BY <2>1, <2>2 DEF ChipOK, HeadShown, Changed
    <3> QED
      BY <2>1, <3>1, <3>2, ChipQueue
  <2>3. CASE ~presenting
    <3>1. RxValid(ui) /\ snapshot' = ReadData(ui, live) /\ ~read_word(ui)
      BY <1>1, <2>1, <2>3 DEF Present, read_word, ReadAccept, readVars
    <3>2. rx # << >> /\ snapshot' = Head(rx)
      BY <3>1 DEF RxValid, ReadData
    <3> QED
      BY <2>1, <3>1, <3>2, ChipQueue
  <2> QED
    BY <2>1, <2>2, <2>3
<1> QED
  BY <1>1, <1>2, <1>3, <1>4, <1>5 DEF ChipOK

(* An edge on which the window changes, or on which nothing is strobed.    *)
LEMMA BubbleEdge ==
  ASSUME ChipOK, NEW ui \in UI, NEW ready \in BOOLEAN, Chip(ui, ready), Changed(ui)
  PROVE  /\ write_index' = 0 /\ read_index' = 0 /\ ~presenting'
         /\ UNCHANGED seenVars /\ rsel' = rsel /\ hostFault' = hostFault
         /\ since \subseteq since'
<1>2. ~write(ui, ready) /\ ~read_word(ui)
  BY DEF write, WriteAccept, read_word, ReadAccept
<1>1. PICK live \in BOOLEAN :
        /\ Gather(ui, ready) /\ Present(ui, RxValid(ui), ReadData(ui, live))
        /\ since' = since \cup {live}
  BY <1>2, ChipPort
<1> QED
  BY <1>1, <1>2 DEF Gather, Present, Chip, Command, seenVars

\* An edge without a write leaves the write half alone.
LEMMA UnwrittenEdge ==
  ASSUME ChipOK, NEW ui \in UI, NEW ready \in BOOLEAN, Chip(ui, ready), ~Changed(ui),
         ~(ready /\ ui.write)
  PROVE  /\ write_index' = write_index /\ write_buffer' = write_buffer
         /\ sentWords' = sentWords /\ accepted' = accepted
         /\ rsel' = rsel /\ hostFault' = hostFault
<1>1. Gather(ui, ready) /\ ~WriteAccept(ui, ready)
  BY ChipPort DEF WriteAccept
<1> QED
  BY <1>1 DEF Gather, bufferVars, write, Chip, Command

\* An edge without a read leaves the offered word.
LEMMA UnreadEdge ==
  ASSUME ChipOK, NEW ui \in UI, NEW ready \in BOOLEAN, Chip(ui, ready), ~Changed(ui),
         ~(presenting /\ ui.read)
  PROVE  /\ read_index' = read_index /\ popped' = popped
         /\ presenting => presenting' /\ snapshot' = snapshot
         /\ ~ui.write => since \subseteq since'
         /\ ~ui.write /\ ~presenting /\ presenting' /\ ui.window = 0 =>
              StatusSeen(snapshot', rsel, since')
<1>1. PICK live \in BOOLEAN :
        /\ Present(ui, RxValid(ui), ReadData(ui, live)) /\ ~ReadAccept(ui) /\ ~read_word(ui)
        /\ ~write(ui, ready) => since' = since \cup {live}
  BY ChipPort DEF ReadAccept, read_word
<1>3. ~ui.write => ~write(ui, ready)
  BY DEF write, WriteAccept
<1>2. ~presenting => read_index = 0
  BY DEF ChipOK, PortInv, OfferedFromWindow
<1>4. /\ read_index' = read_index /\ popped' = popped
      /\ presenting => presenting' /\ snapshot' = snapshot
  BY <1>1, <1>2 DEF Present, readVars, Chip
<1>5. ASSUME ~ui.write
      PROVE  since' = since \cup {live}
  BY <1>1, <1>3, <1>5
<1>6. ASSUME ~ui.write, ~presenting, presenting', ui.window = 0
      PROVE  StatusSeen(snapshot', rsel, since')
  <2>1. presenting \in BOOLEAN
    BY DEF ChipOK, PortInv, TypeOK
  <2>2. snapshot' = ReadData(ui, live)
    BY <1>1, <1>6, <2>1 DEF Present, readVars
  <2>3. snapshot' = StatusWord(rsel, live)
    BY <1>6, <2>2 DEF ReadData
  <2> QED
    BY <1>5, <1>6, <2>3 DEF StatusSeen
<1> QED
  BY <1>4, <1>5, <1>6

(* An edge on which a nibble passes.                                       *)
LEMMA WrittenEdge ==
  ASSUME ChipOK, NEW ui \in UI, NEW ready \in BOOLEAN, Chip(ui, ready), ~Changed(ui),
         ready, ui.write
  PROVE  /\ write_index' = IF write_index = Last THEN 0 ELSE write_index + 1
         /\ write_buffer' = Shifted(ui)
         /\ write_index # Last => /\ sentWords' = sentWords /\ accepted' = accepted
                                  /\ rsel' = rsel /\ hostFault' = hostFault
         /\ write_index = Last =>
              /\ sentWords' = IF ui.window \in {1, 2} THEN Append(sentWords, Shifted(ui))
                              ELSE sentWords
              /\ ui.window = 0 /\ IsReadSelect(Shifted(ui)) =>
                   rsel' = Shifted(ui)[0] /\ accepted'
              /\ ui.window = 0 /\ ~IsReadSelect(Shifted(ui)) => accepted' \/ hostFault'
<1>1. Gather(ui, ready) /\ WriteAccept(ui, ready)
  BY ChipPort DEF WriteAccept
<1>2. write_index \in Indices
  BY DEF ChipOK, PortInv, TypeOK
<1>3. write_index' = (write_index + 1) % WordLength /\ write_buffer' = Shifted(ui)
  BY <1>1 DEF Gather
<1>4. write_index' = IF write_index = Last THEN 0 ELSE write_index + 1
  BY <1>2, <1>3, NextIndex
<1>5. CASE write_index # Last
  <2>1. ~write(ui, ready)
    BY <1>5 DEF write
  <2> QED
    BY <1>3, <1>4, <1>5, <2>1 DEF Chip, Command
<1>6. CASE write_index = Last
  <2>1. write(ui, ready)
    BY <1>1, <1>6 DEF write
  <2> QED
    BY <1>3, <1>4, <1>6, <2>1 DEF Chip, Command
<1> QED
  BY <1>5, <1>6

\* What a read does.
LEMMA ReadEdge ==
  ASSUME ChipOK, NEW ui \in UI, NEW ready \in BOOLEAN, Chip(ui, ready), ~Changed(ui),
         presenting, ui.read
  PROVE  /\ read_index' = IF read_index = Last THEN 0 ELSE read_index + 1
         /\ snapshot' = snapshot
         /\ read_index # Last => presenting' /\ popped' = popped
         /\ read_index = Last =>
              popped' = IF ui.window = 3 THEN Append(popped, snapshot) ELSE popped
         /\ ~ui.write => since \subseteq since'
<1>1. PICK live \in BOOLEAN :
        /\ Present(ui, RxValid(ui), ReadData(ui, live)) /\ ReadAccept(ui)
        /\ ~write(ui, ready) => since' = since \cup {live}
  BY ChipPort DEF ReadAccept
<1>7. ~ui.write => ~write(ui, ready)
  BY DEF write, WriteAccept
<1>8. popped' = IF read_word(ui) /\ ui.window = 3 THEN Append(popped, Head(rx)) ELSE popped
  BY DEF Chip
<1>9. ~ui.write => since \subseteq since'
  BY <1>1, <1>7
<1>2. read_index \in Indices
  BY DEF ChipOK, PortInv, TypeOK
<1>3. /\ read_index' = (read_index + 1) % WordLength /\ snapshot' = snapshot
      /\ presenting' = (read_index # Last)
  BY <1>1 DEF Present
<1>4. read_index' = IF read_index = Last THEN 0 ELSE read_index + 1
  BY <1>2, <1>3, NextIndex
<1>5. CASE read_index # Last
  <2>1. ~read_word(ui) /\ presenting'
    BY <1>3, <1>5 DEF read_word
  <2> QED
    BY <1>3, <1>4, <1>5, <1>8, <1>9, <2>1
<1>6. CASE read_index = Last
  <2>1. read_word(ui)
    BY <1>1, <1>6 DEF read_word
  <2>2. ui.window = 3 => snapshot = Head(rx)
    BY DEF ChipOK, HeadShown, Changed
  <2> QED
    BY <1>3, <1>4, <1>6, <1>8, <1>9, <2>1, <2>2
<1> QED
  BY <1>5, <1>6

-----------------------------------------------------------------------------
(* What the current call still has to do.                                  *)
SelectFirst == <<WritePrimitive(0, ReadSelectWord(call.index), WordLength), Visit(1),
                 ReadPrimitive(0, WordLength)>>
VisitNext   == <<Visit(1), ReadPrimitive(0, WordLength)>>
ReadLast    == <<ReadPrimitive(0, WordLength)>>
Planned ==
  plan # << >> =>
    \/ call.op = "write" /\ \E window \in {1, 2}, nibbles \in 1 .. WordLength :
                               plan = <<WritePrimitive(window, call.word, nibbles)>>
    \/ call.op = "read" /\ \E nibbles \in 1 .. WordLength : plan = <<ReadPrimitive(3, nibbles)>>
    \/ call.op = "command" /\ plan = <<WritePrimitive(0, call.word, WordLength)>>
    \/ call.op = "read_status" /\ plan \in {SelectFirst, VisitNext, ReadLast}

Doing(kind, where) == plan # << >> /\ Current.kind = kind /\ phase = where

(* The library enters the window a primitive needs first, and only then    *)
(* counts nibbles.                                                         *)
Entered ==
  plan # << >> =>
    /\ outcome = "busy"
    /\ phase = "enter" <=> hostWindow # Current.window
    /\ phase = "enter" => n = 0
    /\ Current.kind = "visit" => phase = "enter"
    /\ phase = "nibble" => n < Current.nibbles
    /\ phase = "after" => Current.kind = "write" /\ Current.nibbles = WordLength

(* The nibbles of the library and of the chip are in step.                 *)
WriteInStep ==
  /\ Doing("write", "nibble") =>
       /\ write_index = n
       /\ \A i \in 0 .. n - 1 : write_buffer[WordLength - n + i] = Current.word[i]
  /\ plan = << >> \/ phase = "after" \/ Current.kind = "read" => write_index = 0
ReadInStep ==
  /\ Doing("read", "nibble") =>
       /\ read_index = n /\ result \in Seq(Nibbles) /\ Len(result) = n
       /\ \A i \in 1 .. n : result[i] = snapshot[i - 1]
  /\ plan = << >> \/ Current.kind = "write" => read_index = 0
  /\ plan # << >> /\ (phase = "enter" \/ Current.kind = "write") => result = << >>

StatusShown ==
  call.op = "read_status" /\ plan # << >> =>
    /\ Current.kind # "write" \/ phase = "after" => rsel = call.index
    /\ Doing("read", "nibble") /\ presenting => StatusSeen(snapshot, rsel, since)

(* How the words of a call stand, and how it may end.                      *)
WordSent ==
  /\ call.op # "write" => sentWords = << >>
  /\ call.op = "write" /\ plan # << >> =>
       sentWords = IF phase = "after" THEN <<call.word>> ELSE << >>
  /\ call.op = "write" /\ plan = << >> =>
       \/ outcome = "done" /\ sentWords = <<call.word>>
       \/ outcome = "timeout" /\ sentWords = << >>
WordPopped ==
  /\ call.op # "read" \/ plan # << >> => popped = << >>
  /\ call.op = "read" /\ plan = << >> =>
       \/ outcome = "done" /\ \E word \in Word : popped = <<word>> /\ result = AsSeq(word)
       \/ outcome = "timeout" /\ popped = << >>
StatusGot ==
  call.op = "read_status" /\ plan = << >> =>
    \/ outcome = "timeout"
    \/ \E live \in since : result = AsSeq(StatusWord(call.index, live))
Judged ==
  call.op = "command" =>
    /\ plan # << >> => verdict = "unknown"
    /\ plan # << >> /\ phase = "after" => accepted \/ (hostFault /\ ~IsReadSelect(call.word))
    /\ plan = << >> /\ verdict = "ok" => accepted

LinkTypeOK ==
  /\ ChipOK /\ hostWindow = previous_window
  /\ call \in Calls /\ n \in Nat /\ phase \in {"enter", "nibble", "after", "bounce"}

LinkInv ==
  /\ LinkTypeOK /\ Planned /\ Entered /\ WriteInStep /\ ReadInStep /\ StatusShown
  /\ WordSent /\ WordPopped /\ StatusGot /\ Judged

(* What the first primitive of a plan is, and what follows it.             *)
LEMMA PlanShape ==
  ASSUME LinkTypeOK, Planned, plan # << >>
  PROVE  /\ call.op \in {"write", "read", "command", "read_status"}
         /\ Current.window \in Windows /\ Current.kind \in {"write", "read", "visit"}
         /\ Current.kind = "write" => Current.nibbles \in 1 .. WordLength /\ Current.word \in Word
         /\ Current.kind = "read" => Current.nibbles \in 1 .. WordLength
         /\ call.op = "write" =>
              /\ Current.kind = "write" /\ Current.window \in {1, 2} /\ Current.word = call.word
              /\ Len(plan) = 1 /\ Tail(plan) = << >>
         /\ call.op = "read" =>
              /\ Current.kind = "read" /\ Current.window = 3
              /\ Len(plan) = 1 /\ Tail(plan) = << >>
         /\ call.op = "command" =>
              /\ Current.kind = "write" /\ Current.window = 0 /\ Current.word = call.word
              /\ Len(plan) = 1 /\ Tail(plan) = << >>
         /\ call.op = "read_status" =>
              /\ call.index \in Nibbles
              /\ Current.kind = "write" =>
                   /\ Current.window = 0 /\ Current.word = ReadSelectWord(call.index)
                   /\ Current.nibbles = WordLength
                   /\ Len(plan) = 3 /\ plan[2].window = 1 /\ Tail(plan) = VisitNext
              /\ Current.kind = "visit" =>
                   /\ Current.window = 1
                   /\ Len(plan) = 2 /\ plan[2].window = 0 /\ Tail(plan) = ReadLast
              /\ Current.kind = "read" =>
                   /\ Current.window = 0 /\ Current.nibbles = WordLength
                   /\ Len(plan) = 1 /\ Tail(plan) = << >>
<1> USE DEF WritePrimitive, ReadPrimitive, Visit
<1>1. CASE call.op = "write"
  <2>1. PICK window \in {1, 2}, nibbles \in 1 .. WordLength :
          plan = <<WritePrimitive(window, call.word, nibbles)>>
    BY <1>1 DEF Planned
  <2>2. call.word \in Word
    BY <1>1 DEF LinkTypeOK, Calls, NoCall
  <2>3. Current = WritePrimitive(window, call.word, nibbles) /\ Len(plan) = 1 /\ Tail(plan) = << >>
    BY <2>1 DEF Current
  <2> QED
    BY <1>1, <2>2, <2>3
<1>2. CASE call.op = "read"
  <2>1. PICK nibbles \in 1 .. WordLength : plan = <<ReadPrimitive(3, nibbles)>>
    BY <1>2 DEF Planned
  <2>2. Current = ReadPrimitive(3, nibbles) /\ Len(plan) = 1 /\ Tail(plan) = << >>
    BY <2>1 DEF Current
  <2> QED
    BY <1>2, <2>2
<1>3. CASE call.op = "command"
  <2>1. plan = <<WritePrimitive(0, call.word, WordLength)>>
    BY <1>3 DEF Planned
  <2>2. call.word \in Word
    BY <1>3 DEF LinkTypeOK, Calls, NoCall
  <2>3. Current = WritePrimitive(0, call.word, WordLength) /\ Len(plan) = 1 /\ Tail(plan) = << >>
    BY <2>1 DEF Current
  <2> QED
    BY <1>3, <2>2, <2>3
<1>4. CASE call.op = "read_status"
  <2>1. call.index \in Nibbles
    BY <1>4 DEF LinkTypeOK, Calls, NoCall
  <2>2. ReadSelectWord(call.index) \in Word
    BY <2>1, SelectWords
  <2>3. CASE plan = SelectFirst
    <3>1. /\ Current = WritePrimitive(0, ReadSelectWord(call.index), WordLength)
          /\ Len(plan) = 3 /\ plan[2] = Visit(1) /\ Tail(plan) = VisitNext
      BY <2>3 DEF Current, SelectFirst, VisitNext
    <3> QED
      BY <1>4, <2>1, <2>2, <3>1
  <2>4. CASE plan = VisitNext
    <3>1. /\ Current = Visit(1)
          /\ Len(plan) = 2 /\ plan[2] = ReadPrimitive(0, WordLength) /\ Tail(plan) = ReadLast
      BY <2>4 DEF Current, VisitNext, ReadLast
    <3> QED
      BY <1>4, <2>1, <3>1
  <2>5. CASE plan = ReadLast
    <3>1. Current = ReadPrimitive(0, WordLength) /\ Len(plan) = 1 /\ Tail(plan) = << >>
      BY <2>5 DEF Current, ReadLast
    <3> QED
      BY <1>4, <2>1, <3>1
  <2> QED
    BY <1>4, <2>3, <2>4, <2>5 DEF Planned
<1> QED
  BY <1>1, <1>2, <1>3, <1>4 DEF Planned

(* A cycle that strobes nothing, in whatever window the library moves to.  *)
LEMMA RestEdge ==
  ASSUME LinkInv, NEW w \in Windows, NEW ready \in BOOLEAN, Chip(Resting(w), ready),
         hostWindow' = w
  PROVE  /\ ChipOK' /\ hostWindow' = previous_window'
         /\ UNCHANGED seenVars /\ rsel' = rsel /\ hostFault' = hostFault
         /\ since \subseteq since'
         /\ w # hostWindow => write_index' = 0 /\ read_index' = 0 /\ ~presenting'
         /\ w = hostWindow =>
              /\ write_index' = write_index /\ write_buffer' = write_buffer
              /\ read_index' = read_index
              /\ presenting => presenting' /\ snapshot' = snapshot
              /\ ~presenting /\ presenting' /\ w = 0 => StatusSeen(snapshot', rsel, since')
<1> DEFINE ui == Resting(w)
<1>1. /\ ui \in UI /\ ui.window = w /\ ~ui.write /\ ~ui.read
  BY PortAssumption DEF Resting, Driven, UI
<1>2. ChipOK /\ hostWindow = previous_window
  BY DEF LinkInv, LinkTypeOK
<1>3. Changed(ui) <=> w # hostWindow
  BY <1>1, <1>2 DEF Changed
<1>4. Chip(ui, ready)
  OBVIOUS
<1> HIDE DEF ui
<1>5. ChipOK' /\ previous_window' = w
  BY <1>1, <1>2, <1>4, ChipKeeps, ChipPort
<1>6. CASE w # hostWindow
  BY <1>1, <1>2, <1>3, <1>4, <1>5, <1>6, BubbleEdge
<1>7. CASE w = hostWindow
  <2>1. /\ write_index' = write_index /\ write_buffer' = write_buffer
        /\ sentWords' = sentWords /\ accepted' = accepted
        /\ rsel' = rsel /\ hostFault' = hostFault
    BY <1>1, <1>2, <1>3, <1>4, <1>7, UnwrittenEdge
  <2>2. /\ read_index' = read_index /\ popped' = popped
        /\ presenting => presenting' /\ snapshot' = snapshot
        /\ since \subseteq since'
        /\ ~presenting /\ presenting' /\ w = 0 => StatusSeen(snapshot', rsel, since')
    BY <1>1, <1>2, <1>3, <1>4, <1>7, UnreadEdge
  <2> QED
    BY <1>5, <1>7, <2>1, <2>2 DEF seenVars
<1> QED
  BY <1>6, <1>7

(* The plan of a call that goes on with its first primitive.               *)
LEMMA SamePlan ==
  ASSUME LinkInv, plan' = plan, call' = call
  PROVE  Planned' /\ Current' = Current
  BY DEF LinkInv, Planned, SelectFirst, VisitNext, ReadLast, Current

\* Entering a window keeps the link's invariant.
LEMMA EnterKeeps ==
  ASSUME LinkInv, EnterCycle
  PROVE  LinkInv'
<1> DEFINE w == Current.window
<1>1. /\ plan # << >> /\ phase = "enter" /\ hostWindow' = w
      /\ result' = result /\ call' = call /\ verdict' = verdict
  BY DEF EnterCycle
<1>2. LinkTypeOK /\ Planned /\ Entered
  BY DEF LinkInv
<1>3. /\ w \in Windows /\ w # hostWindow /\ n = 0 /\ outcome = "busy"
      /\ Current.kind \in {"write", "read", "visit"}
  BY <1>1, <1>2, PlanShape DEF Entered
<1>4. PICK ready \in BOOLEAN : Chip(Resting(w), ready)
  BY DEF EnterCycle
<1>5. /\ ChipOK' /\ hostWindow' = previous_window'
      /\ sentWords' = sentWords /\ popped' = popped /\ accepted' = accepted
      /\ rsel' = rsel /\ hostFault' = hostFault
      /\ write_index' = 0 /\ read_index' = 0 /\ ~presenting'
  BY <1>1, <1>3, <1>4, RestEdge DEF seenVars
<1>6. /\ result = << >>
      /\ sentWords = << >>
      /\ popped = << >>
      /\ call.op = "command" => verdict = "unknown"
      /\ call.op = "read_status" /\ Current.kind # "write" => rsel = call.index
  BY <1>1 DEF LinkInv, ReadInStep, WordSent, WordPopped, Judged, StatusShown
<1> HIDE DEF w
<1>7. CASE Current.kind = "visit"
  <2>1. /\ call.op = "read_status" /\ Len(plan) = 2 /\ plan[2].window = 0 /\ w = 1
        /\ Tail(plan) = ReadLast
    BY <1>1, <1>2, <1>7, PlanShape DEF w
  <2>2. /\ n' = 0 /\ plan' = Tail(plan) /\ outcome' = "busy" /\ phase' = "enter"
    BY <1>7, <2>1 DEF EnterCycle, Finish, w
  <2>3. plan' = ReadLast /\ ReadLast' = ReadLast /\ ReadLast # << >>
    BY <2>1, <2>2 DEF ReadLast
  <2>4. Current' = ReadPrimitive(0, WordLength)
    BY <2>3 DEF Current, ReadLast
  <2>5. Current'.kind = "read" /\ Current'.window = 0
    BY <2>4 DEF ReadPrimitive
  <2>6. LinkTypeOK'
    BY <1>1, <1>2, <1>5, <2>2 DEF LinkTypeOK, Calls
  <2>7. Planned'
    BY <1>1, <2>1, <2>3 DEF Planned
  <2>8. Entered'
    BY <1>1, <2>1, <2>2, <2>3, <2>5 DEF Entered
  <2>9. WriteInStep' /\ ReadInStep'
    BY <1>1, <1>5, <1>6, <2>2, <2>5 DEF WriteInStep, ReadInStep, Doing
  <2>10. StatusShown' /\ WordSent' /\ WordPopped' /\ StatusGot' /\ Judged'
    BY <1>1, <1>5, <1>6, <1>7, <2>1, <2>2, <2>3, <2>5
       DEF StatusShown, Doing, WordSent, WordPopped, StatusGot, Judged
  <2> QED
    BY <2>6, <2>7, <2>8, <2>9, <2>10 DEF LinkInv
<1>8. CASE Current.kind # "visit"
  <2>1. phase' = "nibble" /\ plan' = plan /\ n' = n /\ outcome' = outcome
    BY <1>8 DEF EnterCycle
  <2>2. Planned' /\ Current' = Current
    BY <1>1, <2>1, SamePlan
  <2>3. Current.nibbles \in 1 .. WordLength
    BY <1>1, <1>2, <1>3, <1>8, PlanShape
  <2>4. LinkTypeOK'
    BY <1>1, <1>2, <1>5, <2>1 DEF LinkTypeOK, Calls
  <2>5. Entered'
    BY <1>1, <1>3, <1>8, <2>1, <2>2, <2>3 DEF Entered, w
  <2>6. WriteInStep' /\ ReadInStep'
    <3>1. << >> \in Seq(Nibbles) /\ Len(<< >>) = 0
      OBVIOUS
    <3> QED
      BY <1>1, <1>3, <1>5, <1>6, <2>1, <2>2, <3>1 DEF WriteInStep, ReadInStep, Doing
  <2>7. StatusShown'
    BY <1>1, <1>5, <1>6, <2>1, <2>2 DEF StatusShown, Doing
  <2>8. WordSent' /\ WordPopped' /\ StatusGot' /\ Judged'
    BY <1>1, <1>5, <1>6, <2>1 DEF WordSent, WordPopped, StatusGot, Judged
  <2> QED
    BY <2>2, <2>4, <2>5, <2>6, <2>7, <2>8 DEF LinkInv
<1> QED
  BY <1>7, <1>8

\* So does a cycle of a write,
LEMMA WriteKeeps ==
  ASSUME LinkInv, WriteCycle
  PROVE  LinkInv'
<1> DEFINE ui == Driven(Current.window, TRUE, FALSE, Current.word[n])
           w  == Current.window
<1>1. /\ plan # << >> /\ phase = "nibble" /\ Current.kind = "write"
      /\ hostWindow' = hostWindow /\ result' = result /\ call' = call /\ verdict' = verdict
  BY DEF WriteCycle
<1>2. LinkTypeOK /\ Planned /\ Entered
  BY DEF LinkInv
<1>3. /\ Current.nibbles \in 1 .. WordLength /\ Current.word \in Word /\ w \in Windows
      /\ w = hostWindow /\ n < Current.nibbles /\ n \in Nat /\ outcome = "busy"
      /\ ChipOK /\ hostWindow = previous_window
  BY <1>1, <1>2, PlanShape DEF Entered, LinkTypeOK
<1>4. n \in Indices /\ Current.word[n] \in Nibbles
  <2>1. n \in Indices
    BY <1>3
  <2> QED
    BY <1>3, <2>1 DEF Word
<1>5. /\ ui \in UI /\ ui.window = w /\ ui.write /\ ~ui.read /\ ui.nibble = Current.word[n]
  BY <1>3, <1>4 DEF Driven, UI
<1>6. ~Changed(ui)
  BY <1>3, <1>5 DEF Changed
<1>7. PICK ready \in BOOLEAN : Chip(ui, ready) /\ IF SeesReady(ui, ready) THEN Advance ELSE Stall
  BY DEF WriteCycle
<1>8. /\ write_index = n /\ read_index = 0 /\ result = << >>
      /\ \A i \in 0 .. n - 1 : write_buffer[WordLength - n + i] = Current.word[i]
      /\ sentWords = << >>
      /\ popped = << >>
      /\ call.op = "command" => verdict = "unknown"
  BY <1>1 DEF LinkInv, WriteInStep, ReadInStep, Doing, WordSent, WordPopped, Judged
<1> HIDE DEF ui, w
<1>9. ChipOK' /\ hostWindow' = previous_window' /\ read_index' = 0 /\ popped' = popped
  <2>1. ChipOK' /\ previous_window' = ui.window
    BY <1>3, <1>5, <1>7, ChipKeeps, ChipPort
  <2>2. read_index' = read_index /\ popped' = popped
    BY <1>3, <1>5, <1>6, <1>7, UnreadEdge
  <2> QED
    BY <1>1, <1>3, <1>5, <1>8, <2>1, <2>2
<1>10. ASSUME plan' = plan, outcome' = outcome, n' \in Nat, phase' \in {"nibble", "bounce", "after"},
              phase' = "nibble" => n' < Current.nibbles,
              phase' = "after" => Current.nibbles = WordLength
       PROVE  /\ LinkTypeOK' /\ Planned' /\ Entered' /\ ReadInStep' /\ Current' = Current
              /\ WordPopped' /\ StatusGot'
  <2>1. Planned' /\ Current' = Current
    BY <1>1, <1>10, SamePlan
  <2>2. LinkTypeOK'
    BY <1>1, <1>2, <1>9, <1>10 DEF LinkTypeOK, Calls
  <2>3. Entered'
    BY <1>1, <1>3, <1>10, <2>1 DEF Entered, w
  <2>4. ReadInStep'
    BY <1>1, <1>8, <1>9, <1>10, <2>1 DEF ReadInStep, Doing
  <2>5. WordPopped' /\ StatusGot'
    BY <1>1, <1>8, <1>9, <1>10 DEF WordPopped, StatusGot
  <2> QED
    BY <2>1, <2>2, <2>3, <2>4, <2>5
<1>11. CASE ~ready
  <2>1. plan' = plan /\ n' = n /\ outcome' = outcome /\ phase' \in {"nibble", "bounce"}
    BY <1>1, <1>7, <1>11 DEF SeesReady, Stall
  <2>2. /\ write_index' = write_index /\ write_buffer' = write_buffer
        /\ sentWords' = sentWords /\ accepted' = accepted
        /\ rsel' = rsel /\ hostFault' = hostFault
    BY <1>3, <1>5, <1>6, <1>7, <1>11, UnwrittenEdge
  <2>3. /\ LinkTypeOK' /\ Planned' /\ Entered' /\ ReadInStep' /\ Current' = Current
        /\ WordPopped' /\ StatusGot'
    BY <1>3, <1>10, <2>1
  <2>4. WriteInStep'
    BY <1>1, <1>8, <2>1, <2>2, <2>3 DEF WriteInStep, Doing
  <2>5. StatusShown' /\ WordSent' /\ Judged'
    BY <1>1, <1>8, <2>1, <2>2, <2>3 DEF StatusShown, Doing, WordSent, Judged
  <2> QED
    BY <2>3, <2>4, <2>5 DEF LinkInv
<1>12. CASE ready /\ n # Last
  <2>1. /\ write_index' = n + 1 /\ write_buffer' = Shifted(ui)
        /\ sentWords' = sentWords /\ accepted' = accepted
        /\ rsel' = rsel /\ hostFault' = hostFault
    BY <1>3, <1>5, <1>6, <1>7, <1>8, <1>12, WrittenEdge
  <2>2. /\ plan' = plan /\ outcome' = outcome
        /\ \/ n + 1 < Current.nibbles /\ n' = n + 1 /\ phase' = "nibble"
           \/ n' = 0 /\ phase' = "bounce"
    <3>1. Advance
      BY <1>6, <1>7, <1>12 DEF SeesReady
    <3>2. ~(n + 1 < Current.nibbles) => Current.nibbles < WordLength
      BY <1>3, <1>4, <1>12
    <3> QED
      BY <1>1, <3>1, <3>2 DEF Advance
  <2>3. /\ LinkTypeOK' /\ Planned' /\ Entered' /\ ReadInStep' /\ Current' = Current
        /\ WordPopped' /\ StatusGot'
    BY <1>3, <1>10, <2>2
  <2>4. \A i \in 0 .. n : write_buffer'[WordLength - (n + 1) + i] = Current.word[i]
    <3> TAKE i \in 0 .. n
    <3>1. WordLength - (n + 1) + i \in Indices
      BY <1>4
    <3>2. CASE i = n
      <4>1. WordLength - (n + 1) + i = Last
        BY <1>4, <3>2
      <4> QED
        BY <1>5, <2>1, <3>1, <3>2, <4>1 DEF Shifted
    <3>3. CASE i # n
      <4>1. i \in 0 .. n - 1 /\ WordLength - (n + 1) + i # Last
        BY <1>4, <3>3
      <4>2. WordLength - (n + 1) + i + 1 = WordLength - n + i
        BY <1>4
      <4> QED
        BY <1>8, <2>1, <3>1, <4>1, <4>2 DEF Shifted
    <3> QED
      BY <3>2, <3>3
  <2>5. WriteInStep'
    <3>1. \A i \in 0 .. (n + 1) - 1 : write_buffer'[WordLength - (n + 1) + i] = Current.word[i]
      BY <1>4, <2>4
    <3> QED
      BY <1>1, <2>1, <2>2, <2>3, <3>1 DEF WriteInStep, Doing
  <2>6. StatusShown' /\ WordSent' /\ Judged'
    BY <1>1, <1>8, <2>1, <2>2, <2>3 DEF StatusShown, Doing, WordSent, Judged
  <2> QED
    BY <2>3, <2>5, <2>6 DEF LinkInv
<1>13. CASE ready /\ n = Last
  <2>1. Shifted(ui) = Current.word
    <3>1. ASSUME NEW i \in Indices
          PROVE  Shifted(ui)[i] = Current.word[i]
      <4>1. CASE i = Last
        BY <1>5, <1>13, <4>1 DEF Shifted
      <4>2. CASE i # Last
        <5>1. i \in 0 .. n - 1 /\ WordLength - n + i = i + 1
          BY <1>13, <4>2
        <5> QED
          BY <1>8, <4>2, <5>1 DEF Shifted
      <4> QED
        BY <4>1, <4>2
    <3>2. Shifted(ui) = [i \in Indices |-> Shifted(ui)[i]]
      BY DEF Shifted
    <3> QED
      BY <1>3, <3>1, <3>2 DEF Word
  <2>2. /\ write_index' = 0
        /\ sentWords' = IF w \in {1, 2} THEN Append(sentWords, Current.word) ELSE sentWords
        /\ w = 0 /\ IsReadSelect(Current.word) => rsel' = Current.word[0] /\ accepted'
        /\ w = 0 /\ ~IsReadSelect(Current.word) => accepted' \/ hostFault'
    BY <1>3, <1>5, <1>6, <1>7, <1>8, <1>13, <2>1, WrittenEdge
  <2>3. plan' = plan /\ outcome' = outcome /\ n' = 0 /\ phase' = "after" /\ Current.nibbles = WordLength
    <3>1. Advance
      BY <1>6, <1>7, <1>13 DEF SeesReady
    <3>2. Current.nibbles = WordLength /\ ~(n + 1 < Current.nibbles)
      BY <1>3, <1>13
    <3> QED
      BY <3>1, <3>2 DEF Advance
  <2>4. /\ LinkTypeOK' /\ Planned' /\ Entered' /\ ReadInStep' /\ Current' = Current
        /\ WordPopped' /\ StatusGot'
    BY <1>3, <1>10, <2>3
  <2>5. WriteInStep'
    BY <2>2, <2>3 DEF WriteInStep, Doing
  <2>6. StatusShown'
    <3>1. ASSUME call.op = "read_status"
          PROVE  rsel' = call.index
      <4>1. call.index \in Nibbles /\ w = 0 /\ Current.word = ReadSelectWord(call.index)
        BY <1>1, <1>2, <3>1, PlanShape DEF w
      <4> QED
        BY <2>2, <4>1, SelectWords
    <3> QED
      BY <1>1, <2>3, <3>1 DEF StatusShown, Doing
  <2>7. WordSent'
    <3>1. ASSUME call.op = "write"
          PROVE  sentWords' = <<call.word>>
      <4>1. w \in {1, 2} /\ Current.word = call.word
        BY <1>1, <1>2, <3>1, PlanShape DEF w
      <4>2. Append(<< >>, call.word) = <<call.word>>
        OBVIOUS
      <4> QED
        BY <1>8, <2>2, <3>1, <4>1, <4>2
    <3>2. ASSUME call.op # "write"
          PROVE  sentWords' = << >>
      <4>1. w = 0
        BY <1>1, <1>2, <3>2, PlanShape DEF w
      <4> QED
        BY <1>8, <2>2, <4>1
    <3> QED
      BY <1>1, <2>3, <3>1, <3>2 DEF WordSent
  <2>8. Judged'
    <3>1. ASSUME call.op = "command"
          PROVE  accepted' \/ (hostFault' /\ ~IsReadSelect(call.word))
      <4>1. w = 0 /\ Current.word = call.word
        BY <1>1, <1>2, <3>1, PlanShape DEF w
      <4> QED
        BY <2>2, <4>1
    <3> QED
      BY <1>1, <1>8, <2>3, <3>1 DEF Judged, IsReadSelect
  <2> QED
    BY <2>4, <2>5, <2>6, <2>7, <2>8 DEF LinkInv
<1> QED
  BY <1>11, <1>12, <1>13

\* ... the cycle after it,
LEMMA AfterKeeps ==
  ASSUME LinkInv, AfterCycle
  PROVE  LinkInv'
<1> DEFINE w == Current.window
<1>1. /\ plan # << >> /\ phase = "after"
      /\ hostWindow' = hostWindow /\ result' = result /\ call' = call
      /\ verdict' = IF w # 0 THEN "unknown"
                    ELSE IF IsReadSelect(Current.word) \/ ~SeesFault THEN "ok"
                    ELSE IF first = "high" THEN "unknown" ELSE "rejected"
  BY DEF AfterCycle
<1>2. LinkTypeOK /\ Planned /\ Entered
  BY DEF LinkInv
<1>3. /\ Current.kind = "write" /\ w \in Windows /\ w = hostWindow
  BY <1>1, <1>2, PlanShape DEF Entered
<1>4. PICK ready \in BOOLEAN : Chip(Resting(w), ready)
  BY DEF AfterCycle
<1>5. /\ write_index = 0 /\ read_index = 0 /\ result = << >> /\ popped = << >>
      /\ sentWords = IF call.op = "write" THEN <<call.word>> ELSE << >>
      /\ call.op = "command" => accepted \/ (hostFault /\ ~IsReadSelect(call.word))
      /\ call.op = "read_status" => rsel = call.index
  BY <1>1, <1>3 DEF LinkInv, WriteInStep, ReadInStep, WordSent, WordPopped, Judged, StatusShown
<1>6. /\ ChipOK' /\ hostWindow' = previous_window'
      /\ sentWords' = sentWords /\ popped' = popped /\ accepted' = accepted
      /\ rsel' = rsel /\ hostFault' = hostFault
      /\ write_index' = 0 /\ read_index' = 0
  BY <1>1, <1>3, <1>4, <1>5, RestEdge DEF seenVars
<1> HIDE DEF w
<1>7. n' = 0 /\ phase' \in {"nibble", "enter"}
  BY <1>1 DEF AfterCycle, Finish
<1>8. LinkTypeOK'
  BY <1>1, <1>2, <1>6, <1>7 DEF LinkTypeOK, Calls
<1>9. CASE call.op = "read_status"
  <2>1. /\ w = 0 /\ Len(plan) = 3 /\ plan[2].window = 1 /\ Tail(plan) = VisitNext
        /\ Current.word = ReadSelectWord(call.index) /\ call.index \in Nibbles
    BY <1>1, <1>2, <1>3, <1>9, PlanShape DEF w
  <2>2. verdict' = "ok"
    BY <1>1, <2>1, SelectWords
  <2>3. plan' = VisitNext /\ outcome' = "busy" /\ phase' = "enter"
    BY <1>3, <2>1, <2>2 DEF AfterCycle, Finish
  <2>4. Current' = Visit(1) /\ VisitNext' = VisitNext /\ VisitNext # << >>
    BY <2>3 DEF Current, VisitNext
  <2>5. Current'.kind = "visit" /\ Current'.window = 1
    BY <2>4 DEF Visit
  <2>6. Planned'
    BY <1>1, <1>9, <2>3, <2>4 DEF Planned
  <2>7. Entered'
    BY <1>1, <1>3, <1>7, <2>1, <2>3, <2>5 DEF Entered
  <2>8. WriteInStep' /\ ReadInStep'
    BY <1>1, <1>5, <1>6, <2>3, <2>5 DEF WriteInStep, ReadInStep, Doing
  <2>9. StatusShown' /\ WordSent' /\ WordPopped' /\ StatusGot' /\ Judged'
    BY <1>1, <1>5, <1>6, <1>9, <2>3, <2>4, <2>5
       DEF StatusShown, Doing, WordSent, WordPopped, StatusGot, Judged
  <2> QED
    BY <1>8, <2>6, <2>7, <2>8, <2>9 DEF LinkInv
<1>10. CASE call.op # "read_status"
  <2>1. call.op \in {"write", "command"} /\ Len(plan) = 1 /\ Tail(plan) = << >>
    BY <1>1, <1>2, <1>3, <1>10, PlanShape
  <2>2. plan' = << >>
    BY <2>1 DEF AfterCycle, Finish
  <2>3. Planned' /\ Entered' /\ WriteInStep' /\ ReadInStep' /\ StatusShown' /\ StatusGot'
    BY <1>1, <1>6, <1>10, <2>2
       DEF Planned, Entered, WriteInStep, ReadInStep, StatusShown, Doing, StatusGot
  <2>4. WordSent'
    <3>1. ASSUME call.op = "write"
          PROVE  outcome' = "done"
      <4>1. w \in {1, 2}
        BY <1>1, <1>2, <3>1, PlanShape DEF w
      <4>2. verdict' # "rejected"
        BY <1>1, <4>1
      <4> QED
        BY <2>1, <4>2 DEF AfterCycle, Finish
    <3> QED
      BY <1>1, <1>5, <1>6, <2>2, <3>1 DEF WordSent
  <2>5. WordPopped'
    BY <1>1, <1>5, <1>6, <2>1 DEF WordPopped
  <2>6. Judged'
    <3>1. ASSUME call.op = "command", verdict' = "ok"
          PROVE  accepted
      <4>1. w = 0 /\ Current.word = call.word
        BY <1>1, <1>2, <3>1, PlanShape DEF w
      <4>2. IsReadSelect(call.word) \/ ~hostFault
        BY <1>1, <3>1, <4>1 DEF SeesFault
      <4> QED
        BY <1>5, <3>1, <4>2
    <3> QED
      BY <1>1, <1>6, <2>2, <3>1 DEF Judged
  <2> QED
    BY <1>8, <2>3, <2>4, <2>5, <2>6 DEF LinkInv
<1> QED
  BY <1>9, <1>10

\* ... a cycle of a read,
LEMMA ReadKeeps ==
  ASSUME LinkInv, ReadCycle
  PROVE  LinkInv'
<1> DEFINE w  == Current.window
           ui == Driven(w, FALSE, TRUE, Zero)
<1>1. /\ plan # << >> /\ phase = "nibble" /\ Current.kind = "read"
      /\ hostWindow' = hostWindow /\ call' = call /\ verdict' = verdict
  BY DEF ReadCycle
<1>2. LinkTypeOK /\ Planned /\ Entered
  BY DEF LinkInv
<1>3. /\ Current.nibbles \in 1 .. WordLength /\ w \in Windows
      /\ w = hostWindow /\ n < Current.nibbles /\ n \in Nat /\ outcome = "busy"
      /\ ChipOK /\ hostWindow = previous_window
  BY <1>1, <1>2, PlanShape DEF Entered, LinkTypeOK
<1>4. /\ snapshot \in Word /\ presenting \in BOOLEAN /\ (~presenting => read_index = 0)
      /\ n \in Indices
  BY <1>3 DEF ChipOK, PortInv, TypeOK, OfferedFromWindow
<1>5. ui \in UI /\ ui.window = w /\ ~ui.write /\ ui.read
  BY <1>3, PortAssumption DEF Driven, UI
<1>6. ~Changed(ui)
  BY <1>3, <1>5 DEF Changed
<1>7. PICK ready \in BOOLEAN : Chip(ui, ready)
  BY DEF ReadCycle
<1>8. IF presenting
      THEN /\ result' = Append(result, snapshot[read_index])
           /\ IF n + 1 = WordLength THEN Finish(hostWindow) ELSE Advance
      ELSE result' = result /\ Stall
  <2>1. SeesValid(ui) <=> presenting
    BY <1>6 DEF SeesValid
  <2> QED
    BY <2>1 DEF ReadCycle
<1>9. /\ read_index = n /\ result \in Seq(Nibbles) /\ Len(result) = n
      /\ \A i \in 1 .. n : result[i] = snapshot[i - 1]
      /\ write_index = 0
      /\ popped = << >>
      /\ call.op = "read_status" =>
           rsel = call.index /\ (presenting => StatusSeen(snapshot, rsel, since))
  BY <1>1 DEF LinkInv, WriteInStep, ReadInStep, Doing, WordPopped, StatusShown
<1>10. call.op \in {"read", "read_status"} /\ sentWords = << >>
  <2>1. call.op \in {"read", "read_status"}
    BY <1>1, <1>2, PlanShape
  <2> QED
    BY <2>1 DEF LinkInv, WordSent
<1> HIDE DEF ui, w
<1>11. /\ ChipOK' /\ hostWindow' = previous_window'
       /\ write_index' = 0 /\ rsel' = rsel /\ sentWords' = sentWords
  <2>1. ChipOK' /\ previous_window' = ui.window
    BY <1>3, <1>5, <1>7, ChipKeeps, ChipPort
  <2>2. write_index' = write_index /\ rsel' = rsel /\ sentWords' = sentWords
    BY <1>3, <1>5, <1>6, <1>7, UnwrittenEdge
  <2> QED
    BY <1>1, <1>3, <1>5, <1>9, <2>1, <2>2
<1>12. ASSUME plan' = plan, outcome' = outcome, n' \in Nat, phase' \in {"nibble", "bounce"},
              phase' = "nibble" => n' < Current.nibbles, popped' = << >>
       PROVE  /\ LinkTypeOK' /\ Planned' /\ Entered' /\ WriteInStep' /\ Current' = Current
              /\ WordSent' /\ WordPopped' /\ StatusGot' /\ Judged'
  <2>1. Planned' /\ Current' = Current
    BY <1>1, <1>12, SamePlan
  <2>2. LinkTypeOK'
    BY <1>1, <1>2, <1>11, <1>12 DEF LinkTypeOK, Calls
  <2>3. Entered'
    BY <1>1, <1>3, <1>12, <2>1 DEF Entered, w
  <2>4. WriteInStep'
    BY <1>1, <1>11, <1>12, <2>1 DEF WriteInStep, Doing
  <2>5. WordSent' /\ WordPopped' /\ StatusGot' /\ Judged'
    BY <1>1, <1>10, <1>11, <1>12 DEF WordSent, WordPopped, StatusGot, Judged
  <2> QED
    BY <2>1, <2>2, <2>3, <2>4, <2>5
<1>13. CASE ~presenting
  <2>1. /\ plan' = plan /\ n' = n /\ outcome' = outcome /\ phase' \in {"nibble", "bounce"}
        /\ result' = result
    BY <1>1, <1>8, <1>13 DEF Stall
  <2>2. /\ read_index' = read_index /\ popped' = popped
        /\ presenting' /\ w = 0 => StatusSeen(snapshot', rsel, since')
    BY <1>3, <1>5, <1>6, <1>7, <1>13, UnreadEdge
  <2>3. /\ LinkTypeOK' /\ Planned' /\ Entered' /\ WriteInStep' /\ Current' = Current
        /\ WordSent' /\ WordPopped' /\ StatusGot' /\ Judged'
    BY <1>3, <1>9, <1>12, <2>1, <2>2
  <2>4. ReadInStep'
    <3>1. n = 0 /\ read_index' = n'
      BY <1>4, <1>9, <1>13, <2>1, <2>2
    <3>2. \A i \in 1 .. n' : FALSE
      BY <2>1, <3>1
    <3>3. result' \in Seq(Nibbles)
      BY <1>9, <2>1
    <3>4. Len(result') = n'
      BY <1>9, <2>1
    <3> QED
      BY <1>1, <2>1, <2>3, <3>1, <3>2, <3>3, <3>4 DEF ReadInStep, Doing
  <2>5. StatusShown'
    <3>1. call.op = "read_status" => w = 0
      BY <1>1, <1>2, PlanShape DEF w
    <3> QED
      BY <1>1, <1>9, <1>11, <2>1, <2>2, <2>3, <3>1 DEF StatusShown, Doing, StatusSeen
  <2> QED
    BY <2>3, <2>4, <2>5 DEF LinkInv
<1>14. ASSUME presenting
       PROVE  /\ snapshot' = snapshot /\ snapshot[n] \in Nibbles
              /\ read_index' = IF n = Last THEN 0 ELSE n + 1
              /\ n # Last => popped' = << >>
              /\ n = Last => popped' = IF w = 3 THEN <<snapshot>> ELSE << >>
              /\ since \subseteq since'
              /\ result' \in Seq(Nibbles) /\ Len(result') = n + 1
              /\ \A i \in 1 .. n + 1 : result'[i] = snapshot[i - 1]
  <2>1. /\ read_index' = IF n = Last THEN 0 ELSE n + 1
        /\ snapshot' = snapshot /\ since \subseteq since'
        /\ n # Last => popped' = popped
        /\ n = Last => popped' = IF w = 3 THEN Append(popped, snapshot) ELSE popped
    BY <1>3, <1>5, <1>6, <1>7, <1>9, <1>14, ReadEdge
  <2>2. Append(<< >>, snapshot) = <<snapshot>>
    OBVIOUS
  <2>3. snapshot[n] \in Nibbles
    BY <1>4 DEF Word
  <2> DEFINE x == snapshot[n]
             longer == Append(result, x)
  <2>4. result' = longer /\ x \in Nibbles
    BY <1>8, <1>9, <1>14, <2>3
  <2> HIDE DEF x
  <2>5. result \in Seq(Nibbles)
    BY <1>9
  <2>6. /\ longer \in Seq(Nibbles) /\ Len(longer) = Len(result) + 1
        /\ \A i \in 1 .. Len(result) : longer[i] = result[i]
        /\ longer[Len(result) + 1] = x
    BY <2>4, <2>5
  <2>7. ASSUME NEW i \in 1 .. n + 1
        PROVE  longer[i] = snapshot[i - 1]
    <3>1. CASE i = n + 1
      <4>1. i - 1 = n
        BY <1>4, <3>1
      <4> QED
        BY <1>9, <2>6, <3>1, <4>1 DEF x
    <3>2. CASE i # n + 1
      <4>1. i \in 1 .. n
        BY <1>4, <3>2
      <4> HIDE DEF longer
      <4> QED
        BY <1>9, <2>6, <4>1
    <3> QED
      BY <3>1, <3>2
  <2> HIDE DEF longer
  <2> QED
    BY <1>9, <2>1, <2>2, <2>3, <2>4, <2>6, <2>7
<1>15. CASE presenting /\ n # Last
  <2>1. /\ plan' = plan /\ outcome' = outcome
        /\ \/ n + 1 < Current.nibbles /\ n' = n + 1 /\ phase' = "nibble"
           \/ n' = 0 /\ phase' = "bounce"
    <3>1. Advance
      BY <1>4, <1>8, <1>15
    <3>2. ~(n + 1 < Current.nibbles) => Current.nibbles < WordLength
      BY <1>3, <1>4, <1>15
    <3> QED
      BY <1>1, <3>1, <3>2 DEF Advance
  <2>2. /\ LinkTypeOK' /\ Planned' /\ Entered' /\ WriteInStep' /\ Current' = Current
        /\ WordSent' /\ WordPopped' /\ StatusGot' /\ Judged'
    BY <1>3, <1>12, <1>14, <1>15, <2>1
  <2>3. ReadInStep'
    BY <1>1, <1>14, <1>15, <2>1, <2>2 DEF ReadInStep, Doing
  <2>4. StatusShown'
    BY <1>1, <1>9, <1>11, <1>14, <1>15, <2>1, <2>2 DEF StatusShown, Doing, StatusSeen
  <2> QED
    BY <2>2, <2>3, <2>4 DEF LinkInv
<1>16. CASE presenting /\ n = Last
  <2>1. Finish(hostWindow)
    BY <1>8, <1>16
  <2>2. Len(plan) = 1 /\ Tail(plan) = << >> /\ (call.op = "read" => w = 3)
        /\ (call.op = "read_status" => w = 0)
    BY <1>1, <1>2, <1>10, PlanShape DEF w
  <2>3. plan' = << >> /\ n' = 0 /\ outcome' = "done" /\ phase' = "nibble"
    BY <2>1, <2>2 DEF Finish
  <2>4. result' = AsSeq(snapshot)
    <3> DEFINE whole == AsSeq(snapshot)
    <3>1. \A i \in 1 .. WordLength : snapshot[i - 1] \in Nibbles
      BY <1>4 DEF Word
    <3>2. whole \in Seq(Nibbles) /\ Len(whole) = WordLength
          /\ \A i \in 1 .. WordLength : whole[i] = snapshot[i - 1]
      BY <3>1 DEF AsSeq
    <3> HIDE DEF whole
    <3>3. result' \in Seq(Nibbles) /\ Len(result') = WordLength
          /\ \A i \in 1 .. WordLength : result'[i] = snapshot[i - 1]
      BY <1>14, <1>16
    <3>4. result' = whole
      BY <3>2, <3>3, SeqEqual
    <3> QED
      BY <3>4 DEF whole
  <2>5. LinkTypeOK'
    BY <1>1, <1>2, <1>11, <2>3 DEF LinkTypeOK, Calls
  <2>6. Planned' /\ Entered' /\ WriteInStep' /\ ReadInStep' /\ StatusShown' /\ WordSent' /\ Judged'
    BY <1>1, <1>10, <1>11, <1>14, <1>16, <2>3
       DEF Planned, Entered, WriteInStep, ReadInStep, StatusShown, Doing, WordSent, Judged
  <2>7. WordPopped'
    BY <1>1, <1>4, <1>10, <1>14, <1>16, <2>2, <2>3, <2>4 DEF WordPopped
  <2>8. StatusGot'
    <3> SUFFICES ASSUME call.op = "read_status"
                 PROVE  \E live \in since' : result' = AsSeq(StatusWord(call.index, live))
      BY <1>1 DEF StatusGot
    <3>1. PICK live \in since : snapshot = StatusWord(call.index, live)
      BY <1>9, <1>16 DEF StatusSeen
    <3>2. live \in since'
      BY <1>14, <1>16
    <3> QED
      BY <2>4, <3>1, <3>2
  <2> QED
    BY <2>5, <2>6, <2>7, <2>8 DEF LinkInv
<1> QED
  BY <1>4, <1>13, <1>15, <1>16

(* The cycles that leave the call where it is.                             *)
LEMMA PauseKeeps ==
  ASSUME LinkInv, Pause
  PROVE  LinkInv'
<1> DEFINE w == Current.window
<1>1. /\ plan # << >> /\ phase = "nibble" /\ Current.kind = "read" /\ UNCHANGED hostVars
  BY DEF Pause
<1>2. /\ hostWindow' = hostWindow /\ plan' = plan /\ phase' = phase /\ n' = n
      /\ result' = result /\ call' = call /\ outcome' = outcome /\ verdict' = verdict
  BY <1>1 DEF hostVars
<1>3. LinkTypeOK /\ Planned /\ Entered
  BY DEF LinkInv
<1>4. w \in Windows /\ w = hostWindow
  BY <1>1, <1>3, PlanShape DEF Entered
<1>5. PICK ready \in BOOLEAN : Chip(Resting(w), ready)
  BY DEF Pause
<1>6. presenting \in BOOLEAN /\ (~presenting => read_index = 0)
  BY <1>3 DEF LinkTypeOK, ChipOK, PortInv, TypeOK, OfferedFromWindow
<1>7. /\ ChipOK' /\ hostWindow' = previous_window'
      /\ sentWords' = sentWords /\ popped' = popped /\ accepted' = accepted
      /\ rsel' = rsel /\ hostFault' = hostFault
      /\ write_index' = write_index /\ read_index' = read_index
      /\ presenting => presenting' /\ snapshot' = snapshot
      /\ ~presenting /\ presenting' /\ w = 0 => StatusSeen(snapshot', rsel, since')
      /\ since \subseteq since'
  BY <1>2, <1>4, <1>5, RestEdge DEF seenVars
<1>8. Planned' /\ Current' = Current
  BY <1>2, SamePlan
<1> HIDE DEF w
<1>9. LinkTypeOK' /\ Entered'
  BY <1>2, <1>3, <1>7, <1>8 DEF LinkTypeOK, Calls, Entered
<1>10. WriteInStep'
  BY <1>1, <1>2, <1>7, <1>8 DEF LinkInv, WriteInStep, Doing
<1>11. ReadInStep'
  <2>1. /\ read_index = n /\ result \in Seq(Nibbles) /\ Len(result) = n
        /\ \A i \in 1 .. n : result[i] = snapshot[i - 1]
    BY <1>1 DEF LinkInv, ReadInStep, Doing
  <2>2. \A i \in 1 .. n : result[i] = snapshot'[i - 1]
    <3>1. CASE presenting
      BY <1>7, <2>1, <3>1
    <3>2. CASE ~presenting
      <4>1. n = 0
        BY <1>6, <2>1, <3>2
      <4>2. \A i \in 1 .. n : FALSE
        BY <4>1
      <4> QED
        BY <4>2
    <3> QED
      BY <3>1, <3>2
  <2> QED
    BY <1>1, <1>2, <1>7, <1>8, <2>1, <2>2 DEF ReadInStep, Doing
<1>12. StatusShown'
  <2>1. call.op = "read_status" => w = 0
    BY <1>1, <1>3, PlanShape DEF w
  <2> QED
    BY <1>1, <1>2, <1>6, <1>7, <1>8, <2>1 DEF LinkInv, StatusShown, Doing, StatusSeen
<1>13. WordSent' /\ WordPopped' /\ StatusGot' /\ Judged'
  BY <1>1, <1>2, <1>7 DEF LinkInv, WordSent, WordPopped, StatusGot, Judged
<1> QED
  BY <1>8, <1>9, <1>10, <1>11, <1>12, <1>13 DEF LinkInv

\* ... an idle cycle,
LEMMA IdleKeeps ==
  ASSUME LinkInv, IdleCycle
  PROVE  LinkInv'
<1>1. /\ plan = << >> /\ hostWindow' = hostWindow /\ plan' = plan /\ phase' = phase /\ n' = n
      /\ result' = result /\ call' = call /\ outcome' = outcome /\ verdict' = verdict
  BY DEF IdleCycle, hostVars
<1>2. LinkTypeOK
  BY DEF LinkInv
<1>3. hostWindow \in Windows
  BY <1>2 DEF LinkTypeOK, ChipOK, PortInv, TypeOK
<1>4. PICK ready \in BOOLEAN : Chip(Resting(hostWindow), ready)
  BY DEF IdleCycle
<1>5. /\ ChipOK' /\ hostWindow' = previous_window'
      /\ sentWords' = sentWords /\ popped' = popped /\ accepted' = accepted
      /\ write_index' = write_index /\ read_index' = read_index
      /\ since \subseteq since'
  BY <1>1, <1>3, <1>4, RestEdge DEF seenVars
<1>6. LinkTypeOK' /\ Planned' /\ Entered'
  BY <1>1, <1>2, <1>5 DEF LinkTypeOK, Calls, Planned, Entered
<1>7. WriteInStep' /\ ReadInStep' /\ StatusShown'
  BY <1>1, <1>5 DEF LinkInv, WriteInStep, ReadInStep, StatusShown, Doing
<1>8. WordSent' /\ WordPopped' /\ StatusGot' /\ Judged'
  BY <1>1, <1>5 DEF LinkInv, WordSent, WordPopped, StatusGot, Judged
<1> QED
  BY <1>6, <1>7, <1>8 DEF LinkInv

(* Giving up moves nothing and ends in a neighbouring window.              *)
LEMMA BounceKeeps ==
  ASSUME LinkInv, BounceCycle
  PROVE  LinkInv'
<1> DEFINE w == Neighbour(hostWindow)
<1>1. /\ plan # << >> /\ phase = "bounce" /\ hostWindow' = w
      /\ plan' = << >> /\ outcome' = "timeout" /\ phase' = "nibble" /\ n' = n
      /\ result' = result /\ call' = call /\ verdict' = verdict
  BY DEF BounceCycle
<1>2. LinkTypeOK
  BY DEF LinkInv
<1>3. w \in Windows /\ w # hostWindow
  <2>1. hostWindow \in {0, 1, 2, 3}
    BY <1>2 DEF LinkTypeOK, ChipOK, PortInv, TypeOK
  <2>2. 0 % 2 = 0 /\ 1 % 2 = 1 /\ 2 % 2 = 0 /\ 3 % 2 = 1
    OBVIOUS
  <2> QED
    BY <2>1, <2>2 DEF Neighbour
<1>4. PICK ready \in BOOLEAN : Chip(Resting(w), ready)
  BY DEF BounceCycle
<1>5. /\ ChipOK' /\ hostWindow' = previous_window'
      /\ sentWords' = sentWords /\ popped' = popped /\ accepted' = accepted
      /\ write_index' = 0 /\ read_index' = 0
  BY <1>1, <1>3, <1>4, RestEdge DEF seenVars
<1> HIDE DEF w
<1>6. LinkTypeOK' /\ Planned' /\ Entered'
  BY <1>1, <1>2, <1>5 DEF LinkTypeOK, Calls, Planned, Entered
<1>7. WriteInStep' /\ ReadInStep' /\ StatusShown'
  BY <1>1, <1>5 DEF WriteInStep, ReadInStep, StatusShown, Doing
<1>8. /\ sentWords = << >>
      /\ popped = << >> /\ (call.op = "command" => verdict = "unknown")
  BY <1>1 DEF LinkInv, WordSent, WordPopped, Judged
<1>9. WordSent' /\ WordPopped' /\ StatusGot' /\ Judged'
  BY <1>1, <1>5, <1>8 DEF WordSent, WordPopped, StatusGot, Judged
<1> QED
  BY <1>6, <1>7, <1>9 DEF LinkInv

(* A call starts with nothing of its words moved yet.                      *)
LEMMA BeginKeeps ==
  ASSUME LinkInv, NEW c \in Calls, NEW p, Begin(c, p),
         p # << >>, Planned',
         Head(p).kind \in {"write", "read"}, Head(p).nibbles \in 1 .. WordLength,
         p[1] = Head(p), c.op = "read_status" => Head(p).kind = "write"
  PROVE  LinkInv'
<1>1. /\ plan = << >> /\ plan' = p
      /\ phase' = (IF hostWindow = p[1].window THEN "nibble" ELSE "enter")
      /\ n' = 0 /\ result' = << >> /\ call' = c /\ outcome' = "busy" /\ verdict' = "unknown"
      /\ sentWords' = << >> /\ popped' = << >>
      /\ hostWindow' = hostWindow /\ accepted' = FALSE
      /\ UNCHANGED portVars /\ UNCHANGED chipVars
  BY DEF Begin
<1>2. /\ write_index' = write_index /\ read_index' = read_index /\ presenting' = presenting
      /\ snapshot' = snapshot /\ previous_window' = previous_window
      /\ rx' = rx /\ rsel' = rsel /\ hostFault' = hostFault /\ engineFault' = engineFault
  BY <1>1 DEF portVars, bufferVars, readVars, chipVars
<1>3. LinkTypeOK /\ write_index = 0 /\ read_index = 0
  BY <1>1 DEF LinkInv, WriteInStep, ReadInStep
<1>4. PortInv'
  BY <1>1, <1>3, PortStutter DEF LinkTypeOK, ChipOK
<1>5. LinkTypeOK'
  BY <1>1, <1>2, <1>3, <1>4 DEF LinkTypeOK, Calls, ChipOK, HeadShown
<1>6. Planned' /\ Current' = Head(p)
  BY <1>1, <1>5 DEF Current
<1>7. Entered'
  BY <1>1, <1>6 DEF Entered
<1>8. WriteInStep' /\ ReadInStep'
  <2>1. << >> \in Seq(Nibbles) /\ Len(<< >>) = 0
    OBVIOUS
  <2>2. \A i \in 0 .. 0 - 1 : FALSE
    OBVIOUS
  <2>3. \A i \in 1 .. 0 : FALSE
    OBVIOUS
  <2> QED
    BY <1>1, <1>2, <1>3, <1>6, <2>1, <2>2, <2>3 DEF WriteInStep, ReadInStep, Doing
<1>9. StatusShown'
  BY <1>1, <1>6 DEF StatusShown, Doing
<1>10. WordSent' /\ WordPopped' /\ StatusGot' /\ Judged'
  BY <1>1 DEF WordSent, WordPopped, StatusGot, Judged
<1> QED
  BY <1>5, <1>6, <1>7, <1>8, <1>9, <1>10 DEF LinkInv

\* ... the beginning of a call,
LEMMA CallsKeep ==
  ASSUME LinkInv, WriteCall \/ ReadCall \/ SendCommand \/ ReadStatus
  PROVE  LinkInv'
<1>1. CASE WriteCall
  <2>1. PICK window \in {1, 2}, word \in Word, nibbles \in 1 .. WordLength :
          Begin([op |-> "write", word |-> word], <<WritePrimitive(window, word, nibbles)>>)
    BY <1>1 DEF WriteCall
  <2> DEFINE c == [op |-> "write", word |-> word]
             p == <<WritePrimitive(window, word, nibbles)>>
  <2>2. c \in Calls
    BY DEF Calls
  <2>3. /\ p # << >> /\ Head(p) = WritePrimitive(window, word, nibbles) /\ p[1] = Head(p)
    OBVIOUS
  <2>4. Head(p).kind = "write" /\ Head(p).nibbles \in 1 .. WordLength /\ c.op # "read_status"
    BY <2>3 DEF WritePrimitive
  <2>5. Planned'
    BY <2>1 DEF Begin, Planned
  <2>6. Begin(c, p)
    BY <2>1
  <2> HIDE DEF c, p
  <2> QED
    BY <2>2, <2>3, <2>4, <2>5, <2>6, BeginKeeps
<1>2. CASE ReadCall
  <2>1. PICK nibbles \in 1 .. WordLength :
          Begin([op |-> "read"], <<ReadPrimitive(3, nibbles)>>)
    BY <1>2 DEF ReadCall
  <2> DEFINE c == [op |-> "read"]
             p == <<ReadPrimitive(3, nibbles)>>
  <2>2. c \in Calls
    BY DEF Calls
  <2>3. p # << >> /\ Head(p) = ReadPrimitive(3, nibbles) /\ p[1] = Head(p)
    OBVIOUS
  <2>4. Head(p).kind = "read" /\ Head(p).nibbles \in 1 .. WordLength /\ c.op # "read_status"
    BY <2>3 DEF ReadPrimitive
  <2>5. Planned'
    BY <2>1 DEF Begin, Planned
  <2>6. Begin(c, p)
    BY <2>1
  <2> HIDE DEF c, p
  <2> QED
    BY <2>2, <2>3, <2>4, <2>5, <2>6, BeginKeeps
<1>3. CASE SendCommand
  <2>1. PICK word \in Word :
          Begin([op |-> "command", word |-> word], <<WritePrimitive(0, word, WordLength)>>)
    BY <1>3 DEF SendCommand
  <2> DEFINE c == [op |-> "command", word |-> word]
             p == <<WritePrimitive(0, word, WordLength)>>
  <2>2. c \in Calls
    BY DEF Calls
  <2>3. p # << >> /\ Head(p) = WritePrimitive(0, word, WordLength) /\ p[1] = Head(p)
    OBVIOUS
  <2>4. Head(p).kind = "write" /\ Head(p).nibbles \in 1 .. WordLength /\ c.op # "read_status"
    BY <2>3, PortAssumption DEF WritePrimitive
  <2>5. Planned'
    BY <2>1 DEF Begin, Planned
  <2>6. Begin(c, p)
    BY <2>1
  <2> HIDE DEF c, p
  <2> QED
    BY <2>2, <2>3, <2>4, <2>5, <2>6, BeginKeeps
<1>4. CASE ReadStatus
  <2>1. PICK i \in Nibbles :
          Begin([op |-> "read_status", index |-> i],
                <<WritePrimitive(0, ReadSelectWord(i), WordLength), Visit(1),
                  ReadPrimitive(0, WordLength)>>)
    BY <1>4 DEF ReadStatus
  <2> DEFINE c == [op |-> "read_status", index |-> i]
             p == <<WritePrimitive(0, ReadSelectWord(i), WordLength), Visit(1),
                    ReadPrimitive(0, WordLength)>>
  <2>2. c \in Calls
    BY DEF Calls
  <2>3. /\ p # << >> /\ Head(p) = WritePrimitive(0, ReadSelectWord(i), WordLength)
        /\ p[1] = Head(p)
    OBVIOUS
  <2>4. Head(p).kind = "write" /\ Head(p).nibbles \in 1 .. WordLength
    BY <2>3, PortAssumption DEF WritePrimitive
  <2>5. Planned'
    <3>1. plan' = p /\ call' = c
      BY <2>1 DEF Begin
    <3>2. SelectFirst' = p
      BY <3>1 DEF SelectFirst, ReadSelectWord, WritePrimitive, ReadPrimitive, Visit
    <3> QED
      BY <3>1, <3>2 DEF Planned
  <2>6. Begin(c, p)
    BY <2>1
  <2> HIDE DEF c, p
  <2> QED
    BY <2>2, <2>3, <2>4, <2>5, <2>6, BeginKeeps
<1> QED
  BY <1>1, <1>2, <1>3, <1>4

\* ... a reset.
LEMMA ResetKeeps ==
  ASSUME LinkInv, ResetCall
  PROVE  LinkInv'
<1>1. /\ plan = << >> /\ plan' = plan /\ Clear
      /\ hostWindow' = 0 /\ phase' = "nibble" /\ n' = 0 /\ result' = << >>
      /\ call' = NoCall /\ outcome' = "done" /\ verdict' = "unknown"
      /\ rx' = << >> /\ rsel' = Zero /\ hostFault' = FALSE /\ engineFault' = FALSE
      /\ popped' = << >> /\ sentWords' = << >> /\ accepted' = FALSE
  BY DEF ResetCall
<1>2. PortInv'
  BY <1>1, ClearStep
<1>3. write_index' = 0 /\ read_index' = 0 /\ ~presenting' /\ previous_window' = 0
  BY <1>1 DEF Clear
<1>4. NoCall \in Calls /\ NoCall.op = "none" /\ call' \in Calls'
  BY <1>1 DEF Calls, NoCall
<1>5. LinkTypeOK'
  <2>1. << >> \in Seq(Word) /\ 0 \in Nat
    OBVIOUS
  <2>2. ChipOK'
    BY <1>1, <1>2, <1>3, <2>1, PortAssumption DEF ChipOK, HeadShown
  <2> QED
    BY <1>1, <1>3, <1>4, <2>1, <2>2 DEF LinkTypeOK
<1>6. Planned' /\ Entered' /\ WriteInStep' /\ ReadInStep' /\ StatusShown'
  BY <1>1, <1>3, <1>4 DEF Planned, Entered, WriteInStep, ReadInStep, StatusShown, Doing
<1>7. WordSent' /\ WordPopped' /\ StatusGot' /\ Judged'
  BY <1>1, <1>4 DEF WordSent, WordPopped, StatusGot, Judged
<1> QED
  BY <1>5, <1>6, <1>7 DEF LinkInv

\* The link starts in its invariant.
LEMMA LinkStarts ==
  ASSUME LinkInit
  PROVE  LinkInv
<1>1. /\ plan = << >> /\ hostWindow = 0 /\ phase = "nibble" /\ n = 0
      /\ call = NoCall /\ verdict = "unknown" /\ popped = << >> /\ sentWords = << >>
      /\ rx = << >> /\ rsel = Zero /\ hostFault = FALSE /\ engineFault = FALSE /\ accepted = FALSE
      /\ write_index = 0 /\ read_index = 0 /\ ~presenting /\ previous_window = 0 /\ PortInv
  BY PortInit DEF LinkInit, Init
<1>2. NoCall \in Calls /\ NoCall.op = "none"
  BY DEF Calls, NoCall
<1>3. LinkTypeOK
  <2>1. << >> \in Seq(Word) /\ 0 \in Nat
    OBVIOUS
  <2>2. ChipOK
    BY <1>1, <2>1, PortAssumption DEF ChipOK, HeadShown
  <2> QED
    BY <1>1, <1>2, <2>1, <2>2 DEF LinkTypeOK
<1>4. Planned /\ Entered /\ WriteInStep /\ ReadInStep /\ StatusShown
  BY <1>1, <1>2 DEF Planned, Entered, WriteInStep, ReadInStep, StatusShown, Doing
<1>5. WordSent /\ WordPopped /\ StatusGot /\ Judged
  BY <1>1, <1>2 DEF WordSent, WordPopped, StatusGot, Judged
<1> QED
  BY <1>3, <1>4, <1>5 DEF LinkInv

\* A step elsewhere keeps it.
LEMMA StutterKeeps ==
  ASSUME LinkInv, UNCHANGED linkVars
  PROVE  LinkInv'
<1>1. /\ UNCHANGED portVars /\ UNCHANGED hostVars /\ UNCHANGED chipVars /\ UNCHANGED seenVars
      /\ since' = since
  BY DEF linkVars
<1>2. /\ hostWindow' = hostWindow /\ plan' = plan /\ phase' = phase /\ n' = n
      /\ result' = result /\ call' = call /\ outcome' = outcome /\ verdict' = verdict
      /\ rx' = rx /\ rsel' = rsel /\ hostFault' = hostFault /\ engineFault' = engineFault
      /\ sentWords' = sentWords /\ popped' = popped /\ accepted' = accepted
  BY <1>1 DEF hostVars, chipVars, seenVars
<1>3. /\ write_index' = write_index /\ write_buffer' = write_buffer /\ read_index' = read_index
      /\ presenting' = presenting /\ snapshot' = snapshot /\ previous_window' = previous_window
  BY <1>1 DEF portVars, bufferVars, readVars
<1>4. PortInv'
  BY <1>1, PortStutter DEF LinkInv, LinkTypeOK, ChipOK
<1>5. Planned' /\ Current' = Current
  BY <1>2, SamePlan
<1>6. LinkTypeOK' /\ Entered'
  BY <1>2, <1>3, <1>4, <1>5 DEF LinkInv, LinkTypeOK, Calls, ChipOK, HeadShown, Entered
<1>7. WriteInStep' /\ ReadInStep'
  BY <1>2, <1>3, <1>5 DEF LinkInv, WriteInStep, ReadInStep, Doing
<1>8. StatusShown'
  BY <1>1, <1>2, <1>3, <1>5 DEF LinkInv, StatusShown, Doing, StatusSeen
<1>9. WordSent' /\ WordPopped' /\ StatusGot' /\ Judged'
  BY <1>1, <1>2 DEF LinkInv, WordSent, WordPopped, StatusGot, Judged
<1> QED
  BY <1>5, <1>6, <1>7, <1>8, <1>9 DEF LinkInv

\* It holds in every reachable state.
LEMMA LinkInvariant == LinkSpec => []LinkInv
<1>1. LinkInit => LinkInv
  BY LinkStarts
<1>2. LinkInv /\ [LinkNext]_linkVars => LinkInv'
  BY EnterKeeps, WriteKeeps, AfterKeeps, ReadKeeps, PauseKeeps, IdleKeeps, BounceKeeps,
     CallsKeep, ResetKeeps, StutterKeeps DEF LinkNext, Progress
<1> QED
  BY <1>1, <1>2, PTL DEF LinkSpec

-----------------------------------------------------------------------------
(* ExactlyOnce: a write that returns has put its word into the chip once,  *)
(* a read that returns has popped exactly the word it returns, and a call  *)
(* that timed out or was abandoned has moved nothing, however the queues   *)
(* filled and drained meanwhile (host.py 171-201, 237-264).                *)
THEOREM CallsMoveOnce == LinkSpec => []ExactlyOnce
<1>1. ASSUME LinkInv
      PROVE  WriteExactlyOnce
  BY <1>1 DEF LinkInv, WordSent, WriteExactlyOnce, Returned
<1>2. ASSUME LinkInv
      PROVE  ReadExactlyOnce
  <2>1. ASSUME Returned("read", "done")
        PROVE  Len(popped) = 1 /\ result = AsSeq(popped[1])
    <3>1. PICK word \in Word : popped = <<word>> /\ result = AsSeq(word)
      BY <1>2, <2>1 DEF LinkInv, WordPopped, Returned
    <3> QED
      BY <3>1
  <2> QED
    BY <1>2, <2>1 DEF LinkInv, WordPopped, ReadExactlyOnce, Returned
<1> QED
  BY <1>1, <1>2, LinkInvariant, PTL DEF ExactlyOnce

(* StatusFresh: read_status returns the word of the index it asked for as  *)
(* the chip showed it at an edge after this call's READ_SELECT, never one  *)
(* presented before (host.py 398-404).                                     *)
THEOREM StatusIsFresh == LinkSpec => []StatusFresh
<1>1. LinkInv => StatusFresh
  BY DEF LinkInv, StatusGot, StatusFresh, Returned
<1> QED
  BY <1>1, LinkInvariant, PTL

(* AcceptedIsAccepted: a command the library reports accepted was accepted *)
(* by the chip (host.py 288-290, 309).                                     *)
THEOREM AcceptedWasAccepted == LinkSpec => []AcceptedIsAccepted
<1>1. LinkInv => AcceptedIsAccepted
  BY DEF LinkInv, Judged, AcceptedIsAccepted
<1> QED
  BY <1>1, LinkInvariant, PTL

(* The library keeps the port within what the word port promises: every    *)
(* cycle of a call is an edge the port allows (host.ml 10-11, 58-96).      *)
THEOREM LinkRefinesWordPort == LinkSpec => ImplementsWordPort
<1>1. LinkInit => Init
  BY DEF LinkInit
<1>2. ASSUME LinkInv, LinkNext
      PROVE  [Next]_portVars
  <2>1. LinkTypeOK /\ ChipOK /\ Planned /\ Entered
    BY <1>2 DEF LinkInv, LinkTypeOK
  <2>2. ASSUME NEW ui \in UI, NEW ready \in BOOLEAN, Chip(ui, ready)
        PROVE  Next
    <3>1. PICK live \in BOOLEAN :
            /\ Port(ui, ready, RxValid(ui), ReadData(ui, live)) /\ ReadData(ui, live) \in Word
      BY <2>1, <2>2, ChipPort
    <3>2. ready \in Ready(ui.window)
      BY <2>2 DEF Chip
    <3>3. RxValid(ui) \in Valid(ui.window)
      BY DEF RxValid, Valid
    <3>4. CASE RxValid(ui)
      BY <3>1, <3>2, <3>3, <3>4 DEF Next
    <3>5. CASE ~RxValid(ui)
      <4>1. Port(ui, ready, RxValid(ui), snapshot)
        BY <3>1, <3>5 DEF Port, Present
      <4> QED
        BY <3>2, <3>3, <3>5, <4>1 DEF Next
    <3> QED
      BY <3>4, <3>5
  <2>3. ASSUME NEW w \in Windows, NEW ready \in BOOLEAN, Chip(Resting(w), ready)
        PROVE  Next
    <3>1. Resting(w) \in UI
      BY PortAssumption DEF Resting, Driven, UI
    <3> QED
      BY <2>2, <2>3, <3>1
  <2>4. /\ hostWindow \in Windows /\ Neighbour(hostWindow) \in Windows
        /\ plan # << >> => Current.window \in Windows
    <3>1. hostWindow \in {0, 1, 2, 3}
      BY <2>1 DEF LinkTypeOK, ChipOK, PortInv, TypeOK
    <3>2. 0 % 2 = 0 /\ 1 % 2 = 1 /\ 2 % 2 = 0 /\ 3 % 2 = 1
      OBVIOUS
    <3>3. plan # << >> => Current.window \in Windows
      BY <2>1, PlanShape
    <3> QED
      BY <3>1, <3>2, <3>3 DEF Neighbour
  <2>5. ASSUME EnterCycle \/ AfterCycle \/ Pause \/ IdleCycle \/ BounceCycle
        PROVE  Next
    BY <2>3, <2>4, <2>5 DEF EnterCycle, AfterCycle, Pause, IdleCycle, BounceCycle
  <2>6. ASSUME WriteCycle
        PROVE  Next
    <3>1. /\ Current.nibbles \in 1 .. WordLength /\ Current.word \in Word
          /\ n < Current.nibbles /\ n \in Nat /\ Current.window \in Windows
      BY <2>1, <2>6, PlanShape DEF WriteCycle, Entered, LinkTypeOK
    <3>2. n \in Indices
      BY <3>1
    <3>3. Driven(Current.window, TRUE, FALSE, Current.word[n]) \in UI
      BY <3>1, <3>2 DEF Driven, UI, Word
    <3> QED
      BY <2>2, <2>6, <3>3 DEF WriteCycle
  <2>7. ASSUME ReadCycle
        PROVE  Next
    <3>1. Driven(Current.window, FALSE, TRUE, Zero) \in UI
      BY <2>4, <2>7, PortAssumption DEF Driven, UI, ReadCycle
    <3> QED
      BY <2>2, <2>7, <3>1 DEF ReadCycle
  <2>8. ASSUME WriteCall \/ ReadCall \/ SendCommand \/ ReadStatus
        PROVE  UNCHANGED portVars
    BY <2>8 DEF WriteCall, ReadCall, SendCommand, ReadStatus, Begin
  <2>9. ASSUME ResetCall
        PROVE  Next
    BY <2>9 DEF ResetCall, Next
  <2> QED
    BY <1>2, <2>5, <2>6, <2>7, <2>8, <2>9 DEF LinkNext, Progress
<1>3. LinkInv /\ [LinkNext]_linkVars => [Next]_portVars
  BY <1>2 DEF linkVars
<1>4. LinkSpec => Spec
  BY <1>1, <1>3, LinkInvariant, PTL DEF LinkSpec, Spec
<1> QED
  BY <1>4, PortRefinesWordPort
=============================================================================

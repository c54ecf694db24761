------------------------------ MODULE WordPort ------------------------------
(***************************************************************************)
(* What the nibble port promises, in words: within one visit to a window   *)
(* the host's nibbles gather into words, a word offered to the host goes   *)
(* out nibble by nibble, and leaving the window forgets both halves.       *)
(***************************************************************************)
EXTENDS Naturals, Sequences

CONSTANTS WordLength, Nibbles

VARIABLES
  window,   \* the window being visited
  partial,  \* nibbles of the word the host is writing
  offered,  \* nibbles of the offered word still to go out
  written,  \* the word completed on the last edge, or << >>
  taken     \* the host took the last nibble of an offered word on the last edge

vars == <<window, partial, offered, written, taken>>

Words == [1 .. WordLength -> Nibbles]

Init ==
  /\ window = 0 /\ partial = << >> /\ offered = << >>
  /\ written = << >> /\ taken = FALSE

Leave ==
  /\ window' \in (0 .. 3) \ {window}
  /\ partial' = << >> /\ offered' = << >> /\ written' = << >> /\ taken' = FALSE

Gather ==
  \/ UNCHANGED partial /\ written' = << >>
  \/ \E nibble \in Nibbles :
       LET word == Append(partial, nibble)
       IN  IF Len(word) = WordLength THEN partial' = << >> /\ written' = word
                                     ELSE partial' = word /\ written' = << >>

Offer ==
  \/ UNCHANGED offered /\ taken' = FALSE
  \/ offered = << >> /\ offered' \in Words /\ taken' = FALSE
  \/ offered # << >> /\ offered' = Tail(offered) /\ taken' = (Len(offered) = 1)

Stay == UNCHANGED window /\ Gather /\ Offer

(* The chip's clear: as if the window had been left.                       *)
Clear ==
  /\ window' = 0 /\ partial' = << >> /\ offered' = << >> /\ written' = << >> /\ taken' = FALSE

Next == Leave \/ Stay \/ Clear

Spec == Init /\ [][Next]_vars
=============================================================================

------------------------------ MODULE MCMover ------------------------------
(* Two engines; engine 0 and the host put in a few words each.             *)
EXTENDS Mover

CONSTANTS Words0, Words1, WordsHost

MCBudget == [o \in Origins |-> IF o = 0 THEN Words0 ELSE IF o = Host THEN WordsHost ELSE Words1]
=============================================================================

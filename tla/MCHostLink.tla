---------------------------- MODULE MCHostLink ----------------------------
(* Two-nibble words; engines push either of two words.                     *)
EXTENDS HostLink

MCRxWords == {[i \in Indices |-> i], [i \in Indices |-> 1]}
=============================================================================

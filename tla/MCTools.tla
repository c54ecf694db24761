------------------------------ MODULE MCTools ------------------------------
(* Tools beside the chip: the lockstep port of the Pico with two calls, a  *)
(* count of frames that wraps at four and a sleep of twelve cycles; and    *)
(* the measurement of a probe.  They share no state, so that one run       *)
(* explores one of them at a time: `part' names it and the others keep     *)
(* their first state.                                                      *)
EXTENDS Lockstep

\* Two pulses that touch, sampled 2.2 times a cycle, give or take a hundredth.
VARIABLES signal, next, faults, ratio, phase, samples, ns, unmatched
capture == <<signal, next, faults, ratio, phase, samples, ns, unmatched>>
TwoPulses == <<[at |-> 0, ch |-> 0, pol |-> 1], [at |-> 2, ch |-> 0, pol |-> 0],
               [at |-> 2, ch |-> 1, pol |-> 1], [at |-> 3, ch |-> 1, pol |-> 0]>>
Iso == INSTANCE Isolation WITH edges <- signal,
  Frame <- TwoPulses, Period <- 7, Edges <- 29, Checked <- 0, MaxFaults <- 1, Scale <- 100,
  Nominal <- 220, Ratios <- {218, 220, 222}, Phases <- {0, 20, 50, 99}, Unc <- 100

VARIABLE part
everything == <<part, vars, capture>>

MCInit ==
  /\ part \in {"lockstep", "capture"}
  /\ Init /\ Iso!IsoInit
  /\ part # "capture" => ratio = 220 /\ phase = 0 /\ next.edge = 1
MCNext ==
  /\ UNCHANGED part
  /\ \/ part = "lockstep" /\ Next         /\ UNCHANGED capture
     \/ part = "capture"  /\ Iso!IsoNext  /\ UNCHANGED vars

Stays == part = "lockstep" /\ UNCHANGED <<part, capture>>
MCSpec == /\ MCInit /\ [][MCNext]_everything
          /\ WF_vars(Run /\ Stays) /\ WF_vars(HostStep /\ Stays) /\ WF_vars(Timeout /\ Stays)

(* "each edge's cycle number can be recovered exactly" (pe_capture.py      *)
(* 33-38): see module Isolation.                                           *)
VerdictSound == Iso!VerdictSound
=============================================================================

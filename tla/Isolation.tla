----------------------------- MODULE Isolation -----------------------------
(***************************************************************************)
(* The measurement of timing isolation (demo/pe_capture.py): a logic       *)
(* analyser with a crystal of its own samples the pins of a probe that     *)
(* repeats one frame of edges; cycle numbers are recovered from the        *)
(* samples, a frame pattern from the edges, and a verdict, same or         *)
(* different, from the frames and a predicted pattern.                     *)
(*                                                                         *)
(* Time is in units of 1/Scale of a sample.  The probe's frame, the sample *)
(* rate and the crystals are constants; where the capture starts, the      *)
(* phase of the analyser, its crystal's offset and what disturbs the probe *)
(* are not.  A capture is shorter than the 1000 cycles after which the     *)
(* ratio is fitted again, so that it stays the nominal one.                *)
(***************************************************************************)
EXTENDS Integers, Sequences, FiniteSets, FiniteSetsExt, Functions

CONSTANTS
  Frame,       \* the probe's edges, in order: [at, ch, pol]
  Period,      \* and its length in cycles
  Edges,       \* edges of a capture
  Checked,       \* ... of which a pattern is checked on three frames and so many (64)
  MaxFaults,   \* bound: disturbances of a capture
  Scale,       \* units of a sample
  Nominal,     \* fs / fclk as configured, in units
  Ratios,      \* ... as the crystals have it
  Phases,      \* of the first sample, in units
  Unc          \* samples per sample of uncertainty, inverted (2e-4)

VARIABLES
  edges,       \* what the pins did: [cycle, ch, pol]
  next,        \* the frame's edge that is due, and the cycle of its frame
  faults,      \* history: the edges that were not where they were due
  ratio, phase,
  samples,     \* sample indices with an edge, and the cycle numbers
  ns,          \* given to them so far
  unmatched    \* samples whose number fits the phase only beyond the tolerance

isoVars == <<edges, next, faults, ratio, phase, samples, ns, unmatched>>

-----------------------------------------------------------------------------
(* recover_cycles: the phase a recorded edge allows is one sample wide;    *)
(* the latest edges, as far as the uncertainty of the ratio moves them by  *)
(* no more than a tenth of a sample, bound it together.  Half units.       *)
Early(s, n) == 2 * (s * Scale - Scale - Nominal * n)
Late(s, n)  == 2 * (s * Scale - Nominal * n)

Recent(s, n) ==
  LET last == Len(n)
  IN  {j \in 1 .. last : (n[last] - n[j]) * 10 * Nominal <= Unc * Scale} \cup {last}
Bounds(s, n) ==
  LET lo == Max({Early(s[j], n[j]) : j \in Recent(s, n)})
      hi == Min({Late(s[j], n[j]) : j \in Recent(s, n)})
  IN  IF lo > hi THEN [lo |-> (lo + hi) \div 2 - Scale, hi |-> (lo + hi) \div 2 + Scale]
                 ELSE [lo |-> lo, hi |-> hi]

(* Of three candidates the one whose interval is nearest, overlaps most,   *)
(* is nearest to the middle.                                               *)
LargerOf(a, b) == IF a > b THEN a ELSE b
SmallerOf(a, b) == IF a < b THEN a ELSE b
Candidate(tick, n, b) ==
  LET middle == 2 * (2 * tick * Scale - Scale) - (b.lo + b.hi)
  IN  [n |-> n,
       gap |-> LargerOf(0, LargerOf(b.lo, Early(tick, n)) - SmallerOf(b.hi, Late(tick, n))),
       overlap |-> LargerOf(0, SmallerOf(b.hi, Late(tick, n)) - LargerOf(b.lo, Early(tick, n))),
       off |-> LargerOf(4 * n * Nominal - middle, middle - 4 * n * Nominal)]
Nearer(c, d) ==
  \/ c.gap < d.gap
  \/ c.gap = d.gap /\ c.overlap > d.overlap
  \/ c.gap = d.gap /\ c.overlap = d.overlap /\ c.off < d.off
  \/ c.gap = d.gap /\ c.overlap = d.overlap /\ c.off = d.off /\ c.n <= d.n
recover_cycles(s, n, tick) ==
  IF n = << >> THEN [n |-> 0, gap |-> 0]
  ELSE LET b  == Bounds(s, n)
           n0 == (2 * (2 * tick * Scale - Scale) - (b.lo + b.hi) + 2 * Nominal) \div (4 * Nominal)
           cands == {Candidate(tick, k, b) : k \in {n0 - 1, n0, n0 + 1}}
       IN  CHOOSE c \in cands : \A d \in cands : Nearer(c, d)

(* Then the whole capture is looked at: against the least-squares line     *)
(* through it the samples stay within one sample and the tolerance, a      *)
(* quarter of one, and none was farther from the phase than that.          *)
Total(f, n) == SumFunctionOnSet(f, 1 .. n)
_slope(s, n) ==
  LET k  == Len(s)
      sn == Total(n, k)
  IN  [num |-> k * Total([i \in 1 .. k |-> n[i] * s[i]], k) - sn * Total(s, k),
       den |-> k * Total([i \in 1 .. k |-> n[i] * n[i]], k) - sn * sn]
consistent(s, n) ==
  LET est == _slope(s, n)
      residual == {s[i] * est.den - est.num * n[i] : i \in DOMAIN s}
  IN  unmatched = 0 /\ Len(s) >= 8 /\ 4 * (Max(residual) - Min(residual)) <= 5 * est.den

(* An event's cycle is the one of its sample; with the chip's clock on a   *)
(* channel it is the count of its rising edges so far.                     *)
Tick(edge) == -((-(phase + edge.cycle * ratio)) \div Scale)
events ==
  [i \in DOMAIN edges |->
     [cycle |-> ns[CHOOSE j \in DOMAIN samples : samples[j] = Tick(edges[i])],
      ch |-> edges[i].ch, pol |-> edges[i].pol]]
clock_cycles(tick) ==
  Cardinality({c \in edges[1].cycle .. edges[Len(edges)].cycle : Tick([cycle |-> c]) <= tick})

-----------------------------------------------------------------------------
(* detect_pattern: the shortest block of edges, one quarter into the       *)
(* capture, that repeats with one period; it starts after its largest gap. *)
SameEdge(e, f) == e.ch = f.ch /\ e.pol = f.pol
RepeatsEvery(ev, k) ==
  LET r0     == Len(ev) \div 4
      period == ev[r0 + k + 1].cycle - ev[r0 + 1].cycle
  IN  /\ period > 0
      /\ \A i \in r0 + 1 .. r0 + SmallerOf(Len(ev) - r0 - k, 3 * k + Checked) :
           SameEdge(ev[i], ev[i + k]) /\ ev[i + k].cycle - ev[i].cycle = period

NoPattern == [period |-> 0]
detect_pattern(ev) ==
  LET n  == Len(ev)
      r0 == n \div 4
      ks == {k \in 1 .. (n - r0) \div 3 : RepeatsEvery(ev, k)}
  IN  IF n < 8 \/ ks = {} THEN NoPattern
      ELSE LET k      == Min(ks)
               period == ev[r0 + k + 1].cycle - ev[r0 + 1].cycle
               gap(j) == ev[r0 + j].cycle - IF j = 1 THEN ev[r0 + k].cycle - period
                                            ELSE ev[r0 + j - 1].cycle
               anchor == Min({j \in 1 .. k : \A i \in 1 .. k : gap(i) <= gap(j)})
               at(j)  == ev[r0 + anchor + j - 1]
           IN  [period |-> period,
                events |-> [j \in 1 .. k |-> [at |-> at(j).cycle - at(1).cycle,
                                              ch |-> at(j).ch, pol |-> at(j).pol]]]

(* frames_against: the edges that begin a frame, after a quiet gap; the    *)
(* frames between them that equal the pattern; and, from the first of      *)
(* those on, the edges that are not on the periodic schedule.              *)
Quiet(p) == p.period - p.events[Len(p.events)].at
Anchors(ev, p) ==
  {i \in 2 .. Len(ev) : SameEdge(ev[i], p.events[1]) /\ ev[i].cycle - ev[i - 1].cycle >= Quiet(p)}
FrameFrom(ev, p, a) ==
  LET b == Min({i \in Anchors(ev, p) : i > a})
  IN  [length |-> ev[b].cycle - ev[a].cycle,
       body |-> [j \in 1 .. b - a |-> [at |-> ev[a + j - 1].cycle - ev[a].cycle,
                                       ch |-> ev[a + j - 1].ch, pol |-> ev[a + j - 1].pol]]]
Complete(ev, p) == {a \in Anchors(ev, p) : \E b \in Anchors(ev, p) : b > a}
Identical(ev, p) ==
  {a \in Complete(ev, p) : FrameFrom(ev, p, a) = [length |-> p.period, body |-> p.events]}
XOnGrid_EachFrame(ev, p, start) ==      \* mutant: each edge against its own frame
  \A i \in start .. Len(ev) :
    \E j \in 1 .. Len(p.events) : SameEdge(ev[i], p.events[j])
OnGrid(ev, p, start) ==
  \A i \in start .. Len(ev) :
    LET k == Len(p.events)
        f == (i - start) \div k
        q == p.events[((i - start) % k) + 1]
    IN  SameEdge(ev[i], q) /\ ev[i].cycle = ev[start].cycle + f * p.period + q.at

(* analyze against the capture's own pattern, and compare's verdict against*)
(* the one predicted from the frame that static analysis found.            *)
predict ==
  LET k == Len(Frame)
  IN  detect_pattern([i \in 1 .. 4 * k |->
        LET q == Frame[((i - 1) % k) + 1]
        IN  [cycle |-> q.at + ((i - 1) \div k) * Period, ch |-> q.ch, pol |-> q.pol]])
verdict(ev) ==
  LET p == detect_pattern(ev)
  IN  IF ~consistent(samples, ns) THEN "refused"
      ELSE IF /\ p # NoPattern /\ p = predict
         /\ Complete(ev, p) # {} /\ Identical(ev, p) = Complete(ev, p)
         /\ OnGrid(ev, p, Min(Identical(ev, p)))
      THEN "same" ELSE "different"

-----------------------------------------------------------------------------
IsoInit ==
  /\ edges = << >> /\ samples = << >> /\ ns = << >> /\ unmatched = 0 /\ faults = {}
  /\ next \in [edge : 1 .. Len(Frame), base : {0}]
  /\ ratio \in Ratios /\ phase \in Phases

After(due) == IF due.edge = Len(Frame) THEN [edge |-> 1, base |-> due.base + Period]
              ELSE [due EXCEPT !.edge = @ + 1]

(* An edge reaches the pins in a cycle, and is recorded at the first sample*)
(* at or after it.                                                         *)
Record(edge) ==
  LET tick == Tick(edge)
  IN  /\ edges' = Append(edges, edge)
      /\ IF samples # << >> /\ samples[Len(samples)] = tick THEN UNCHANGED <<samples, ns, unmatched>>
         ELSE LET best == recover_cycles(samples, ns, tick)
              IN  /\ samples' = Append(samples, tick)
                  /\ ns' = Append(ns, best.n)
                  /\ unmatched' = unmatched + IF 2 * best.gap > Scale THEN 1 ELSE 0

(* The probe is undisturbed; it is held up for a cycle, from an edge on or *)
(* for one edge only; or it loses a pulse.                                 *)
Due(due) == [cycle |-> due.base + Frame[due.edge].at, ch |-> Frame[due.edge].ch, pol |-> Frame[due.edge].pol]
Later(edge, k) == [edge EXCEPT !.cycle = @ + k]
Free(edge) == \A i \in DOMAIN edges : edges[i].cycle < edge.cycle
                                      \/ (edges[i].cycle = edge.cycle /\ edges[i].ch < edge.ch)
MayFault == Len(edges) < Edges /\ Cardinality(faults) < MaxFaults
OnTime ==
  /\ Len(edges) < Edges /\ Free(Due(next))
  /\ Record(Due(next)) /\ next' = After(next)
  /\ UNCHANGED <<faults, ratio, phase>>
HeldUp ==
  /\ MayFault
  /\ Record(Later(Due(next), 1)) /\ next' = After([next EXCEPT !.base = @ + 1])
  /\ faults' = faults \cup {Len(edges) + 1}
  /\ UNCHANGED <<ratio, phase>>
OneLate ==
  /\ MayFault
  /\ LET then == Due(After(next)) IN
       then.cycle > Due(next).cycle + 1 \/ (then.cycle = Due(next).cycle + 1 /\ then.ch > Due(next).ch)
  /\ Record(Later(Due(next), 1)) /\ next' = After(next)
  /\ faults' = faults \cup {Len(edges) + 1}
  /\ UNCHANGED <<ratio, phase>>
PulseLost ==
  /\ MayFault
  /\ LET then == After(next) IN
       /\ Frame[then.edge].ch = Frame[next.edge].ch
       /\ Record(Due(After(then))) /\ next' = After(After(then))
  /\ faults' = faults \cup {Len(edges) + 1}
  /\ UNCHANGED <<ratio, phase>>
IsoNext == OnTime \/ HeldUp \/ OneLate \/ PulseLost
IsoSpec == IsoInit /\ [][IsoNext]_isoVars

-----------------------------------------------------------------------------
(* "each edge's cycle number can be recovered exactly" (pe_capture.py      *)
(* 33-38), disturbed or not; a run is the same as predicted only if no     *)
(* edge behind the first frame's start was ("A single edge one cycle early *)
(* or late makes the run different", docs/demo.md 112), and an undisturbed *)
(* capture of four frames is.                                              *)
Recovered ==
  /\ \A i \in DOMAIN edges :
       /\ events[i].cycle = edges[i].cycle - edges[1].cycle
       /\ clock_cycles(Tick(edges[i])) = events[i].cycle + 1
  /\ Len(samples) >= 8 => consistent(samples, ns)
FirstFrame == Min(Anchors(edges, predict) \cup {Len(edges) + 1})
VerdictSound ==
  /\ Recovered
  /\ verdict(events) = "same" => \A i \in faults : i <= FirstFrame
  /\ Len(edges) >= 5 * Len(Frame) /\ faults = {} => verdict(events) = "same"
=============================================================================

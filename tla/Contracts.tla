----------------------------- MODULE Contracts -----------------------------
(***************************************************************************)
(* Declared protocol timing (tools/timing/pe_contracts.py): quantities of  *)
(* the pin protocols derived from the boundary graph of a program - widths *)
(* of pulses, set-up and hold of data around a clock, what happens after a *)
(* clock line is released, reaction times - from which the checks of every *)
(* firmware image report PASS or FAIL.  Here they are followed beside a    *)
(* run of the program, with what its pads do.                              *)
(*                                                                         *)
(* Pin 0 is the clock of the protocol (SCK, SCL, TCK, SWCLK, the output of *)
(* a waveform), pin 1 its data (MOSI, SDA, TDI, SWDIO, TX).                *)
(***************************************************************************)
EXTENDS TimingRun

CONSTANT Far      \* bound: times are told apart up to here

VARIABLES
  quantities,     \* derived from the graph
  edge,           \* history: cycles since the last fall, rise and change of each pad
  unsafe,         \* history: the clock was released and not seen high since
  waited          \* history: cycles since a wait for the clock was over, in this segment
history == <<quantities, edge, unsafe, waited>>
contractVars == <<vars, history>>

Clk == 0
Dat == 1

-----------------------------------------------------------------------------
(* pad_is: a line is high when it is released, on an open-drain pin, and   *)
(* when it is driven high on another.                                      *)
High(p) == IF p \in OpenDrain THEN "Z" ELSE "1"
Pads1(p, after_) == [kind |-> "pad", pin |-> p, after |-> after_]
Falls(p)   == Pads1(p, {{"0"}})
Rises(p)   == Pads1(p, {{High(p)}})
Changes(p) == Pads1(p, SUBSET {"0", "1", "Z"})
Occurs(g, what) ==      \* every match: [key, leg, i]
  UNION {UNION {{[key |-> key, leg |-> leg, i |-> i] : i \in {i \in DOMAIN leg.v.ev : Matches(leg.v.ev[i], what)}} :
           leg \in g[key].variants} : key \in DOMAIN g}

\* the own pads an event leaves
pads_at(g, o, p) ==
  LET before == SelectSeq(SubSeq(o.leg.v.ev, 1, o.i), LAMBDA e : e.kind = "pad" /\ e.pin = p) IN
  IF before # << >> THEN Last(before).after
  ELSE IF o.key = StartKey THEN {"Z"} ELSE pads(g[o.key].st)[p]

\* Levels are known of a pin that only SET, DIR and XFER's clock write.
Known(g, p) == \A o \in Occurs(g, Changes(p)) : Cardinality(o.leg.v.ev[o.i].after) = 1

waitpin_pcs(im, p, levels) == {pc \in 0 .. Len(im) - 1 : im[pc + 1].kind = "waitpin" /\ im[pc + 1].a = p /\ im[pc + 1].b \in levels}

-----------------------------------------------------------------------------
(* Widths: the low pulse of an event transmitter, the phases of a clock,   *)
(* the bit time of a serial line.                                          *)
pulse_width(g, p) == summarize(distances(g, Falls(p), Rises(p)))
high_time(g, p)   == summarize(distances(g, Rises(p), Falls(p)))
spacing(g, p)     == summarize(distances(g, Changes(p), Changes(p))).min

(* Set-up of data before a rising clock, and hold after it.                *)
setup(g) == summarize(distances(g, Changes(Dat), Rises(Clk))).min
hold(g)  == summarize(distances(g, Rises(Clk), Changes(Dat))).min
low_only(g) ==
  \A o \in Occurs(g, Changes(Dat)) :
    o.leg.v.ev[o.i].ends \/ o.leg.v.ev[o.i].before = {"Z"} \/ pads_at(g, o, Clk) = {"0"}

(* first_of: what comes first after a release of the clock, on every path: *)
(* a wait for it to be high, or the next fall.                             *)
first_of(g, o, wanted) ==
  LET Scan(ev) == LET hits == SelectSeq(ev, LAMBDA e : \E w \in DOMAIN wanted : Matches(e, wanted[w]))
                  IN IF hits = << >> THEN {} ELSE {w \in DOMAIN wanted : Matches(Head(hits), wanted[w])}
      rest(leg) == SelectSeq(leg.v.ev, LAMBDA e : e.t >= leg.v.t)       \* of a periodic variant
      here == Scan(SubSeq(o.leg.v.ev, o.i + 1, Len(o.leg.v.ev)))
      On(legs) == {leg.succ : leg \in {l \in legs : l.v.kind = "boundary" /\ ~g[l.succ].deadlock}}
      Silent(key) == {leg \in g[key].variants : Scan(leg.v.ev) = {}}
      reached == FoldLeft(LAMBDA S, n : S \cup UNION {On(Silent(key)) : key \in S}, On({o.leg}),
                          [n \in 1 .. Cardinality(DOMAIN g) |-> n]) IN
  IF here # {} THEN here
  ELSE (IF o.leg.v.kind = "periodic" THEN Scan(rest(o.leg)) ELSE {})
         \cup UNION {UNION {Scan(leg.v.ev) : leg \in g[key].variants} : key \in reached}
(* Mutant: only the segment of the release is looked at.                   *)
Xstretch_safe_ThisSegment(im, g) ==
  LET wanted == [wait |-> [kind |-> "arrive", pcs |-> waitpin_pcs(im, Clk, {1})], fall |-> Falls(Clk)] IN
  \A o \in Occurs(g, Rises(Clk)) :
    \A i \in o.i + 1 .. Len(o.leg.v.ev) : Matches(o.leg.v.ev[i], wanted.fall) =>
      \E j \in o.i + 1 .. i : Matches(o.leg.v.ev[j], wanted.wait)
stretch_safe(im, g) ==
  LET wanted == [wait |-> [kind |-> "arrive", pcs |-> waitpin_pcs(im, Clk, {1})], fall |-> Falls(Clk)] IN
  \A o \in {o \in Occurs(g, Rises(Clk)) : ~o.leg.v.ev[o.i].ends} : "fall" \notin first_of(g, o, wanted)

(* After a wait for the clock is over: the latest that data changes, and   *)
(* that the next wait is reached unless the clock is held low first.       *)
After(im, g) ==
  UNION {g[key].variants : key \in {k \in DOMAIN g : k.bpc \in waitpin_pcs(im, Clk, {0, 1})}}
latency(im, g) ==
  LET hits(leg) == SelectSeq(leg.v.ev, LAMBDA e : Matches(e, Changes(Dat)))
  IN  Max({-1} \cup {Head(hits(leg)).t : leg \in {l \in After(im, g) : hits(l) # << >>}})
rearm(im, g) ==
  LET next == [kind |-> "arrive", pcs |-> waitpin_pcs(im, Clk, {0, 1})]
      hits(leg) == SelectSeq(leg.v.ev, LAMBDA e : Matches(e, next) \/ Matches(e, Falls(Clk)))
  IN  Max({-1} \cup {Head(hits(leg)).t : leg \in {l \in After(im, g) : hits(l) # << >> /\ Head(hits(l)).kind = "arrive"}})

check_program(im, g) ==
  [pulse |-> [p \in Owned |-> pulse_width(g, p)], high |-> [p \in Owned |-> high_time(g, p)],
   spacing |-> [p \in Owned |-> spacing(g, p)], known |-> [p \in Owned |-> Known(g, p)],
   setup |-> setup(g), hold |-> hold(g), low_only |-> low_only(g), stretch |-> stretch_safe(im, g),
   latency |-> latency(im, g), rearm |-> rearm(im, g)]
NotDerived == [stretch |-> FALSE]

-----------------------------------------------------------------------------
(* What the pads do.                                                       *)
Ages == [fall |-> NotYet, rise |-> NotYet, change |-> NotYet]
Older(age) == IF age = NotYet THEN NotYet ELSE Min({age + 1, Far})
before == Pads(engine, data)
after_ == Pads(engine', data')
Changed(p) == before[p] # after_[p]
Fell(p) == Changed(p) /\ after_[p] = "0"
Rose(p) == Changed(p) /\ after_[p] = High(p)
attempt == Attempt(engine, engine')
AtWait == attempt.pc \in waitpin_pcs(image, Clk, {0, 1})
Boundary == attempt # NoAttempt /\ (Blocking(image[attempt.pc + 1]) \/ attempt.pc \in soft_branches(image))

ContractInit ==
  /\ quantities = NotDerived /\ edge = [p \in Owned |-> Ages]
  /\ unsafe = FALSE /\ waited = NotYet
CStart == Start /\ quantities' = check_program(image, nodes) /\ UNCHANGED <<edge, unsafe, waited>>
CTick ==
  /\ Tick
  /\ edge' = [p \in Owned |->
       [fall   |-> IF Fell(p) THEN 0 ELSE Older(edge[p].fall),
        rise   |-> IF Rose(p) THEN 0 ELSE Older(edge[p].rise),
        change |-> IF Changed(p) THEN 0 ELSE Older(edge[p].change)]]
  /\ unsafe' = IF Rose(Clk) THEN TRUE
               ELSE unsafe /\ ~(attempt.outcome = "done" /\ attempt.pc \in waitpin_pcs(image, Clk, {1}))
  /\ waited' = IF AtWait /\ attempt.outcome = "done" THEN 0 ELSE IF Boundary THEN NotYet ELSE Older(waited)
  /\ UNCHANGED quantities

(* A check that passes is right about every run: no pulse is shorter or    *)
(* longer than its report, no data changes closer to a clock edge, none    *)
(* while the clock is not low, a released clock is not driven low unseen,  *)
(* and an edge is answered, and the next one waited for, in the time given.*)
(* "derives the protocol quantities from the boundary graph ... and        *)
(* reports PASS/FAIL with margins" (pe_contracts.py 6-11).                 *)
Capped(n) == Min({n, Far})
Within(age, range) == Capped(range.min) <= age /\ (age = Far \/ age <= range.max)
Later(age, other) == age # NotYet /\ (other = NotYet \/ age < other)
Held ==
  LET q == quantities
      clock == q.known[Clk]
      steady == Older(edge[Dat].change) IN
  /\ \A p \in Owned : q.known[p] =>
       /\ Rose(p) /\ Later(edge[p].fall, edge[p].rise) => Within(Older(edge[p].fall), q.pulse[p])
       /\ Fell(p) /\ Later(edge[p].rise, edge[p].fall) => Within(Older(edge[p].rise), q.high[p])
  /\ \A p \in Owned : Changed(p) /\ edge[p].change # NotYet => Older(edge[p].change) >= Capped(q.spacing[p])
  /\ clock /\ Rose(Clk) /\ Later(steady, Older(Older(edge[Clk].rise))) => steady >= Capped(q.setup)
  /\ clock /\ Changed(Dat) /\ Later(edge'[Clk].rise, steady) => edge'[Clk].rise >= Capped(q.hold)
  /\ clock /\ q.low_only /\ Changed(Dat) /\ before[Dat] # "Z" => after_[Clk] = "0"
  /\ clock /\ q.stretch /\ Fell(Clk) => ~unsafe
  /\ Changed(Dat) /\ Later(waited, edge[Dat].change) => Older(waited) <= q.latency
  /\ AtWait /\ Later(waited, edge[Clk].fall) => Older(waited) <= q.rearm
ContractsHold == [][quantities # NotDerived /\ verdict = "running" /\ Active(engine') /\ Followed => Held]_contractVars
=============================================================================

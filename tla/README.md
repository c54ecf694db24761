# A TLA+ model of the protocol emulator

The repository generates a chip, the *protocol emulator*: four small programmable I/O
engines on eight shared pins, controlled through a nibble-wide host port, with queues, a
word mover and event mailboxes between them (Hardcaml generator in `hardcaml/lib/`), the
Python library that drives it (`host/pe_host/`), and the tools around it: a static timing
analyzer with declared contracts and certificates (`tools/timing/`), a physical-design
optimizer (`tools/opt/`), an equivalence checker (`formal_eq/`), a sweep harness
(`scripts/sweep/`) and the measurement of timing isolation (`demo/`). This directory holds
TLA+ modules of these parts, TLC configurations that check them on small instances, and
TLAPS proofs for every value of the constants.

The repository already has bounded and inductive checks of the emitted RTL (`formal/`)
that `docs/limitations.md` (line 212) describes as safety properties of one configuration.
What is added here: properties of the host library and the port together, liveness,
refinement to abstract specifications, proofs parametric in the number of engines, pins,
words and queue depth, and the protocols of the tools.

In every module of the chip **one step is one rising edge of `clk`**, and the step takes
everything that happens on the edge: the host word that completes, what each engine does,
the mover's grant. That is the concurrency of this system, and most properties are
about what meets on one edge. In the tools a step is one effect on what others can see: an
event appended to a store, a file written or removed, a job submitted.

## 1. Inventory

| Component | Source | State | Operations | What is hard | Modules |
|---|---|---|---|---|---|
| Queues (4 TX, 4 RX) | `fifo.ml` | level, two pointers, storage; a staging register in one form | push, pop, FLUSH, at the same time | wrap, push and pop together, the word not yet in storage | `Fifo`, `BoundedQueue`, `QueueEdge` |
| Engine control | `processor.ml` | selected engine, images (`writing`, `committed`, `loaded`, `lengths`), pin ownership and open drain, running, fault | SELECT, BEGIN, program word, COMMIT, OWN, START, STOP, CLEAR, reset | commands against engines that halt, fault and drive pins on the same edge | `Control` |
| Mover | `processor.ml` | route counter and destination per source, round-robin cursor | ROUTE, FLUSH, one grant per edge | races with the host for both queues, starvation, words lost or copied | `RoundRobin`, `Arbiter`, `Mover` |
| Mailboxes, triggers | `processor.ml` | synchronizers, detector per engine, pending event per engine | SIGNAL, WAITEVENT, EVENT, TRIGGER, pin edges | delivery and consumption on one edge, edges that are none | `Mailbox` |
| Host port | `host.ml` | nibble indices, write buffer or slots, snapshot | nibble accepted, window change | stalls and window changes anywhere in a word | `HostPort`, `WordPort` |
| Instruction memory | `instruction_sram.ml`, `processor.ml` | store, SRAM output register, prefetched word | write, read ahead | one port read a cycle early and written through | `Fetch` |
| Engine | `engine.ml`, `engine_decode.ml`, `engine_datapath.ml` | pc, timer, limit, blocked cycles, loop counter, fault, completed counter | one instruction per edge | exact costs, timeouts, a second counter circuit | `EngineStep`, `Engine` |
| Fused transfer | `engine_transfer.ml` | shift registers, edges, tick, period, mode | XFER, STOP in the middle | first and last bit in four modes | `Transfer` |
| Host library | `host/pe_host/host.py` | its idea of window and selection, the call in progress | words, tries, commands, status reads, reset | timeouts against late room, stale snapshots, one FAULT pin for several causes | `HostLink` |
| Lockstep port | `ports/pio_lockstep.py` | PIO program, FIFOs, operations under way, edge count | a call's operations, timeout and restart, reset | a CPU and a PIO at their own pace, recovery in mid-handshake | `LockstepPio`, `Lockstep` |
| Timing analyzer | `tools/timing/pe_timing.py`, `pe_validate.py` | boundary graph of a program; the checker's hypotheses | abstract execution; following a run | every corner of a distance: synchronizers, stalls of zero | `Timing`, `TimingRun` |
| Contracts | `pe_contracts.py`, `pe_contracts_ext.py` | quantities of a program | derive widths, set-up, hold, stretch, latency | which pair of events a quantity is between | `Contracts` |
| Certificates | `tools/timing/cert/` | campaign, its runs, `results/summary.json` | edit, certify, run, retry, record, check | files that change during a campaign | `Certify` |
| Optimizer | `tools/opt/driver.py`, `store.py`, `gates.py` | study, event store, promotions, jobs | ask, submit, poll, import, promote, sign off, restart | a stop between any two events, late and lost jobs, duplicates | `Gates`, `Optimizer` |
| Equivalence checker | `formal_eq/eq_check.py` | output directory, the run | copy, parse, build, miter, ABC, self-test | stale files, failing tools, netlists rewritten under it, blind recipes | `EqCheck`, `Netlist` |
| Sweep harness | `scripts/sweep/` | run directories, manifest, queue | snapshot, submit, run, collect; the CPU budget | several shells, results not visible yet, requeued jobs | `Sweep`, `CpuBudget` |
| Capture analysis | `demo/pe_capture.py` | samples, cycle numbers, pattern | recover cycles, detect, compare | two crystals, disturbances | `Isolation` |

Interaction: the library drives `ui` and samples `uo` once per edge (`ports/base.py`); the
port assembles commands (window 0), program words (1), TX words (2) and offers status (0)
and RX words (3); commands act on control state, routes and detectors; engines pull from
TX, push to RX, signal mailboxes and drive owned pins; the mover takes from RX and puts
into TX. The analyzer reads programs, the contracts its graph, a campaign both; the
optimizer builds with the sweep's snapshots and signs off with the equivalence checker
(`Gates` is what it makes of one result of `EqCheck`). The tools meet only in files, so
that each is a module with the others as inputs.

What makes each correct, in a line: a queue is a first-in first-out queue of its depth; a
running engine executes exactly the words committed for it and drives only pins nobody
else owns; a word is moved once and in order; a continuously eligible source is served;
an event is never lost or invented; a word of the port is all of its nibbles from one
visit of a window or nothing; an instruction takes exactly its documented cycles; a
peripheral clocked by XFER sees the word; a library call does what it reports and
returns; every run of a program stays within its analysis; what is called certified,
equivalent, signed off or complete was shown of the very files it names; a result, import
or job counts once, whatever stops in between.

Not modelled, with the reasons in `PROJECT.json`: the composition of the processor, the
line unit, reset styles, assembler and firmware tools, image files, the FPGA bridge, scope
and shell, the other port backends (their contract is an assumption of `HostLink`), the
self test and simulated peripherals, the reference model, and the generated Verilog (the
output of what is modelled).

## 2. The modules

**`QueueEdge`** has the promise of a queue on one edge: ready and valid come from the
occupancy before the edge, FLUSH wins. `BoundedQueue` is the state machine over it, and
`Mover` uses the same operators for its eight queues. **`Fifo`** is `fifo.ml`: shared
pointers and level, and side by side the three storages `create_with`,
`create_staged_gated` and `create_free_slot_gated`, with contents that have no reset.

**`Control`** has an action per host command of its part, each taking as argument what every
engine does on that edge (`op`): run, write levels or enables, halt or fault.
`EngineEdge` is the order of `engine.ml` 226-237: CLEAR on a halted engine, STOP, START,
then execution. `Reject` is any invalid command; it raises the sticky host fault.
`uio_out` and `uio_oe` are the chip's outputs. Program storage has no reset. ROUTE and
FLUSH are in `Mover`, EVENT and TRIGGER in `Mailbox`, READ_SELECT in `HostLink`.

`EngineSet` is the set of engines that these share.

**`RoundRobin`** is the arbitration as operators, in the chain and the flat form of the
generator; **`Arbiter`** runs it on arbitrary eligible sets. **`Mover`** has the queues and
everything that touches them on an edge; `Eligible` and `Routes` follow `processor.ml`
233-246 and 308-313. Words are pairs of origin and number, so that a lost, copied or
overtaking word is visible. An engine is the PULL and PUSH it may issue.

**`Mailbox`** has the three pin registers, the detectors and the mailboxes. `trace` is the
history of the pins, against which the delivery on the third edge is stated; `counting` and
`unanswered` follow an engine that counts the pulses of its pin by WAITEVENT and JMP, as the
consumer of `test/test_kill_events.py` (28) does.

**`HostPort`** keeps the shifting write buffer and the nibble slots side by side under one
index, and the read snapshot. **`WordPort`** is the promise: a visit to a window, in which
whole words are gathered and offered, and which forgets both when left.

**`Fetch`** follows one engine's program words into a store that is read in two ways: by
the SRAM at the next program counter, and by the prefetching register memory. Branch
targets include ones that alias an address of the image.

**`EngineStep`** is `engine.ml`'s next state as operators on a record of its sequencing
registers: `Step` is the order timer, transfer, instruction; `Increment` the separate
counter condition of `split_instruction_decode`. **`Engine`** lets one engine run any
image under any inputs, starts, stops and clears. Arithmetic and pin instructions are the
one kind "step", and an encoding is valid or not. Between START and BEGIN an
image does not change (`ImageImmutable`), so it is chosen once per behaviour.

**`Transfer`** is `engine_transfer.ml` with its data: `tx`, `rx`, the clock and data-out
levels, for any mode and both bit orders. The clock and data-out pins differ
because the decoder demands it (`engine_decode.ml` 58-60).

**`HostLink`** extends `HostPort` with the library. A call is a plan of primitives and each
primitive a loop of port cycles: `EnterCycle` is `set_window`, `WriteCycle` and `ReadCycle`
a nibble with its retries, `AfterCycle` the idle cycle after a word with the verdict of
`command`, `BounceCycle` the abandonment. On the chip an RX queue that engines push into
and the mover pops from, engines that may fault on any edge, and a status word that changes
while nobody looks: one bit of `StatusWord` is chosen anew at every edge.

**`LockstepPio`** is the PIO program, one action per PIO cycle, on its state machine with
FIFOs and input synchronizers, wired to the chip's handshake; **`Lockstep`** is the port on
it, whose every CPU step may fall into any cycle: calls as lists of operations in chunks,
results accounted against frames, the watchdog, the restart and the reset.

**`Timing`** is the abstract interpreter: states with known and unknown bits, segments of
exact length between boundaries, the graph with the range of each stall, look-back through
the synchronizers, distances and loop periods. **`TimingRun`** runs the engine
(`EngineStep` with its data) beside `RunChecker` and the graph; **`Contracts`** adds the
quantities derived for the declared protocols and the times the pads really show.

**`Certify`** has the campaign from the pinned commit to the ledger, and `check` and `plan`
as CI calls them; `evidence` is the history of what was really proved for which versions.
A campaign has a WORK directory of its own, and nobody edits harness or generator while
its arrays run (they are read from the working tree, `campaign.sh`).

**`Gates`** turns one result of the equivalence checker into a stage's verdict and stages
into a promotion's. **`Optimizer`** is the driver's loop over its event store: `trial` and
`promo` are what a restart rebuilds; a handler leaves its remaining effects (one event, one
word to the study, one deletion each) in `todo`, so that a stop, or an exception that ends
the loop, may fall between any two. The rescan of every `DISCOVER_S` repairs and imports in
the loop as a start does. Jobs wait, start, are preempted, vanish and show their
results late.

**`EqCheck`** is `eq_check.py check` with the files it leaves and finds in its output
directory. What a text differs in is known to the model, not to the program; tools tell
the truth about the files they read except for one kind of difference a defective recipe
is blind to, and any step may fail, hang or write nothing. **`Netlist`** judges the
structural preconditions by what the cells of a netlist do. A macro whose clock pin is left
open (`.A_CLK()`) passes them, as in `analyze_structure` (670-676); the property is about
clock pins that are connected.

**`Sweep`** is `submit.py`, `run_one.sh` and `collect.py` over shared directories, a locked
manifest and a queue; **`CpuBudget`** the chunks by which a call places its tasks behind
earlier ones. **`Isolation`** is the capture analysis in integer arithmetic: a probe's
frame, a crystal ratio, a phase, and at most one disturbance.

The modules named `MC...` give constants that a `.cfg` file cannot write. Parts that share
no state are explored by one run, one at a time: a variable `part` names the one that
moves. `MCProcessor` has control, queue and mailbox, `MCEngines` fetch, transfer and
arbiter, `MCProgress` mover and sequencing, `MCFlow` (with `MCTiming`) analyzer and
contracts, certificates, equivalence checker, netlists, CPU budget and sweep, `MCTools`
lockstep port and capture. Definitions that begin with `X` are mutants: a plausible wrong
version of the definition after them, used by no specification. Each property is violated
when its mutant takes the place of the definition.

## 3. The runs

| Run | Question | Instance, and why it is enough |
|---|---|---|
| `processor` | do three storages behave as one queue; images, faults and ownership under all command orders; every pulse wakes the engine that counts it | queue depth 2, three words: wraps of the pointers with every push, pop and flush; 2 engines that contend for one pin, 2-word stores (partial, full and wrong lengths), 2 codes; 2 engines, one pin, every trigger mode, pulses on successive edges while one counts them |
| `engines` | executed words are the committed ones; waveform and bits of XFER; one grant, bounded wait, two circuits agree | 3-word store, 2 codes, aliasing targets; 3-bit registers, half periods 1 and 2, all modes (a first, a middle and a last bit); 4 engines as on the chip, every eligible set |
| `progress` | no word lost, copied, overtaken or read twice; routed words keep moving; instruction costs, timeouts, the two counters; waits end | the mover of 2 engines (two sources of one destination, loops), depth 2, routes of up to 2, one word of each engine and of the host (the proofs are for any number); all 2-instruction images of 22 instructions and 3-instruction images around waits, limit 3 after START, counters modulo 5 |
| `host_link` | calls do exactly what they report, and return; the two write circuits implement the word port | 2-nibble words, 2 attempts per nibble, RX queue of 2; a status bit that may change at every edge |
| `host_link_verdict` | is a command reported rejected a rejected one (it is not, see below) | the same |
| `optimizer` | trials through the cluster and through restarts | 3 trials over one good, one refused and importable configurations, 2 jobs (a retry, or a run nobody recorded beside the recorded one), 2 slots, 2 attempts, one fault and one stop |
| `promotion` | one configuration from its trial to a verdict; everything submitted ends | 7 jobs, one promotion through `gl` and `eq`, checkers that prove, fail, leave nothing or are not run, one fault, one stop |
| `optimizer_duplicate` | does a configuration run once (it does not after a stop, see below) | two trials of one configuration, one stop |
| `flow` | do runs follow their analysis and contracts; certificates; equivalence check; clocks of a netlist; CPU cap; one job per run | 671 programs on 2-bit registers and 2 pins; one edit and two campaigns; two checks of five netlists, three controls, one tool fault, one rewrite; all netlists of two cells, a register or macro and an assign; six tasks of 2 CPUs from calls that allow 4, 5 or 7; two shells with a run each |
| `cpu_cap` | does the CPU cap hold with tasks of several sizes (it does not, see below) | six tasks of 1 to 3 CPUs, budget 5 |
| `timing_deadlock` | is a reported self-deadlock certain (it is not, see below) | one program with two paths to one wait |
| `tools` | the lockstep port's words, clock and count of frames; cycles and verdicts of a capture | 2 calls, frames counted modulo 3, one wrap more than the pins show, tick bounds up to 3 frames off to each side, a sleep of 12 cycles; 29 edges of a two-pulse probe, three ratios, four phases, one disturbance |

Bounds are constants or named guards. `Budget` limits the words put into `Mover` (its words
are numbered), `MaxRoute` the ROUTE counts, `MaxPeriod` the half periods, `Images` the
programs. `CounterModulus` is the width of the completed counters (2^32 on the chip),
`DefaultLimit` the limit after START (65535). `WordLength` is 8 on the chip; two nibbles
are the shortest word with a boundary inside. In `Mailbox` `CommandEdges` counts the edges
from reset to the first possible command: eight on the chip, one per nibble of a command
word; the run has four, and anything above two gives `NoArtificialEdge`.
`MaxTrials`, `NJobs`, `MaxPromos`, `MaxFaults`, `MaxCrashes`, `MaxEdits`, `MaxCampaigns`,
`MaxChecks`, `MaxToolFaults`, `MaxRewrites`, `MaxTasks`, `MaxJobs` and `MaxCalls` bound how
often something happens in a behaviour of a tool; `MaxContexts` is the analyzer's own limit
(512), `Far` the largest time the contracts tell apart, `BackoffLoops` the loops of the
driver within five minutes of a failed submission, `YModulus` the 24-bit frame count,
`MaxWraps` how often it wraps between two results beyond what the pins show, `Slack` how far
the tick bounds of `_stamp` lie from the frames there were.
History variables say so in their comment; they are read by no guard. The one exception,
`sent` in `Mover`, numbers the words and stops at the budget. The histories `unmet` in
`Engine`, `age` in `Mailbox` and the times of `Contracts` saturate at a bound that no
property can tell from larger values.

In `optimizer` and `promotion` an action constraint, `Observed`, lets the cluster move only
where the driver looks at jobs and results: its steps elsewhere commute with the driver's up
to the next such place, and no property reads a job in between. The grace of a job
(`GraceOver`) passes only while the driver waits for a result of it, which is where the code
reads its age. The fairness of `promotion` asks for no step the constraint cuts: `ClusterWorks`
has the same condition on the grace, and every loop of the driver passes places where the
other steps are allowed; so the behaviours in which a job ends normally, with its result read
and its age never looked at, are fair and are checked.

### Fairness

* `progress`: weak fairness of `QuietEdge`, an edge on which the host completes no word. The
  clock always runs, and a word takes eight nibbles, so such edges recur. The antecedent of
  `RoutedWordsMove` is the environment's part: engines that keep emptying their TX queues
  and a host that keeps leaving window 3. Both are needed and the documentation says so
  (`docs/architecture.md` 66-74). For the waits, weak fairness of the clock at a wait
  (`Samples`); nothing is assumed of pins and events, the timeout ends the wait.
* `host_link`: weak fairness of the library's own progress: the calling thread goes
  on. Nothing is assumed of the queues. Idle pauses (`read_word`'s `pauses`) are finite
  lists in the code, which the fairness of `Progress` stands for.
* `promotion`: the driver keeps looping (it is restarted by its supervisor); the cluster
  works, in any order: jobs it accepted start and end, and time passes for a result that is
  awaited and does not appear. One fairness for all jobs is enough, as each has finitely many
  such steps. A job that is lost instead is one of the faults. `SubmittedEnds` says that
  again and again no trial and no stage has a job out.
* `tools`: the PIO clock runs, the CPU's thread goes on, and a deadline that has passed is
  noticed.

### Where code and documentation differ

`host_link_verdict` shows that `command` can report a command as rejected that the chip
accepted. The docstring of `command` (`host/pe_host/host.py` 289-291) says the result is
False "when it rose across the word (the chip rejected it and set its sticky host fault)".
FAULT is raised by engine faults too. If an engine faults between the first and the last
sample of the word, FAULT rises although the command was accepted and executed; with
`strict` the library raises `CommandRejected`, and an OWN is then missing from the
library's record of driven pins (327-328). The converse, `AcceptedIsAccepted`, holds.

`optimizer_duplicate`: `docs/notes/optimization.md` 1424 says that a knob set already run,
running or imported is recorded as a duplicate and no job runs. `new_trial` records a
duplicate by two events (`driver.py` 698 and 702); a driver stopped between them leaves a
trial that is submitted like any other, into the directory of the run it duplicates. Without
a stop, `OneRunUnlessStopped` holds.

`timing_deadlock`: `docs/timing-analysis.md` 107 calls a self-deadlock certain.
`_stall_bounds` reports it when one way into a wait cannot end (`pe_timing.py` 586-590),
although another way into the same node in the same context can.

`cpu_cap`: `submit.py` (47-50) says that the CPU cap "holds at every moment" and that the
estimates affect the order, "never the cap". `capacity_chunks` replays a queued task onto
the chunks of its dependencies in the order of the present estimates, which need not be the
chunks it was placed on. When the estimates have changed, the next queued task can find its
dependency used up; it is then charged to other chunks (282-284), and the one left over goes
to a new task although its CPUs are taken at that time. Three calls and six tasks are enough.
`flow` checks that with tasks of one size, as the default of 32 CPUs makes them, the cap holds,
also over calls with different budgets.

Three narrower limits are in the statements of the properties. `ImportedOnce` holds unless
an *exception* tears an import between study and store (the next loop may import before it
repairs); a stop there is repaired. `PeriodsHold` leaves out loop headers
that are themselves the data-dependent branch of a loop without boundary (`_soft_branches`,
600): a segment ends at them, while `loop_periods` (1191-1193) looks for their issue within
one, as it does for every header that cannot stall.
`EqPassProved` relies for a defective recipe on the mutants and the controls that expect
`not_equivalent`: the two that expect `error` (`c8_gated_clock`, `c9_negedge`) are also met
by a tool that fails while it runs them, and the check then passes without having seen its
recipe refuse a clock.

## 4. The proofs

A proof module extends the modules it is about; it holds for all values of the constants
that satisfy the named assumptions of these modules.

| Module | Proved |
|---|---|
| `StorageProofs` | the ring invariant; the three storages show one head, and it is that of `BoundedQueue`, which the ring refines; both program memories deliver the committed word |
| `ControlProofs` | the control invariant; images, exclusive ownership, pins; immutable images, fixed live configuration and sticky faults as action properties |
| `MoverProofs` | the two arbitration circuits agree, one grant, at most `EngineCount - 1` grants of waiting; types of queues and routes, held reads, and that words are neither lost nor copied nor overtaken |
| `HostPortProofs` | the port invariant, agreement of the write circuits, refinement of `WordPort`; of the library: calls move what they report, statuses are of this call's READ_SELECT, accepted is accepted, and the port it drives refines `WordPort` |
| `EngineProofs` | instruction costs, timeouts and the two counters; no artificial edge, and a wake for every pulse; waveform and bits of a fused transfer |
| `OptimizerProofs` | final verdicts, results of their jobs, agreement of study and store, single imports, one run without stops, and that PASS is what was signed off |
| `EvidenceProofs` | what the ledger calls certified was proved for those files; what the equivalence check lets pass implements the RTL; a netlist whose structure it accepts has one clock; of the sweep: a run has one job, a complete run is not submitted unasked, and a complete row describes what was run |
| `LockstepProofs` | the clock, ui and reset of the lockstep port keep the schedule of its PIO program, wherever the steps of the CPU fall; its count of frames agrees with the rising edges at every stamp, whole wraps included while `count_exact` stands |

*Queues.* `RingInv` says which slots hold words (`SlotOf(i)` for i below the level), that
`wr` is the slot after the last, and that on those slots the three storages agree, reading
through the staging register (`StagedWord`). Agreement only on the held slots is what makes
it inductive: the free-slot form overwrites another slot on every edge. The refinement
mapping is the sequence of held words.

*Fetch.* The conclusion is about the SRAM's output register, so the invariant relates it to
the store at the program counter *while running*: a program word, which spoils the register,
requires a halted engine, and START reads address 0 before the first instruction. For the
prefetched word the tag must be tied to the store's present contents, again only while
running.

*Control.* `ControlInv` adds to the properties what they need one step earlier: a committed
image has length `loaded`, an engine that is writing is neither committed nor running, a
faulted engine does not run, latched enables are owned while the engine runs and empty when
it does not. Exclusive ownership is inductive by itself, but `PinFidelity` (a pin shows what
its only owner says) needs it together with the latches.

*Arbiter.* The wait bound is not inductive. `RankInv` relates the number of grants waited to
the rotating distance `Order(k, rr)`: each grant to another source moves the cursor past
that source, which lay before k, so the distance falls at least as fast as the wait grows.
The arithmetic of the rotation is in lemmas on `Order`. The bound is on grants to a source
that stays eligible, which is what `docs/architecture.md` claims; whether it becomes
eligible at all is the question of `progress`.

*Mover.* `MoverInv` keeps, beside order and place of every word, `Behind`: what a TX queue
holds of an origin is older than what the origin's RX queue still holds. Without it a word
that is moved could overtake one that went before. `Held` and `gone` together are the words
that were sent, which is conservation; a held read stays at the head because `Eligible`
excludes the source the host reads.

*Host port.* `PortInv` says that slots below the write index hold what the top of the shift
buffer holds, and that an offered word belongs to the window being visited. The abstract
`partial` is the slots below the index, `offered` the nibbles from the read index on.

*Library.* `LinkInv` ties the place a call has reached in its plan to the port's registers:
nibbles written are those of the word up to the index, nibbles read are those of the
snapshot, and the words the chip accepted or gave away during the call are those its place
implies. `StatusFresh` collects in `since` what the chip can have shown from this call's
READ_SELECT on; a snapshot from before it is forgotten with the visit to another window
(`StatusSeen`, `StatusGot`). `command`'s verdict needs `Judged`: before the last look at FAULT the word was
accepted or the host fault is set, so that FAULT cannot read low after a rejected word.

*Engine, mailboxes, transfer.* `TimelyInv` makes the cost of an instruction inductive by the
shape of the timer, and `HeldOnce` that one of timer and transfer is at rest. The synchronizer
registers are the last samples of the trace as soon as it is long enough, and a detector
cannot be enabled earlier (`FilledInv`); this is where the assumption of three edges before
a command is used. `PulsesCounted` compares two accounts that share no expression: pulses
between real pin levels, three samples before a detector sees them, and wakes of a loop that
is away for one edge after each. `CountingInv` adds that no pulse is at the detector of an
engine that is away while its mailbox holds an event (`AwayInv`): pulses of one direction are
two edges apart, so the bit is free when the next one arrives.

A transfer is described in closed form, `InTransfer(h, odd)`: what both
shift registers and pins are after h bits and a half.

*Optimizer.* A stop may fall between any two effects of a handler, so the invariants
(`TrialInv`, `StudyInv`, `ImportInv`, `OneRunInv`, `SignoffInv`) speak of `todo`, the effects
still to perform, as much as of the store: a trial's value is its own *or about to be
recorded*, a study word follows an event *in the store or before it in `todo`*. `ImportInv`
allows for the exception that tears an import in the loop (`TornByError`). At a restart
`todo` is empty and the store alone must do; the clauses are what it then still says.

*Evidence.* `CertInv` holds only three facts (a record has its campaign's versions, the
obligations of these, and is certified only if they are in `evidence`), because `check`
recomputes everything else. `EqInv` says that recorded verdicts are the truth about the text
they name, that the files of the case under way are made of that text, and that an artifact
gets to its cases only with the PDK it was made for. Its hypothesis `Distinct` (texts have
different names) is checked by TLC in `MCFlow` as `CheckerAssumption`.

*Netlist.* A clock pin is traced by a recursive function, `clock_depth`; that it is the walk
it describes (`ClockDepthWalks`), and that every net on the walk has the level of the first
(`WalkKeepsLevel`), is by induction on the number of steps, from the well-foundedness of <
(`NatSetInduction`: a set that contains 0 and is closed under successors contains every
number). A step keeps the level because the only cell that `cell_role` calls an identity is
the buffer. The assumption `WellFormed` says that netlists are finite and that pins and
assigns name their nets; that the structure is free of combinational loops is not needed.

*Sweep.* That a run has one job is not inductive: it depends on what a shell has found out
before. `SweepInv` says that only the last job of a run may be under way (`OnlyLast`), that
this job is the run's record or held by the shell that is about to write it (`RowsKept`),
that what a call knows of its runs stays true until it has submitted them (`Known`,
`DueRuns`), and that a result the pool does not show yet is of a job that is active or ended
recently (`HiddenRecent`), which is what the five-minute window of `run_state` is for; and
that a call, which builds its directories one by one, leaves those it has passed described
(`Halfway`). The hypothesis `Separate`, that no run is in two matrices, is `SweepAssumption` in `MCFlow`;
without it two calls can submit one run at the same time. A call with several arrays is
covered by the proof only; the run has one run per shell.

*Lockstep port.* `LockInv` says in which cycle of the six-cycle frame each instruction is
executed (`Slot`): the time since the rising edge and the rest of a delay add up to it, also
when a handshake stalls, and the clock's level is that of the slot. That every instruction
leads from its slot to that of each possible successor is a fact about the program alone
(`ProgramFits`, 32 cases). The jumps whose target is data are covered by `Branches`: a
dispatched word is an operation or HALT, OUT PC of a sampled strobe goes to 0 or 1, and
DISP's pull never waits, as the queue was looked at before it. For reset, `Discipline` says
that in the TX FIFO the releasing word follows HALT and nothing else does, and `InStep` that
the host is in the steps of a reset exactly when a HALT is not released (`Owing`), so a
program at HALT with an empty queue stays there. `PinsOnSchedule` needs that `wait_halted`
sleeps at least two PIO cycles (one to dispatch HALT, one to pull the clock low); 2 µs at the
RP2's clock are hundreds. That `run_ops` cuts any list of operations into chunks of the same
operations (`ChunksType`) is by induction on its length.

`StampsExact` is about numbers that are far apart in time: the host books an operation's
fixed frames in `sigma` when it puts the word, the program counts idle and stalled frames
down in Y while it works through the words, and the host subtracts when it takes the result.
`CountInv` has a ledger of the operations booked and not yet answered, each with its sigma and
the place of its result (`Ledger`): the first is the one the program is in, the next are the
words in the TX FIFO and then those the host has still to put (`Waiting`). For the first, Y,
the rising edges and the frames the program still owes at its address (`Rest`) add up to its
sigma modulo `YModulus` (`At`); every frame of the program then keeps the sum, and DISP moves
on to the next entry, whose sigma is larger by exactly the frames `Rest` starts with. The
stamps in the RX FIFO are those of the entries before (`Returned`). Cutting the operations
into chunks must not leave a result without room, which is why the invariant bounds the
results by `RxDepth`; that a chunk of any length is booked entry by entry is by induction on
its length, and so is that it collects as it should. After a start or a timeout the ledger is
one entry, booked at no frame and answered (`Start`).
For whole wraps of Y, `_stamp` takes the bounds `low` and `high` it computes from ticks: any
`low` at most, and any `high` at least, the frames since the last stamp, up to `Slack` off.
That the microsecond ticks are such bounds is assumed; the clocks of the RP2 are not
modelled. If they are less than one range of Y apart, only one number between them agrees
with Y, and `drift` stays 0. Before the first stamp the code has no bounds, so a wrap between
the start of the program and its first result is not counted and `count_exact` stays True:
the property does not claim it, and the port's "exact number" (`pio_lockstep.py` 45, 400)
holds only for programs whose first result is read within one range of Y (0.67 s at 25 MHz).

*Assumptions.* Positive sizes and non-empty sets (`DepthAssumption`, `WordsAssumption`,
`ControlAssumption`, `CountAssumption`, `FetchAssumption`, `EngineAssumption`,
`ImagesAssumption`, `TransferAssumption`, `MoverAssumption`, `PortAssumption`,
`LinkAssumption`, `OptimizerAssumption`, `SignoffAssumption`, `LockstepAssumption`), and in
`CommandAssumption` the
three edges above, of which the chip has eight. TLC evaluates all of them.

### Only model-checked

* Liveness (`RoutedWordsMove`, `BlockedEnds`, `CallsReturn`, `SubmittedEnds`): the prover has
  no ENABLED and so no fairness.
* `Tracked`, `PeriodsHold` and `ContractsHold`: the analyzer and its checker are recursive
  operators over programs and use bitwise arithmetic, which the prover's modules exclude.
* `CapHolds` (for tasks of one size; in general it is false) and `VerdictSound`: statements
  about sorted and folded lists, of chunks and of samples. `PortKept`: the words of whole calls, which needs the nibbles the chip has taken
  tied to the ledger of `CountInv`.

### Not covered

Hazards without a property, with the line in `PROJECT.json`: the levels `rx_drain` reads and
the faults `clear_faults` reads may change before they are used; a program upload that fails
half way; engines that signal and wait for one another with STOP, START and FLUSH between;
release of the asynchronous reset within a cycle; duplicates left waiting when the driver
stops between their original's result and their own (the study keeps them running); `squeue` that fails, and a shell killed
between `sbatch` and its records; two concurrent calls of `submit.py`, which count the same
budget and can exceed the cap together; snapshots left without `params.json`; `--force`;
the contract of an SPI target that rearms; `read_word` of the lockstep port after a timeout;
a WORK directory used by two campaigns and an OUT directory used by two checks; matrices of
two shells that overlap.

Details left out of definitions that are modelled: the RP2 clocks behind the tick bounds of
`_stamp` (above); `INF + -INF` in `_solve_max`, NaN in the code's floats and a finite number
here, which no checked program reaches; the combinational branch of `parse_abc`
(`eq_check.py` 897-906, every miter of this design has flip-flops); the module name and port
width checks of `analyze_structure` (583-588); `pe_capture.py --reference` (981-985), where
the pattern comes from another capture: the model's verdict is about the pattern the capture
itself shows; `status` fields of the host link beyond one bit that may change at any edge; and
that tasks of one size which differ in memory or time are submitted in groups (`submit.py`
423-425), not in the order of the plan.

## 5. Plan

1. Done: queues, control, mover, mailboxes, port, library, fetch, engine, transfer, analyzer,
   contracts, certificates, optimizer, equivalence checker, sweep, lockstep port, capture
   analysis, with the runs and proofs above.
2. Proofs: the words of the lockstep port (`WriteExactlyOnce`, `ReadExactlyOnce`), on top of
   `CountInv`.
3. `Processor`: Control, Mover, Mailbox and Engine composed for two engines: rendezvous by
   SIGNAL and WAITEVENT, STOP and START against pending events, FLUSH against queues of
   engines that run. It must imply what each part assumes of the others.
4. `HostCalls`: the library's call sequences over the port (`load_program`, `rx_drain`,
   `fault_report`, `clear_faults`) while engines and the mover go on.
5. `Bridge`: the UART front end of the FPGA build, refined to the port contract of
   `HostLink`; then the capture unit.
6. The line unit: ticker, stuffing and codes, as `Transfer` with a boundary generator.
7. The asynchronous reset styles, with release at any point between two edges.

------------------------------- MODULE Mover -------------------------------
(***************************************************************************)
(* The queues of the chip and everything that moves a word: the engines    *)
(* (PULL, PUSH), the host (windows 2 and 3) and the autonomous mover that  *)
(* forwards words from an RX queue to a TX queue (hardcaml/lib/            *)
(* processor.ml 171-189 and 231-283, host.ml 58-96).                       *)
(*                                                                         *)
(* One step is one clock edge: the host completes at most one word, any    *)
(* engines pull and push, and the mover accepts at most one word.  Words   *)
(* carry their origin and a number, so that losing, copying or reordering  *)
(* one is visible.  An engine is its requests: `pulls' and `pushes' are    *)
(* the engines whose PULL or PUSH issues on the edge.                      *)
(***************************************************************************)
EXTENDS QueueEdge, RoundRobin

CONSTANTS
  MaxRoute,     \* largest word count of a ROUTE command (2^16 - 1 on the chip)
  Budget,       \* words each engine (and the host) puts in: bounds the model
  None          \* no word is presented to the host

Host    == EngineCount
Origins == Engines \cup {Host}

ASSUME MoverAssumption ==
  /\ Depth \in Nat \ {0} /\ MaxRoute \in Nat
  /\ Budget \in [Origins -> Nat]
  /\ None \notin Origins \X Nat

VARIABLES
  selected,    \* engine whose queues windows 2 and 3 address
  window,      \* the host's window on the last edge (previous_window)
  snapshot,    \* word presented to the host in window 3, or None
  wordDone,    \* the host completed a word on the last edge
  tx, rx,      \* the queues
  routeCount,  \* words each source may still forward
  routeDest,   \* where to
  rr,          \* round-robin cursor of the mover
  sent,        \* history: words each origin has put in
  gone         \* history: words taken out by an engine, the host or a FLUSH

routeVars == <<routeCount, routeDest>>
vars == <<selected, window, snapshot, wordDone, tx, rx, routeVars, rr, sent, gone>>

Word(origin) == <<origin, sent[origin] + 1>>
SentWords    == UNION {{<<o, i>> : i \in 1 .. sent[o]} : o \in Origins}
InQueue(q)   == {q[i] : i \in DOMAIN q}

Init ==
  /\ selected = 0 /\ window = 0 /\ snapshot = None /\ wordDone = FALSE
  /\ tx = [k \in Engines |-> << >>] /\ rx = [k \in Engines |-> << >>]
  /\ routeCount = [k \in Engines |-> 0] /\ routeDest = [k \in Engines |-> 0]
  /\ rr = 0
  /\ sent = [o \in Origins |-> 0] /\ gone = {}

-----------------------------------------------------------------------------
(* What the host does on an edge: ui[7:6] shows window `w', and the edge   *)
(* may complete a word.  On the first edge of a new window nothing is      *)
(* accepted (the bubble), and a word has eight nibbles, so two never       *)
(* complete on consecutive edges.                                          *)
NoWord  == [kind |-> "none"]
Steady(w) == w = window
Completes(w, word) ==
  \/ word.kind = "none"
  \/ /\ Steady(w) /\ ~wordDone
     /\ \/ w = 0 /\ word.kind \in {"select", "route", "flush"}
        \/ w = 2 /\ word.kind = "tx" /\ Ready(tx[selected]) /\ sent[Host] < Budget[Host]
        \/ w = 3 /\ word.kind = "rx" /\ snapshot # None

(* Mutants: nothing is reserved; the selected queue is reserved in every   *)
(* window.                                                                 *)
XReserved_Off(k, w)    == FALSE
XReserved_Always(k, w) == Steady(w) /\ k = selected

(* While the host stays in window 3 the mover leaves the selected RX queue *)
(* alone (read_lock).                                                      *)
Reserved(k, w) == Steady(w) /\ w = 3 /\ k = selected

(* Mutant: a host write to the destination on the same edge is not seen.   *)
XEligible_HostRaces(w, word) ==
  {k \in Engines :
     /\ routeCount[k] # 0 /\ Valid(rx[k]) /\ Ready(tx[routeDest[k]]) /\ ~Reserved(k, w)
     /\ ~(word.kind = "route" /\ word.source = k)
     /\ ~(word.kind = "flush" /\ selected \in {k, routeDest[k]})}

(* A source is eligible when its route has words left, it has a word, the  *)
(* destination has room, and no host operation of this edge touches what   *)
(* the transfer would touch.                                               *)
Eligible(w, word) ==
  {k \in Engines :
     /\ routeCount[k] # 0 /\ Valid(rx[k]) /\ Ready(tx[routeDest[k]])
     /\ ~(word.kind = "tx" /\ selected = routeDest[k])
     /\ ~Reserved(k, w)
     /\ ~(word.kind = "route" /\ word.source = k)
     /\ ~(word.kind = "flush" /\ selected \in {k, routeDest[k]})}

(* The queues on one edge: pushes by the host or the mover (tx) and the    *)
(* engines (rx), pops by the engines (tx) and the host or the mover (rx).  *)
Queues(word, granted, pulls, pushes) ==
  LET source       == CHOOSE k \in granted : TRUE
      fromHost(d)  == word.kind = "tx" /\ selected = d
      incoming(d)  == granted # {} /\ routeDest[source] = d
      flushed(k)   == word.kind = "flush" /\ selected = k
  IN  /\ tx' = [d \in Engines |->
                  After(tx[d], fromHost(d) \/ incoming(d), d \in pulls, flushed(d),
                        IF fromHost(d) THEN Word(Host) ELSE Head(rx[source]))]
      /\ rx' = [k \in Engines |->
                  After(rx[k], k \in pushes,
                        (word.kind = "rx" /\ selected = k) \/ k \in granted,
                        flushed(k), Word(k))]

(* Route counters: a grant takes one, ROUTE loads its source's, FLUSH      *)
(* cancels the routes from and to the selected engine.                     *)
Routes(word, granted) ==
  /\ routeCount' = [k \in Engines |->
       IF word.kind = "flush" /\ selected \in {k, routeDest[k]} THEN 0
       ELSE IF word.kind = "route" /\ word.source = k THEN word.count
       ELSE IF k \in granted THEN routeCount[k] - 1
       ELSE routeCount[k]]
  /\ routeDest' = [k \in Engines |->
       IF word.kind = "route" /\ word.source = k THEN word.dest ELSE routeDest[k]]

(* The word the host sees in window 3 is copied from the selected queue    *)
(* when nothing is presented, and stays until its last nibble is accepted  *)
(* or the window changes.                                                  *)
Snapshot(w, word) ==
  snapshot' = IF ~Steady(w) \/ word.kind = "rx" THEN None
              ELSE IF w = 3 /\ snapshot = None /\ Valid(rx[selected]) THEN Head(rx[selected])
              ELSE snapshot

(* What leaves the chip's queues on the edge.                              *)
Taken(word, pulls) ==
  {Head(tx[k]) : k \in pulls}
    \cup (IF word.kind = "rx" THEN {snapshot} ELSE {})
    \cup (IF word.kind = "flush" THEN InQueue(tx[selected]) \cup InQueue(rx[selected]) ELSE {})

(* One clock edge.  FLUSH and only FLUSH needs the selected engine halted. *)
Edge(w, word, pulls, pushes) ==
  LET granted == Granted(Eligible(w, word), rr)
  IN  /\ word.kind = "flush" => selected \notin pulls \cup pushes
      /\ Queues(word, granted, pulls, pushes)
      /\ Routes(word, granted)
      /\ Snapshot(w, word)
      /\ rr' = NextCursor(granted, rr)
      /\ selected' = IF word.kind = "select" THEN word.engine ELSE selected
      /\ window' = w
      /\ wordDone' = (word.kind # "none")
      /\ sent' = [o \in Origins |->
                    IF o \in pushes \/ (word.kind = "tx" /\ o = Host) THEN sent[o] + 1 ELSE sent[o]]
      /\ gone' = gone \cup Taken(word, pulls)

-----------------------------------------------------------------------------
Windows == 0 .. 3

(* The engines that may pull and push: PULL needs a word, PUSH needs room. *)
CanPull == {k \in Engines : Valid(tx[k])}
CanPush == {k \in Engines : Ready(rx[k]) /\ sent[k] < Budget[k]}

Clock(w, word) ==
  /\ Completes(w, word)
  /\ \E pulls \in SUBSET CanPull, pushes \in SUBSET CanPush : Edge(w, word, pulls, pushes)

Quiet     == \E w \in Windows : Clock(w, NoWord)
HostWrite == Clock(2, [kind |-> "tx"])
HostRead  == Clock(3, [kind |-> "rx"])
Flush     == Clock(0, [kind |-> "flush"])
Select    == \E k \in Engines : Clock(0, [kind |-> "select", engine |-> k])
(* A ROUTE whose enable bit is clear loads count 0.                        *)
Route     ==
  \E source, dest \in Engines, count \in 0 .. MaxRoute :
    Clock(0, [kind |-> "route", source |-> source, dest |-> dest, count |-> count])

(* The chip's clear: every register returns to zero.                       *)
Reset ==
  /\ selected' = 0 /\ window' = 0 /\ snapshot' = None /\ wordDone' = FALSE
  /\ tx' = [k \in Engines |-> << >>] /\ rx' = [k \in Engines |-> << >>]
  /\ routeCount' = [k \in Engines |-> 0] /\ routeDest' = [k \in Engines |-> 0]
  /\ rr' = 0
  /\ UNCHANGED sent /\ gone' = SentWords

Next == Quiet \/ HostWrite \/ HostRead \/ Flush \/ Select \/ Route \/ Reset

Spec == Init /\ [][Next]_vars

-----------------------------------------------------------------------------
TypeOK ==
  /\ selected \in Engines /\ window \in Windows /\ wordDone \in BOOLEAN
  /\ snapshot \in SentWords \cup {None}
  /\ \A k \in Engines :
       /\ Len(tx[k]) \in 0 .. Depth /\ InQueue(tx[k]) \subseteq SentWords
       /\ Len(rx[k]) \in 0 .. Depth /\ InQueue(rx[k]) \subseteq SentWords
  /\ routeCount \in [Engines -> 0 .. MaxRoute] /\ routeDest \in [Engines -> Engines]
  /\ rr \in Engines /\ gone \subseteq SentWords

(* No word is lost or copied on its way: each word that was accepted is in *)
(* exactly one place of one queue, or has been taken out by its reader, a  *)
(* FLUSH or a reset -- whatever the host, the engines and the mover do on  *)
(* the same edges (processor.ml 231-246, 277-283).                         *)
Copies(queues, word) ==
  Cardinality({place \in Engines \X (1 .. Depth) :
                 LET queue == queues[place[1]]
                 IN  place[2] \in DOMAIN queue /\ queue[place[2]] = word})
Conservation ==
  \A word \in SentWords :
    Copies(tx, word) + Copies(rx, word) = IF word \in gone THEN 0 ELSE 1

(* Words of one origin keep their order: within a queue, and an engine's   *)
(* forwarded words are older than those still in its RX queue.             *)
Older(v, w) == v[1] = w[1] => v[2] < w[2]
InOrder ==
  \A k \in Engines :
    /\ \A i, j \in DOMAIN tx[k] : i < j => Older(tx[k][i], tx[k][j])
    /\ \A i, j \in DOMAIN rx[k] : i < j => Older(rx[k][i], rx[k][j])
    /\ \A d \in Engines : \A v \in InQueue(tx[d]), w \in InQueue(rx[k]) : Older(v, w)

(* ... none is lost, copied or overtaken.                                  *)
WordsKept == Conservation /\ InOrder

(* The word the host is reading is still the oldest of the selected queue: *)
(* its last nibble pops the word the host has seen, however long the host  *)
(* stalls and whatever the mover does ("the host owns the selected RX      *)
(* read until consumed", docs/isa.md 90-91; host.ml 10-11, 46, 79).        *)
HeldRead ==
  snapshot # None =>
    /\ window = 3
    /\ Valid(rx[selected]) /\ snapshot = Head(rx[selected])

-----------------------------------------------------------------------------
(* Liveness.  The clock runs, and a word has eight nibbles: edges on which *)
(* the host completes none keep coming.                                    *)
Fairness == WF_vars(Quiet)
FairSpec == Spec /\ Fairness

(* A source whose route has words left does not sit on its words for ever, *)
(* as long as every engine keeps emptying its TX queue and the host keeps  *)
(* leaving window 3 (it must release its reservation, docs/architecture.md *)
(* 66-74).  The words are numbered and finitely many, so each one of them  *)
(* moves on unless its route is taken away.                                *)
RoutedWordsMove ==
  ([]<>(window # 3) /\ \A k \in Engines : []<>(tx[k] = << >>)) =>
    \A k \in Engines : []<>(routeCount[k] = 0 \/ rx[k] = << >>)
=============================================================================

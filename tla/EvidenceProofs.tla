--------------------------- MODULE EvidenceProofs ---------------------------
(***************************************************************************)
(* Proofs about what the tools call certified and equivalent.              *)
(*                                                                         *)
(* Certify, for every generator, CI budget and number of edits and         *)
(* campaigns: an image that the ledger calls certified was proved in full  *)
(* for exactly the files of the tree it is asked about.                    *)
(*                                                                         *)
(* EqCheck, for every set of netlists, command lines and controls and any  *)
(* number of runs, tool faults and rewrites: a result that passes is about *)
(* a netlist that implements the RTL.                                      *)
(*                                                                         *)
(* Netlist, for every netlist of the cells of its library: one whose       *)
(* structure is accepted has one clock.                                    *)
(*                                                                         *)
(* Sweep, for every set of shells, matrices and calls and any number of    *)
(* jobs, edits and faults: a run has one job at a time, and a row that     *)
(* says complete describes what was run.                                   *)
(***************************************************************************)
EXTENDS Certify, EqCheck, Netlist, Sweep, FiniteSetTheorems, WellFoundedInduction, TLAPS

Versions == [Inputs -> {0, 1}]

(* A record holds the versions of its campaign and the obligations of      *)
(* these, and calls the image certified only if all of them were proved.   *)
RecordTrue ==
  /\ book.inputs \in Versions
  /\ book.obligations = obligations(book.inputs)
  /\ book.certified => book.inputs \in evidence

CertInv ==
  /\ head \in Versions /\ rev \in Versions /\ snap \in Versions
  /\ book # NoRecord => RecordTrue

(* A campaign without a problem has proved every run of its queue, and no  *)
(* wrong prediction.                                                       *)
LEMMA NoProblem ==
  ASSUME problems = {}
  PROVE  /\ \A r \in Whole \cup Chunks \cup Covers \cup Campaign : results[r] = "PASS"
         /\ \A r \in Negative : results[r] # "PASS"
<1>1. proved("n0") /\ proved("n1")
  BY DEF problems
<1>2. Passed(Covers) /\ Passed(Campaign) /\ \A r \in Negative : results[r] # "PASS"
  BY DEF problems
<1>3. Passed(Whole) /\ Passed(Chunks)
  BY <1>1 DEF proved, WholeOf, ChunksOf, Passed
<1> QED BY <1>2, <1>3 DEF Passed

LEMMA CertInitially == CertInit => CertInv
BY DEF CertInit, CertInv, Versions, NoRecord

(* Only the end of a campaign writes a record.                             *)
LEMMA RecordStep == ASSUME CertInv, Record PROVE CertInv'
<1>1. /\ book' = [campaign |-> campaigns, inputs |-> snap, obligations |-> obligations(snap),
                  certified |-> problems = {}]
      /\ head' = head /\ rev' = rev /\ snap' = snap
  BY DEF Record
<1>2. book'.inputs = snap /\ book'.obligations = obligations(snap)
  BY <1>1
<1>3. book'.certified <=> problems = {}
  BY <1>1, Zenon
<1>4. problems = {} => snap \in evidence'
  BY NoProblem DEF Record
<1> QED BY <1>1, <1>2, <1>3, <1>4 DEF CertInv, RecordTrue, obligations

LEMMA CertStep == CertInv /\ [CertNext]_certVars => CertInv'
<1> SUFFICES ASSUME CertInv, [CertNext]_certVars PROVE CertInv'
  OBVIOUS
<1>1. CASE \E f \in Inputs : Edit(f)
  <2>1. PICK f \in Inputs : Edit(f)
    BY <1>1
  <2>2. head' \in Versions
    BY <2>1 DEF Edit, CertInv, Versions
  <2> QED BY <2>1, <2>2 DEF Edit, CertInv, RecordTrue, obligations
<1>2. CASE Prepare
  <2>1. Exported \in Versions
    BY DEF Exported, CertInv, Versions
  <2> QED BY <1>2, <2>1 DEF Prepare, CertInv, RecordTrue, obligations
<1>3. CASE Record
  BY <1>3, RecordStep
<1>4. CASE Certify \/ Run \/ Retry \/ UNCHANGED certVars
  BY <1>4 DEF Certify, Run, Retry, certVars, CertInv, RecordTrue, obligations
<1> QED BY <1>1, <1>2, <1>3, <1>4 DEF CertNext

(* The record, the digests and the evidence agree in every state.          *)
THEOREM RecordsTrue == CertSpec => []CertInv
BY CertInitially, CertStep, PTL DEF CertSpec

(* An empty list of reasons means a record of the very files of the tree.  *)
LEMMA CertifiedTree ==
  ASSUME CertInv, ledger_check(head) = {}
  PROVE  head \in evidence
<1>1. book # NoRecord
  BY DEF ledger_check
<1>2. book.certified
  BY <1>1, Zenon DEF ledger_check
<1>3. \A f \in {"image", "rtl", "harness"} : book.inputs[f] = head[f]
  BY <1>1 DEF ledger_check
<1>4. book.obligations = obligations(head)
  BY <1>1, <1>2, <1>3 DEF ledger_check
<1>5. book.inputs["generator"] = head["generator"]
  BY <1>1, <1>4 DEF CertInv, RecordTrue, obligations
<1>6. book.inputs = head
  BY <1>1, <1>3, <1>5 DEF CertInv, RecordTrue, Versions, Inputs
<1> QED BY <1>1, <1>2, <1>6 DEF CertInv, RecordTrue

(* Whatever changes the answer changed an input, and is planned for.       *)
LEMMA ChangeIsPlanned ==
  ASSUME CertInv, NEW before \in Versions, ledger_check(before) = {}, ledger_check(head) # {}
  PROVE  LET changed == {f \in Inputs : before[f] # head[f]}
         IN  plan(changed) \cup reported(changed) # {}
<1> DEFINE changed == {f \in Inputs : before[f] # head[f]}
<1>1. before # head
  OBVIOUS
<1>2. PICK f \in Inputs : before[f] # head[f]
  BY <1>1 DEF CertInv, Versions
<1>3. f \in changed /\ changed \subseteq Inputs
  BY <1>2
<1>4. "image" \in changed \/ changed \cap (Tools \cup {"rtl"}) # {}
  BY <1>3 DEF Inputs, Tools
<1>5. want(changed) = {"image"}
  BY <1>4 DEF want
<1> QED BY <1>5 DEF plan

(* ledger.py 4, "certified, for which bytes, on which RTL": whatever is    *)
(* edited while campaigns run, a tree that check calls certified was       *)
(* proved in full, and a push that loses the certificate is planned for or *)
(* reported.                                                               *)
THEOREM CertificatesHold == CertSpec => []CertifiedIsProved
<1>1. CertInv => CertifiedIsProved
  <2> SUFFICES ASSUME CertInv PROVE CertifiedIsProved
    OBVIOUS
  <2>1. ledger_check(head) = {} => head \in evidence
    BY CertifiedTree
  <2>2. \A before \in [Inputs -> {0, 1}] :
          ledger_check(before) = {} /\ ledger_check(head) # {} =>
            LET changed == {f \in Inputs : before[f] # head[f]}
            IN  plan(changed) \cup reported(changed) # {}
    BY ChangeIsPlanned DEF Versions
  <2> QED BY <2>1, <2>2 DEF CertifiedIsProved
<1> QED BY <1>1, RecordsTrue, PTL

-----------------------------------------------------------------------------

NetlistFiles == DOMAIN Content
Texts    == NetlistFiles \cup Names \cup {"none"}
Files    == {NoFile} \cup [kind : {"made"}, gold : Texts, gate : Texts]
Final    == {"equivalent", "not_equivalent", "error", "undecided", "timeout"}
CaseVerdicts == Final \cup {"none", "no_gold"}
Cased    == {"gold", "gate", "miter", "abc"}        \* where a case is under way
Working  == Cased \cup {"report"}
Early    == {"inputs", "copy", "structure"}

CaseRecords == [verdict : CaseVerdicts, frame : Nat]
Commands ==
  [at : Early \cup Working, args : Arguments, recorded : NetlistFiles \cup {"none"},
   todo : Seq(Names), case : [Names -> CaseRecords]]
Results ==
  [kind : {"result"}, verdict : Final, exit_code : 0 .. 3, pass : BOOLEAN,
   netlist : NetlistFiles \cup {"none"}, args : Arguments]
Directories ==
  [result : {NoFile} \cup Results, netlist : NetlistFiles \cup {"none"},
   gold : [Names -> Files], gate : [Names -> Files], aig : [Names -> Files]]

EqTypeOK ==
  /\ shelf \in [netlist : NetlistFiles, sums : Sums]
  /\ out \in Directories
  /\ cmd \in {Idle} \cup Commands

(* A run under way has no result in its directory.                         *)
NoStale == cmd.at # "idle" => out.result = NoFile

(* The netlist that is checked is the copy, which the artifact's PDK and   *)
(* the parser have accepted.                                               *)
RightPdk(nl) ==
  cmd.args.given = "artifact" /\ ~cmd.args.allow_pdk_mismatch => Content[nl].pdk = PDK
Named ==
  /\ cmd.at = "copy" => RightPdk(shelf.netlist)
  /\ cmd.at \in Working \cup {"structure"} =>
       cmd.recorded = out.netlist /\ out.netlist \in NetlistFiles /\ RightPdk(out.netlist)
  /\ cmd.at \in Working => Parses(Content[out.netlist].text)

(* A verdict that was recorded is the truth about its text, as far as the  *)
(* recipe shows it; the netlist is the first case.                         *)
Text(n) == IF n = "netlist" THEN out.netlist ELSE n
Truth(verdict, n) ==
  /\ verdict = "equivalent" => ~Seen(Difference(Text(n)))
  /\ verdict = "not_equivalent" => Seen(Difference(Text(n)))
Judged == cmd.case["netlist"].verdict \in Final
CasesTrue ==
  /\ cmd.at \in Early => \A n \in Names : cmd.case[n].verdict = "none"
  /\ cmd.at \in Working => \A n \in Names : Truth(cmd.case[n].verdict, n)
  /\ cmd.at \in Cased => cmd.todo # << >> /\ (Now = "netlist" \/ Judged)
  /\ cmd.at = "report" => Judged

(* The files of the case under way are made from its text.                 *)
FilesFresh ==
  /\ cmd.at = "miter" => out.gate[Now] \in {NoFile, Made("none", Text(Now))}
  /\ cmd.at = "abc" => out.aig[Now] # NoFile /\ out.aig[Now].gate = Text(Now)

(* What a result that passes stands for.                                   *)
Proved(file, args) ==
  LET nl == Content[file]
      trusted == /\ blind = "nothing" \/ (args.selftest /\ blind \in Shown)
                 /\ nl.pdk = PDK \/ (args.given = "artifact" /\ ~args.allow_pdk_mismatch)
  IN  trusted => nl.kind = "none" /\ Parses(nl.text)
ResultSound ==
  out.result.kind = "result" /\ out.result.pass => Proved(out.result.netlist, out.result.args)

EqInv == EqTypeOK /\ NoStale /\ Named /\ CasesTrue /\ FilesFresh /\ ResultSound

-----------------------------------------------------------------------------
(* The cases of a run are names, the netlist is the first of them, and a   *)
(* self-test has the mutants and every control among the others.           *)
LEMMA CaseNames ==
  ASSUME Distinct, NEW args
  PROVE  /\ Cases(args) \in Seq(Names) /\ Cases(args) # << >>
         /\ Head(Cases(args)) = "netlist"
         /\ args.selftest =>
              \A n \in Names \ {"netlist"} : n \in ToSet(Cases(args)) \ {"netlist"}
<1> DEFINE ctl == [i \in DOMAIN Controls |-> Controls[i].name]
           more == <<"mutA", "mutC">> \o ctl
<1>1. /\ DOMAIN Controls = 1 .. Len(Controls) /\ Len(Controls) \in Nat
      /\ \A i \in DOMAIN Controls : Controls[i].name \in Names
  BY DEF Distinct, Names, ToSet
<1>2. ctl \in Seq(Names) /\ Len(ctl) = Len(Controls)
  BY <1>1
<1>3. <<"mutA", "mutC">> \in Seq(Names) /\ <<"netlist">> \in Seq(Names) /\ << >> \in Seq(Names)
  BY DEF Names
<1>4. more \in Seq(Names) /\ Len(more) = Len(Controls) + 2
      /\ more[1] = "mutA" /\ more[2] = "mutC"
      /\ \A i \in DOMAIN Controls : more[i + 2] = Controls[i].name
  BY <1>1, <1>2, <1>3
<1> DEFINE tail == IF args.selftest THEN more ELSE << >>
<1>5. Cases(args) = <<"netlist">> \o tail /\ tail \in Seq(Names)
  BY <1>3, <1>4 DEF Cases
<1>6. /\ Cases(args) \in Seq(Names) /\ Cases(args) # << >> /\ Head(Cases(args)) = "netlist"
      /\ DOMAIN Cases(args) = 1 .. Len(tail) + 1
      /\ \A i \in 1 .. Len(tail) : Cases(args)[i + 1] = tail[i]
  <2> HIDE DEF tail
  <2> QED BY <1>3, <1>5
<1>7. ASSUME args.selftest, NEW n \in Names \ {"netlist"}
      PROVE  n \in ToSet(Cases(args))
  <2>1. tail = more /\ Len(tail) = Len(Controls) + 2
    BY <1>4, <1>7
  <2> HIDE DEF tail, more, ctl
  <2>2. \E i \in 1 .. Len(tail) : tail[i] = n
    <3>1. CASE n = "mutA"
      BY <3>1, <2>1, <1>1, <1>4
    <3>2. CASE n = "mutC"
      BY <3>2, <2>1, <1>1, <1>4
    <3>3. CASE \E i \in DOMAIN Controls : Controls[i].name = n
      <4>1. PICK i \in DOMAIN Controls : Controls[i].name = n
        BY <3>3
      <4> QED BY <4>1, <2>1, <1>1, <1>4
    <3> QED BY <1>7, <3>1, <3>2, <3>3 DEF Names, ToSet
  <2>3. PICK i \in 1 .. Len(tail) : tail[i] = n
    BY <2>2
  <2>4. i + 1 \in DOMAIN Cases(args) /\ Cases(args)[i + 1] = n
    BY <2>1, <2>3, <1>1, <1>6
  <2> QED BY <2>4 DEF ToSet
<1> QED BY <1>6, <1>7
(* What the mutants and the controls differ in is known.                   *)
LEMMA KnownKinds ==
  ASSUME Distinct
  PROVE  /\ ~IsControl("mutA") /\ Difference("mutA") = "gate"
         /\ ~IsControl("mutC") /\ Difference("mutC") = "macro"
         /\ ~IsControl("netlist")
         /\ \A i \in DOMAIN Controls :
              LET name == Controls[i].name
              IN  /\ IsControl(name) /\ ControlOf(name) = Controls[i]
                  /\ Difference(name) = Controls[i].kind
<1>1. /\ ~IsControl("mutA") /\ ~IsControl("mutC") /\ ~IsControl("netlist")
      /\ "mutA" \notin DOMAIN Content /\ "mutC" \notin DOMAIN Content
  BY DEF Distinct, IsControl, ToSet
<1>2. Difference("mutA") = "gate" /\ Difference("mutC") = "macro"
  BY <1>1 DEF Difference
<1>3. ASSUME NEW i \in DOMAIN Controls
      PROVE  LET name == Controls[i].name
             IN  /\ IsControl(name) /\ ControlOf(name) = Controls[i]
                 /\ Difference(name) = Controls[i].kind
  <2>1. Controls[i] \in ToSet(Controls)
    BY DEF ToSet
  <2>2. \A c \in ToSet(Controls) : c.name = Controls[i].name => c = Controls[i]
    BY DEF ToSet, Distinct
  <2>3. ControlOf(Controls[i].name) = Controls[i]
    BY <2>1, <2>2 DEF ControlOf
  <2>4. IsControl(Controls[i].name)
    BY <2>1 DEF IsControl
  <2>5. Controls[i].name \notin DOMAIN Content /\ Controls[i].name # "mutA" /\ Controls[i].name # "mutC"
    BY DEF Distinct
  <2>6. Difference(Controls[i].name) = Controls[i].kind
    BY <2>3, <2>5 DEF Difference
  <2> QED BY <2>3, <2>4, <2>6
<1> QED BY <1>1, <1>2, <1>3

(* A case that is recorded is the truth about its text, and the next one   *)
(* begins.                                                                 *)
LEMMA RecordedCase ==
  ASSUME EqInv, cmd.at \in Cased, NEW verdict \in CaseVerdicts, NEW frame \in Nat,
         Recorded(verdict, frame), Truth(verdict, Now), Now = "netlist" => verdict \in Final,
         out'.netlist = out.netlist, blind' = blind
  PROVE  /\ cmd' \in Commands /\ cmd'.at \in {"gold", "gate", "report"}
         /\ cmd'.recorded = cmd.recorded /\ cmd'.args = cmd.args
         /\ CasesTrue'
<1>1. cmd \in Commands /\ cmd.todo \in Seq(Names) /\ cmd.todo # << >>
  <2>1. cmd \in Commands
    <3>1. cmd # Idle
      BY DEF Idle, Cased
    <3> QED BY <3>1 DEF EqInv, EqTypeOK
  <2> QED BY <2>1 DEF EqInv, CasesTrue, Commands
<1>2. Now \in Names /\ Tail(cmd.todo) \in Seq(Names)
  BY <1>1 DEF Now
<1> DEFINE rest == Tail(cmd.todo)
           record == [verdict |-> verdict, frame |-> frame]
           next == IF rest = << >> THEN "report" ELSE IF IsControl(Head(rest)) THEN "gold" ELSE "gate"
<1>3. record \in CaseRecords /\ record.verdict = verdict /\ next \in {"gold", "gate", "report"}
  BY DEF CaseRecords
<1>4. cmd' = [at |-> next, args |-> cmd.args, recorded |-> cmd.recorded, todo |-> rest,
              case |-> [cmd.case EXCEPT ![Now] = record]]
  BY <1>1, <1>2 DEF Recorded, Commands
<1> HIDE DEF record, next
<1>5. /\ cmd'.at = next /\ cmd'.args = cmd.args /\ cmd'.recorded = cmd.recorded /\ cmd'.todo = rest
      /\ cmd'.case = [cmd.case EXCEPT ![Now] = record]
  BY <1>4
<1>6. cmd' \in Commands
  BY <1>1, <1>2, <1>3, <1>4 DEF Commands, Working, Cased
<1>7. \A n \in Names : cmd'.case[n].verdict = IF n = Now THEN verdict ELSE cmd.case[n].verdict
  BY <1>1, <1>2, <1>3, <1>5 DEF Commands
<1>8. \A n \in Names : Truth(cmd.case[n].verdict, n)
  BY DEF EqInv, CasesTrue, Working
<1>9. \A n \in Names : Truth(cmd'.case[n].verdict, n)
  BY <1>7, <1>8
<1>10. "netlist" \in Names
  BY DEF Names
<1>11. cmd'.case["netlist"].verdict \in Final
  BY <1>7, <1>10 DEF EqInv, CasesTrue, Judged
<1>12. cmd'.at = "report" \/ cmd'.todo # << >>
  BY <1>5 DEF next
<1>14. cmd'.at \in {"gold", "gate", "report"} /\ cmd'.at \notin Early
  BY <1>3, <1>5 DEF Early
<1>15. Judged'
  BY <1>11 DEF Judged
<1>13. ASSUME NEW n \in Names PROVE Truth(cmd.case[n].verdict, n)'
  <2>1. PICK v : v = cmd'.case[n].verdict
    OBVIOUS
  <2>2. PICK d : d = Difference(Text(n))
    OBVIOUS
  <2>3. Truth(v, n)
    BY <1>9, <2>1
  <2>4. Text(n)' = Text(n)
    BY DEF Text
  <2>5. Difference(Text(n))' = d
    BY <2>2, <2>4
  <2>6. Seen(d)' <=> Seen(d)
    BY DEF Seen
  <2> QED BY <2>1, <2>2, <2>3, <2>5, <2>6 DEF Truth, Seen
<1>16. CasesTrue'
  BY <1>12, <1>14, <1>15, <1>13 DEF CasesTrue, Cased
<1> QED BY <1>5, <1>6, <1>14, <1>16

(* A result is written whole, and the run is over.                         *)
LEMMA Finished ==
  ASSUME EqInv, cmd \in Commands, NEW files \in Directories, NEW verdict \in Final,
         NEW code \in 0 .. 3, finish(files, verdict, code),
         shelf' = shelf, blind' = blind,
         code = 0 => Proved(cmd.recorded, cmd.args)
  PROVE  EqInv'
<1> DEFINE r == [kind |-> "result", verdict |-> verdict, exit_code |-> code,
                 pass |-> code = 0, netlist |-> cmd.recorded, args |-> cmd.args]
<1>1. cmd' = Idle /\ out' = [files EXCEPT !.result = r]
  BY DEF finish
<1>2. (code = 0) \in BOOLEAN
  OBVIOUS
<1>3. r \in Results
  BY <1>2 DEF Results, Commands
<1>4. r.pass <=> code = 0
  BY Zenon
<1>5. r.netlist = cmd.recorded /\ r.args = cmd.args
  OBVIOUS
<1> HIDE DEF r
<1>6. out' \in Directories /\ out'.result = r
  BY <1>1, <1>3 DEF Directories
<1>7. PICK nl, args : nl = cmd.recorded /\ args = cmd.args
  OBVIOUS
<1>8. code = 0 => Proved(nl, args)'
  BY <1>7 DEF Proved
<1>9. ResultSound'
  BY <1>4, <1>5, <1>6, <1>7, <1>8 DEF ResultSound
<1>10. cmd'.at = "idle"
  BY <1>1 DEF Idle
<1> QED
  BY <1>1, <1>6, <1>9, <1>10
  DEF EqInv, EqTypeOK, NoStale, Named, CasesTrue, FilesFresh, Early, Working, Cased

-----------------------------------------------------------------------------
\* A run under way has its record, and no result.
LEMMA Underway ==
  ASSUME EqInv, cmd.at # "idle"
  PROVE  /\ cmd \in Commands /\ out \in Directories /\ out.result = NoFile
         /\ shelf \in [netlist : NetlistFiles, sums : Sums]
<1>1. cmd # Idle
  BY DEF Idle
<1> QED BY <1>1 DEF EqInv, EqTypeOK, NoStale

\* The cases stay true while the netlist and the recipe do.
LEMMA TruthKept ==
  ASSUME out'.netlist = out.netlist, blind' = blind, NEW n, NEW v, Truth(v, n), v = cmd'.case[n].verdict
  PROVE  Truth(cmd.case[n].verdict, n)'
<1>1. PICK d : d = Difference(Text(n))
  OBVIOUS
<1>2. Difference(Text(n))' = d
  <2>1. Text(n)' = Text(n)
    BY DEF Text
  <2> QED BY <1>1, <2>1
<1>3. Seen(d)' <=> Seen(d)
  BY DEF Seen
<1> QED BY <1>1, <1>2, <1>3 DEF Truth, Seen

\* The case under way goes on.
LEMMA CaseGoesOn ==
  ASSUME EqInv, cmd.at \in Cased, NEW next \in Cased, cmd' = [cmd EXCEPT !.at = next],
         out'.netlist = out.netlist, blind' = blind
  PROVE  /\ cmd' \in Commands /\ cmd'.at = next /\ cmd'.todo = cmd.todo
         /\ cmd'.recorded = cmd.recorded /\ cmd'.args = cmd.args
         /\ CasesTrue'
<1>1. cmd \in Commands
  BY Underway DEF Cased
<1>2. /\ cmd' \in Commands /\ cmd'.at = next /\ cmd'.todo = cmd.todo /\ cmd'.case = cmd.case
      /\ cmd'.recorded = cmd.recorded /\ cmd'.args = cmd.args
  BY <1>1 DEF Commands, Working
<1>3. ASSUME NEW n \in Names PROVE Truth(cmd.case[n].verdict, n)'
  <2>1. PICK v : v = cmd.case[n].verdict
    OBVIOUS
  <2>2. Truth(v, n) /\ v = cmd'.case[n].verdict
    BY <1>2, <2>1 DEF EqInv, CasesTrue, Working
  <2> QED BY <2>2, TruthKept
<1>4. cmd'.todo # << >> /\ (Now = "netlist" \/ Judged)'
  BY <1>2 DEF EqInv, CasesTrue, Now, Judged
<1>5. next \notin Early /\ next # "report"
  BY DEF Cased, Early
<1> QED BY <1>2, <1>3, <1>4, <1>5 DEF CasesTrue

(* What the steps of a case keep.                                          *)
LEMMA Continues ==
  ASSUME EqInv, cmd.at \in Cased, out' \in Directories,
         out'.result = out.result, out'.netlist = out.netlist, blind' = blind, shelf' = shelf,
         cmd' \in Commands, cmd'.at \in Working,
         cmd'.recorded = cmd.recorded, cmd'.args = cmd.args, CasesTrue', FilesFresh'
  PROVE  EqInv'
<1>1. out.result = NoFile /\ shelf \in [netlist : NetlistFiles, sums : Sums]
  BY Underway DEF Cased
<1>2. Named'
  <2>1. cmd'.at # "copy"
    BY DEF Working, Cased
  <2>2. /\ cmd.recorded = out.netlist /\ out.netlist \in NetlistFiles /\ RightPdk(out.netlist)
        /\ Parses(Content[out.netlist].text)
    BY DEF EqInv, Named, Working
  <2> QED BY <2>1, <2>2 DEF Named, RightPdk
<1>3. ResultSound'
  BY <1>1 DEF ResultSound, NoFile
<1> QED BY <1>1, <1>2, <1>3 DEF EqInv, EqTypeOK, NoStale

\* The files of cases that are not under way do not matter.
LEMMA NoFilesNeeded ==
  ASSUME cmd'.at \in {"gold", "gate", "report"}
  PROVE  FilesFresh'
BY DEF FilesFresh

-----------------------------------------------------------------------------
\* A run begins: the old result is gone.
LEMMA CheckStep ==
  ASSUME EqInv, NEW args \in Arguments, cmd_check(args)
  PROVE  EqInv'
<1>1. /\ out' = [out EXCEPT !.result = NoFile] /\ shelf' = shelf
      /\ cmd' = [at |-> "inputs", args |-> args, recorded |-> "none", todo |-> << >>,
                 case |-> [n \in Names |-> NoCase]]
  BY DEF cmd_check
<1>2. out' \in Directories /\ out'.result = NoFile
  BY <1>1 DEF EqInv, EqTypeOK, Directories
<1>3. NoCase \in CaseRecords /\ NoCase.verdict = "none"
  BY DEF NoCase, CaseRecords, CaseVerdicts
<1>4. cmd' \in Commands /\ cmd'.at = "inputs" /\ \A n \in Names : cmd'.case[n].verdict = "none"
  BY <1>1, <1>3 DEF Commands, Early
<1>5. ResultSound'
  BY <1>2 DEF ResultSound, NoFile
<1> QED
  BY <1>1, <1>2, <1>4, <1>5
  DEF EqInv, EqTypeOK, NoStale, Named, CasesTrue, FilesFresh, Early, Working, Cased

\* A run that ends in an error does not pass.
LEMMA ErrorStep ==
  ASSUME EqInv, cmd.at # "idle", NEW files \in Directories, Error(files),
         shelf' = shelf, blind' = blind
  PROVE  EqInv'
<1>1. EXIT["error"] = 2
  BY DEF EXIT
<1>2. finish(files, "error", 2)
  BY <1>1 DEF Error
<1>3. "error" \in Final /\ 2 \in 0 .. 3
  BY DEF Final
<1> QED BY <1>2, <1>3, Underway, Finished

\* The inputs agree: an artifact has the PDK that is installed.
LEMMA ResolveStep ==
  ASSUME EqInv, resolve_inputs
  PROVE  EqInv'
<1>1. cmd.at = "inputs" /\ shelf' = shelf /\ blind' = blind
  BY DEF resolve_inputs
<1>2. cmd \in Commands /\ out \in Directories /\ out.result = NoFile
  BY <1>1, Underway
<1>3. CASE Resolves(cmd.args)
  <2>1. cmd' = [cmd EXCEPT !.at = "copy"] /\ out' = out
    BY <1>3 DEF resolve_inputs
  <2>2. /\ cmd' \in Commands /\ cmd'.at = "copy" /\ cmd'.args = cmd.args
        /\ cmd'.case = cmd.case
    BY <1>2, <2>1 DEF Commands, Early
  <2>3. RightPdk(shelf.netlist)
    BY <1>3 DEF Resolves, pdk_matches, RightPdk
  <2>4. RightPdk(shelf.netlist)'
    BY <1>1, <2>2, <2>3 DEF RightPdk
  <2>5. \A n \in Names : cmd'.case[n].verdict = "none"
    BY <1>1, <2>2 DEF EqInv, CasesTrue, Early
  <2>6. ResultSound'
    BY <1>2, <2>1 DEF ResultSound, NoFile
  <2> QED
    BY <1>1, <1>2, <2>1, <2>2, <2>4, <2>5, <2>6
    DEF EqInv, EqTypeOK, NoStale, Named, CasesTrue, FilesFresh, Early, Working, Cased
<1>4. CASE ~Resolves(cmd.args)
  <2>1. Error(out)
    BY <1>4 DEF resolve_inputs
  <2> QED BY <1>1, <1>2, <2>1, ErrorStep
<1> QED BY <1>3, <1>4

\* The copy is the netlist from here on.
LEMMA CopyStep ==
  ASSUME EqInv, copy_netlist
  PROVE  EqInv'
<1>1. cmd.at = "copy" /\ shelf' = shelf
      /\ out' = [out EXCEPT !.netlist = shelf.netlist]
      /\ cmd' = [cmd EXCEPT !.at = "structure", !.recorded = shelf.netlist]
  BY DEF copy_netlist
<1>2. /\ cmd \in Commands /\ out \in Directories /\ out.result = NoFile
      /\ shelf.netlist \in NetlistFiles
  BY <1>1, Underway
<1>3. out' \in Directories /\ out'.result = NoFile /\ out'.netlist = shelf.netlist
  BY <1>1, <1>2 DEF Directories
<1>4. /\ cmd' \in Commands /\ cmd'.at = "structure" /\ cmd'.args = cmd.args
      /\ cmd'.case = cmd.case /\ cmd'.recorded = shelf.netlist
  BY <1>1, <1>2 DEF Commands, Early
<1>5. RightPdk(out.netlist)'
  BY <1>1, <1>3, <1>4 DEF EqInv, Named, RightPdk
<1>6. \A n \in Names : cmd'.case[n].verdict = "none"
  BY <1>1, <1>4 DEF EqInv, CasesTrue, Early
<1>7. ResultSound'
  BY <1>3 DEF ResultSound, NoFile
<1> QED
  BY <1>1, <1>2, <1>3, <1>4, <1>5, <1>6, <1>7
  DEF EqInv, EqTypeOK, NoStale, Named, CasesTrue, FilesFresh, Early, Working, Cased

\* The netlist parses, and its cases begin with itself.
LEMMA StructureStep ==
  ASSUME EqInv, Distinct, structure
  PROVE  EqInv'
<1> DEFINE nl == Content[out.netlist]
           fine == Parses(nl.text) /\ nl.structured /\ (cmd.args.selftest => nl.mutable)
<1>1. cmd.at = "structure" /\ shelf' = shelf /\ blind' = blind
  BY DEF structure
<1>2. cmd \in Commands /\ out \in Directories /\ out.result = NoFile
  BY <1>1, Underway
<1>3. CASE fine
  <2>1. out' = out /\ cmd' = [cmd EXCEPT !.at = "gold", !.todo = Cases(cmd.args)]
    BY <1>3 DEF structure
  <2>2. Cases(cmd.args) \in Seq(Names) /\ Cases(cmd.args) # << >> /\ Head(Cases(cmd.args)) = "netlist"
    BY CaseNames
  <2>3. /\ cmd' \in Commands /\ cmd'.at = "gold" /\ cmd'.args = cmd.args /\ cmd'.case = cmd.case
        /\ cmd'.recorded = cmd.recorded /\ cmd'.todo = Cases(cmd.args)
    BY <1>2, <2>1, <2>2 DEF Commands, Working, Cased
  <2>4. cmd'.todo # << >> /\ Now' = "netlist"
    BY <2>2, <2>3 DEF Now
  <2>5. \A n \in Names : Truth(cmd.case[n].verdict, n)'
    BY <1>1, <2>3 DEF EqInv, CasesTrue, Early, Truth
  <2>6. CasesTrue'
    BY <2>3, <2>4, <2>5 DEF CasesTrue, Early
  <2>7. Named'
    BY <1>1, <1>3, <2>1, <2>3 DEF EqInv, Named, RightPdk
  <2>8. ResultSound' /\ FilesFresh'
    BY <1>2, <2>1, <2>3 DEF ResultSound, NoFile, FilesFresh
  <2> QED BY <1>1, <1>2, <2>1, <2>3, <2>6, <2>7, <2>8 DEF EqInv, EqTypeOK, NoStale
<1>4. CASE ~fine
  <2>1. Error(out)
    BY <1>4 DEF structure
  <2> QED BY <1>1, <1>2, <2>1, ErrorStep
<1> QED BY <1>3, <1>4

-----------------------------------------------------------------------------
\* What is under way has a name, and stands in the case records.
LEMMA NowNamed ==
  ASSUME EqInv, cmd.at \in Cased
  PROVE  /\ cmd \in Commands /\ out \in Directories /\ out.result = NoFile
         /\ Now \in Names /\ Now \in Texts /\ "none" \in Texts
         /\ out.netlist \in NetlistFiles /\ Text(Now) \in Texts
<1>1. cmd \in Commands /\ out \in Directories /\ out.result = NoFile
  BY Underway DEF Cased
<1>2. cmd.todo \in Seq(Names) /\ cmd.todo # << >>
  BY <1>1 DEF EqInv, CasesTrue, Commands
<1>3. Now \in Names
  BY <1>2 DEF Now
<1>4. out.netlist \in NetlistFiles
  BY DEF EqInv, Named, Working
<1> QED BY <1>1, <1>3, <1>4 DEF Texts, Text

\* The RTL side of the netlist, or of a control.
LEMMA GoldStep ==
  ASSUME EqInv, build_gold
  PROVE  EqInv'
<1>1. cmd.at = "gold" /\ shelf' = shelf /\ blind' = blind /\ cmd.at \in Cased
  BY DEF build_gold, Cased
<1>2. /\ cmd \in Commands /\ out \in Directories /\ out.result = NoFile
      /\ Now \in Names /\ Now \in Texts /\ "none" \in Texts
  BY <1>1, NowNamed
<1>3a. PICK ending \in Endings : \E file \in Left(ending, Made(Now, "none")) :
        LET files == [out EXCEPT !.gold[Now] = overwritten(@, file)]
            ok == ending \in {"good", "empty"} /\ files.gold[Now] # NoFile
                  /\ (Now = "netlist" => Content[out.netlist].macros_agree)
        IN  IF ok THEN cmd' = [cmd EXCEPT !.at = "gate"] /\ out' = files
            ELSE IF Now = "netlist" THEN Error(files)
            ELSE Recorded("no_gold", 0) /\ out' = files
  BY DEF build_gold
<1>3. PICK file \in Left(ending, Made(Now, "none")) :
        LET files == [out EXCEPT !.gold[Now] = overwritten(@, file)]
            ok == ending \in {"good", "empty"} /\ files.gold[Now] # NoFile
                  /\ (Now = "netlist" => Content[out.netlist].macros_agree)
        IN  IF ok THEN cmd' = [cmd EXCEPT !.at = "gate"] /\ out' = files
            ELSE IF Now = "netlist" THEN Error(files)
            ELSE Recorded("no_gold", 0) /\ out' = files
  BY <1>3a
<1> DEFINE files == [out EXCEPT !.gold[Now] = overwritten(@, file)]
<1>4. file \in Files
  BY <1>2 DEF Left, Made, Files
<1>5. files \in Directories /\ files.result = out.result /\ files.netlist = out.netlist
  BY <1>2, <1>4 DEF Directories, overwritten
<1> HIDE DEF files
<1>6. \/ cmd' = [cmd EXCEPT !.at = "gate"] /\ out' = files
      \/ Error(files)
      \/ Now # "netlist" /\ Recorded("no_gold", 0) /\ out' = files
  BY <1>3 DEF files
<1>7. CASE cmd' = [cmd EXCEPT !.at = "gate"] /\ out' = files
  <2>1. "gate" \in Cased /\ out'.netlist = out.netlist
    BY <1>5, <1>7 DEF Cased
  <2>2. /\ cmd' \in Commands /\ cmd'.at = "gate" /\ cmd'.recorded = cmd.recorded
        /\ cmd'.args = cmd.args /\ CasesTrue'
    BY <1>1, <1>7, <2>1, CaseGoesOn
  <2>3. FilesFresh'
    BY <2>2, NoFilesNeeded
  <2> QED BY <1>1, <1>5, <1>7, <2>2, <2>3, Continues DEF Working, Cased
<1>8. CASE Error(files)
  BY <1>1, <1>5, <1>8, ErrorStep
<1>9. CASE Now # "netlist" /\ Recorded("no_gold", 0) /\ out' = files
  <2>1. "no_gold" \in CaseVerdicts /\ 0 \in Nat /\ Truth("no_gold", Now)
    BY DEF CaseVerdicts, Truth
  <2>2. /\ cmd' \in Commands /\ cmd'.at \in {"gold", "gate", "report"}
        /\ cmd'.recorded = cmd.recorded /\ cmd'.args = cmd.args /\ CasesTrue'
    BY <1>1, <1>5, <1>9, <2>1, RecordedCase
  <2>3. FilesFresh'
    BY <2>2, NoFilesNeeded
  <2> QED BY <1>1, <1>5, <1>9, <2>2, <2>3, Continues DEF Working, Cased
<1> QED BY <1>6, <1>7, <1>8, <1>9

\* A case that ends in an error keeps the run going.
LEMMA CaseFails ==
  ASSUME EqInv, cmd.at \in Cased, Recorded("error", 0), out' \in Directories,
         out'.result = out.result, out'.netlist = out.netlist, blind' = blind, shelf' = shelf
  PROVE  EqInv'
<1>1. "error" \in CaseVerdicts /\ "error" \in Final /\ 0 \in Nat /\ Truth("error", Now)
  BY DEF CaseVerdicts, Final, Truth
<1>2. /\ cmd' \in Commands /\ cmd'.at \in {"gold", "gate", "report"}
      /\ cmd'.recorded = cmd.recorded /\ cmd'.args = cmd.args /\ CasesTrue'
  BY <1>1, RecordedCase
<1>3. FilesFresh'
  BY <1>2, NoFilesNeeded
<1> QED BY <1>2, <1>3, Continues DEF Working, Cased

\* The gate side is made of the text under way, and the old miter removed.
LEMMA GateStep ==
  ASSUME EqInv, gate_build
  PROVE  EqInv'
<1>1. cmd.at = "gate" /\ shelf' = shelf /\ blind' = blind /\ cmd.at \in Cased
  BY DEF gate_build, Cased
<1>2. /\ cmd \in Commands /\ out \in Directories
      /\ Now \in Names /\ "none" \in Texts /\ Text(Now) \in Texts
  BY <1>1, NowNamed
<1>3a. PICK ending \in Endings : \E file \in Left(ending, Made("none", Text(Now))) :
        /\ out' = [out EXCEPT !.gate[Now] = overwritten(@, file), !.aig[Now] = overwritten(@, NoFile)]
        /\ IF ending \in {"good", "empty"} THEN cmd' = [cmd EXCEPT !.at = "miter"]
           ELSE Recorded("error", 0)
  BY DEF gate_build, Text
<1>3. PICK file \in Left(ending, Made("none", Text(Now))) :
        /\ out' = [out EXCEPT !.gate[Now] = overwritten(@, file), !.aig[Now] = overwritten(@, NoFile)]
        /\ IF ending \in {"good", "empty"} THEN cmd' = [cmd EXCEPT !.at = "miter"]
           ELSE Recorded("error", 0)
  BY <1>3a
<1>4. file \in {NoFile, Made("none", Text(Now))}
  BY DEF Left
<1>5. file \in Files /\ NoFile \in Files
  BY <1>2, <1>4 DEF Files, Made
<1>6. /\ out' \in Directories /\ out'.result = out.result /\ out'.netlist = out.netlist
      /\ out'.gate[Now] = file
  BY <1>2, <1>3, <1>5 DEF Directories, overwritten
<1>7. CASE cmd' = [cmd EXCEPT !.at = "miter"]
  <2>1. "miter" \in Cased
    BY DEF Cased
  <2>2. /\ cmd' \in Commands /\ cmd'.at = "miter" /\ cmd'.recorded = cmd.recorded
        /\ cmd'.args = cmd.args /\ cmd'.todo = cmd.todo /\ CasesTrue'
    BY <1>1, <1>6, <1>7, <2>1, CaseGoesOn
  <2>3. Now' = Now
    BY <2>2 DEF Now
  <2>4. FilesFresh'
    BY <1>4, <1>6, <2>2, <2>3 DEF FilesFresh, Text
  <2> QED BY <1>1, <1>6, <2>2, <2>4, Continues DEF Working, Cased
<1>8. CASE Recorded("error", 0)
  BY <1>1, <1>6, <1>8, CaseFails
<1> QED BY <1>3, <1>7, <1>8

\* The miter is made of the gate side under way.
LEMMA MiterStep ==
  ASSUME EqInv, miter_build
  PROVE  EqInv'
<1>1. cmd.at = "miter" /\ shelf' = shelf /\ blind' = blind /\ cmd.at \in Cased
  BY DEF miter_build, Cased
<1>2. /\ cmd \in Commands /\ out \in Directories /\ Now \in Names /\ Text(Now) \in Texts
  BY <1>1, NowNamed
<1>3. out.gate[Now] \in {NoFile, Made("none", Text(Now))}
  BY <1>1 DEF EqInv, FilesFresh
<1> DEFINE gate == out.gate[Now]
           made == Made(GoldOf(Now).gold, gate.gate)
           works == /\ gate # NoFile /\ GoldOf(Now) # NoFile
                    /\ Difference(gate.gate) = "clock" => blind = "clock"
<1>4a. PICK ending \in Endings : \E file \in IF works THEN Left(ending, made) ELSE {NoFile} :
        LET files == [out EXCEPT !.aig[Now] = overwritten(@, file)] IN
        /\ out' = files
        /\ IF works /\ ending \in {"good", "empty"} /\ files.aig[Now] # NoFile
           THEN cmd' = [cmd EXCEPT !.at = "abc"]
           ELSE Recorded("error", 0)
  BY DEF miter_build
<1>4. PICK file \in IF works THEN Left(ending, made) ELSE {NoFile} :
        LET files == [out EXCEPT !.aig[Now] = overwritten(@, file)] IN
        /\ out' = files
        /\ IF works /\ ending \in {"good", "empty"} /\ files.aig[Now] # NoFile
           THEN cmd' = [cmd EXCEPT !.at = "abc"]
           ELSE Recorded("error", 0)
  BY <1>4a
<1>5. file \in {NoFile, made} /\ (file # NoFile => works)
  BY <1>4 DEF Left
<1>6. works => GoldOf(Now).gold \in Texts /\ gate.gate = Text(Now)
  <2>1. "netlist" \in Names
    BY DEF Names
  <2>2. GoldOf(Now) \in Files
    BY <1>2, <2>1 DEF GoldOf, Directories
  <2>3. gate # NoFile => gate.gate = Text(Now)
    BY <1>3 DEF Made
  <2> QED BY <2>2, <2>3 DEF Files
<1>7. file \in Files /\ (file # NoFile => file.gate = Text(Now))
  BY <1>2, <1>5, <1>6 DEF Files, Made
<1>8. /\ out' \in Directories /\ out'.result = out.result /\ out'.netlist = out.netlist
      /\ out'.aig[Now] = file
      /\ [out EXCEPT !.aig[Now] = overwritten(@, file)].aig[Now] = file
  BY <1>2, <1>4, <1>7 DEF Directories, overwritten
<1>9. (cmd' = [cmd EXCEPT !.at = "abc"] /\ file # NoFile) \/ Recorded("error", 0)
  BY <1>4, <1>8
<1>10. CASE cmd' = [cmd EXCEPT !.at = "abc"] /\ file # NoFile
  <2>1. "abc" \in Cased
    BY DEF Cased
  <2>2. /\ cmd' \in Commands /\ cmd'.at = "abc" /\ cmd'.recorded = cmd.recorded
        /\ cmd'.args = cmd.args /\ cmd'.todo = cmd.todo /\ CasesTrue'
    BY <1>1, <1>8, <1>10, <2>1, CaseGoesOn
  <2>3. Now' = Now
    BY <2>2 DEF Now
  <2>4. FilesFresh'
    BY <1>7, <1>8, <1>10, <2>2, <2>3 DEF FilesFresh, Text
  <2> QED BY <1>1, <1>8, <2>2, <2>4, Continues DEF Working, Cased
<1>11. CASE Recorded("error", 0)
  BY <1>1, <1>8, <1>11, CaseFails
<1> QED BY <1>9, <1>10, <1>11

-----------------------------------------------------------------------------
(* Whatever ABC prints, the verdict read from it is none it did not give.  *)
LEMMA ParseTrue ==
  ASSUME NEW kind, NEW log \in GoodLogs(kind) \cup BadLogs(kind)
  PROVE  /\ parse_abc(log) \in Final
         /\ parse_abc(log) = "equivalent" => ~Seen(kind)
         /\ parse_abc(log) = "not_equivalent" => Seen(kind)
<1> DEFINE whole(lines) == /\ log.lines = lines /\ log.cex = FALSE /\ log.outputs = 1
                           /\ log.rc = 0 /\ log.stopped = FALSE
<1>1. CASE log = Log(<<Answer(kind)>>)
  <2>1. log.lines[1] = Answer(kind) /\ Len(log.lines) = 1
    BY <1>1 DEF Log
  <2>2. parse_abc(log) = Answer(kind)
    <3>1. ~log.stopped /\ ~log.cex /\ log.outputs = 1 /\ log.rc = 0
      BY <1>1 DEF Log
    <3> QED BY <2>1, <3>1 DEF parse_abc
  <2> QED BY <2>2 DEF Answer, Final
<1>2. CASE log = Log(<<"undecided">>)
  <2>1. log.lines[1] = "undecided" /\ Len(log.lines) = 1
    BY <1>2 DEF Log
  <2>2. parse_abc(log) = "undecided"
    <3>1. ~log.stopped /\ ~log.cex /\ log.outputs = 1 /\ log.rc = 0
      BY <1>2 DEF Log
    <3> QED BY <2>1, <3>1 DEF parse_abc
  <2> QED BY <2>2 DEF Final
<1>3. CASE \/ log = [Log(<<Answer(kind)>>) EXCEPT !.stopped = TRUE]
           \/ log = [Log(<< >>) EXCEPT !.stopped = TRUE]
  <2>1. log.stopped
    BY <1>3 DEF Log
  <2> QED BY <2>1 DEF parse_abc, Final
<1>4. CASE \/ log = [Log(<<Answer(kind)>>) EXCEPT !.rc = 1]
           \/ log = [Log(<< >>) EXCEPT !.outputs = 0]
  <2>1. ~log.stopped /\ (log.rc = 1 \/ log.outputs = 0)
    BY <1>4 DEF Log
  <2> QED BY <2>1 DEF parse_abc, Final
<1>5. CASE log = [Log(<<"equivalent">>) EXCEPT !.cex = TRUE]
  <2>1. ~log.stopped /\ log.cex /\ log.lines = <<"equivalent">>
    BY <1>5 DEF Log
  <2> QED BY <2>1 DEF parse_abc, Final
<1>6. CASE log = Log(<<"not_equivalent", "equivalent">>)
  <2>1. ~log.stopped /\ Len(log.lines) = 2
    BY <1>6 DEF Log
  <2> QED BY <2>1 DEF parse_abc, Final
<1> QED BY <1>1, <1>2, <1>3, <1>4, <1>5, <1>6 DEF GoodLogs, BadLogs

\* ABC judges the text under way.
LEMMA AbcStep ==
  ASSUME EqInv, abc
  PROVE  EqInv'
<1>1. cmd.at = "abc" /\ shelf' = shelf /\ out' = out /\ blind' = blind /\ cmd.at \in Cased
  BY DEF abc, Cased
<1> DEFINE kind == Difference(Text(Now))
           frame == IF kind = "deep" THEN 13 ELSE 1
<1>2. out.aig[Now].gate = Text(Now)
  BY <1>1 DEF EqInv, FilesFresh
<1>3. PICK log \in GoodLogs(kind) \cup BadLogs(kind) : Recorded(parse_abc(log), frame)
  BY <1>2 DEF abc
<1>4. parse_abc(log) \in Final /\ Truth(parse_abc(log), Now)
  BY ParseTrue DEF Truth
<1>5. parse_abc(log) \in CaseVerdicts /\ frame \in Nat
  BY <1>4 DEF CaseVerdicts
<1>6. /\ cmd' \in Commands /\ cmd'.at \in {"gold", "gate", "report"}
      /\ cmd'.recorded = cmd.recorded /\ cmd'.args = cmd.args /\ CasesTrue'
  <2> HIDE DEF frame
  <2>1. PICK v : v = parse_abc(log)
    OBVIOUS
  <2>2. v \in CaseVerdicts /\ v \in Final /\ Truth(v, Now) /\ Recorded(v, frame)
    BY <1>3, <1>4, <1>5, <2>1
  <2>3. PICK f \in Nat : f = frame
    BY <1>5
  <2> QED BY <1>1, <2>2, <2>3, RecordedCase
<1>7. FilesFresh'
  BY <1>6, NoFilesNeeded
<1>8. out \in Directories
  BY <1>1, NowNamed
<1> QED BY <1>1, <1>6, <1>7, <1>8, Continues DEF Working, Cased

(* A self-test that missed nothing has shown every kind of difference that *)
(* a mutant or a control has, so that the recipe is not blind to it.       *)
LEMMA NotBlind ==
  ASSUME EqInv, Distinct, cmd.at = "report", cmd.args.selftest, missed = {}
  PROVE  blind \notin Shown
<1>1. \A n \in Names \ {"netlist"} : met_expectation(n)
  BY CaseNames DEF missed
<1>2. \A n \in Names \ {"netlist"} :
        cmd.case[n].verdict = "not_equivalent" => Seen(Difference(n))
  BY DEF EqInv, CasesTrue, Working, Truth, Text
<1>3. "mutA" \in Names \ {"netlist"} /\ "mutC" \in Names \ {"netlist"}
  BY DEF Names
<1>4. blind # "gate" /\ blind # "macro"
  BY <1>1, <1>2, <1>3, KnownKinds DEF met_expectation, Seen
<1>5. ASSUME NEW i \in DOMAIN Controls, Controls[i].expect = "not_equivalent"
      PROVE  blind # Controls[i].kind
  <2> DEFINE name == Controls[i].name
  <2>1. name \in Names \ {"netlist"}
    BY DEF Names, ToSet, Distinct
  <2>2. IsControl(name) /\ ControlOf(name) = Controls[i] /\ Difference(name) = Controls[i].kind
    BY KnownKinds
  <2> HIDE DEF name
  <2>3. cmd.case[name].verdict = "not_equivalent"
    BY <1>1, <1>5, <2>1, <2>2 DEF met_expectation
  <2> QED BY <1>2, <2>1, <2>2, <2>3 DEF Seen
<1> QED BY <1>4, <1>5 DEF Shown, ToSet

\* The exit codes: 0 is "equivalent" alone.
LEMMA ExitCodes ==
  ASSUME NEW verdict \in Final
  PROVE  EXIT[verdict] \in 0 .. 3 /\ (EXIT[verdict] = 0 => verdict = "equivalent")
BY DEF Final, EXIT

\* The result passes only if the netlist is equivalent.
LEMMA ReportStep ==
  ASSUME EqInv, Distinct, report
  PROVE  EqInv'
<1>1. cmd.at = "report" /\ shelf' = shelf /\ blind' = blind
  BY DEF report
<1>2. cmd \in Commands /\ out \in Directories
  BY <1>1, Underway
<1>3. CASE Error(out)
  BY <1>1, <1>2, <1>3, ErrorStep
<1>4. CASE ~Error(out)
  <2> DEFINE verdict == cmd.case["netlist"].verdict
             code == IF missed # {} /\ EXIT[verdict] = 0 THEN 1 ELSE EXIT[verdict]
  <2>1. finish(out, verdict, code)
    BY <1>4 DEF report
  <2>2. verdict \in Final
    BY <1>1 DEF EqInv, CasesTrue, Judged
  <2>3. code \in 0 .. 3 /\ (code = 0 => missed = {} /\ verdict = "equivalent")
    BY <2>2, ExitCodes
  <2>4. PICK v \in Final, c \in 0 .. 3 : v = verdict /\ c = code
    BY <2>2, <2>3
  <2>5. ASSUME c = 0 PROVE Proved(cmd.recorded, cmd.args)
    <3>1. missed = {} /\ verdict = "equivalent"
      BY <2>3, <2>4, <2>5
    <3>2. "netlist" \in Names
      BY DEF Names
    <3>3. ~Seen(Difference(out.netlist))
      BY <1>1, <3>1, <3>2 DEF EqInv, CasesTrue, Working, Truth, Text
    <3>4. /\ cmd.recorded = out.netlist /\ out.netlist \in NetlistFiles
          /\ Parses(Content[out.netlist].text) /\ RightPdk(out.netlist)
      BY <1>1 DEF EqInv, Named, Working
    <3>5. cmd.args.selftest => blind \notin Shown
      BY <1>1, <3>1, NotBlind
    <3>6. Content[out.netlist].pdk = PDK => Difference(out.netlist) = Content[out.netlist].kind
      BY <3>4 DEF Difference, NetlistFiles
    <3>7. Content[out.netlist].kind # "nothing"
      BY <3>4 DEF Distinct, NetlistFiles
    <3> QED BY <3>3, <3>4, <3>5, <3>6, <3>7 DEF Proved, Seen, RightPdk
  <2>6. finish(out, v, c)
    BY <2>1, <2>4
  <2> HIDE DEF verdict, code
  <2> QED BY <1>1, <1>2, <2>5, <2>6, Finished
<1> QED BY <1>3, <1>4

\* A job that is killed leaves no result.
LEMMA KilledStep ==
  ASSUME EqInv, killed
  PROVE  EqInv'
<1>1. cmd' = Idle /\ out' = out /\ shelf' = shelf /\ out.result = NoFile
  BY Underway DEF killed
<1>2. cmd'.at = "idle"
  BY <1>1 DEF Idle
<1>3. ResultSound'
  BY <1>1 DEF ResultSound, NoFile
<1> QED
  BY <1>1, <1>2, <1>3
  DEF EqInv, EqTypeOK, NoStale, Named, CasesTrue, FilesFresh, Early, Working, Cased

\* A netlist that is written again is not an artifact whose PDK was looked at.
LEMMA RewrittenStep ==
  ASSUME EqInv, rewritten
  PROVE  EqInv'
<1>1. out' = out /\ cmd' = cmd /\ blind' = blind
  BY DEF rewritten
<1>2. shelf' \in [netlist : NetlistFiles, sums : Sums]
  BY DEF rewritten, EqInv, EqTypeOK, NetlistFiles
<1>3. EqTypeOK' /\ NoStale'
  BY <1>1, <1>2 DEF EqInv, EqTypeOK, NoStale
<1>4. Named'
  <2>1. cmd.at = "copy" => cmd.args.given # "artifact"
    BY DEF rewritten
  <2> QED BY <1>1, <2>1 DEF EqInv, Named, RightPdk
<1>5. CasesTrue'
  BY <1>1 DEF EqInv, CasesTrue, Truth, Text, Seen, Now, Judged
<1>6. FilesFresh'
  BY <1>1 DEF EqInv, FilesFresh, Text, Now
<1>7. ResultSound'
  BY <1>1 DEF EqInv, ResultSound, Proved
<1> QED BY <1>3, <1>4, <1>5, <1>6, <1>7 DEF EqInv

\* Nothing changes.
LEMMA EqStutter ==
  ASSUME EqInv, UNCHANGED eqVars
  PROVE  EqInv'
<1>1. out' = out /\ cmd' = cmd /\ blind' = blind /\ shelf' = shelf
  BY DEF eqVars
<1>2. EqTypeOK' /\ NoStale'
  BY <1>1 DEF EqInv, EqTypeOK, NoStale
<1>3. Named' /\ FilesFresh'
  BY <1>1 DEF EqInv, Named, RightPdk, FilesFresh, Text, Now
<1>4. CasesTrue'
  BY <1>1 DEF EqInv, CasesTrue, Truth, Text, Seen, Now, Judged
<1>5. ResultSound'
  BY <1>1 DEF EqInv, ResultSound, Proved
<1> QED BY <1>2, <1>3, <1>4, <1>5 DEF EqInv

-----------------------------------------------------------------------------
\* An empty directory and no run.
LEMMA EqInitially == EqInit => EqInv
<1> SUFFICES ASSUME EqInit PROVE EqInv
  OBVIOUS
<1>1. cmd = Idle /\ cmd.at = "idle"
  BY DEF EqInit, Idle
<1>2. out \in Directories /\ out.result = NoFile
  BY DEF EqInit, Directories, Files
<1>3. shelf \in [netlist : NetlistFiles, sums : Sums]
  BY DEF EqInit, NetlistFiles
<1> QED
  BY <1>1, <1>2, <1>3
  DEF EqInv, EqTypeOK, NoStale, Named, CasesTrue, FilesFresh, ResultSound, NoFile,
      Early, Working, Cased

\* Every step keeps it.
LEMMA EqStep == Distinct /\ EqInv /\ [EqNext]_eqVars => EqInv'
BY CheckStep, ResolveStep, CopyStep, StructureStep, GoldStep, GateStep, MiterStep, AbcStep,
   ReportStep, KilledStep, RewrittenStep, EqStutter DEF EqNext

(* A run's files, records and verdict stay together: what is recorded of a *)
(* text is the truth about that text, whatever earlier runs left behind.   *)
THEOREM EqCheckCorrect ==
  ASSUME Distinct
  PROVE  EqSpec => []EqInv
<1>1. EqInv /\ [EqNext]_eqVars => EqInv'
  BY EqStep
<1> QED BY <1>1, EqInitially, PTL DEF EqSpec

(* eq_check.py 20, "Only 0 is a pass": whatever tools fail, jobs are       *)
(* killed and netlists rewritten, a result that passes names a netlist     *)
(* that implements the RTL.                                                *)
THEOREM PassingIsProved ==
  ASSUME Distinct
  PROVE  EqSpec => []EqPassProved
<1>1. EqInv => EqPassProved
  BY DEF EqInv, NoStale, ResultSound, Proved, EqPassProved
<1> QED BY <1>1, EqCheckCorrect, PTL

-----------------------------------------------------------------------------
(* Netlists: the roles of the cells.                                       *)
LEMMA IdentityIsBuffer ==
  ASSUME NEW name, Role(name) = "identity" PROVE name = "buf"
<1>1. name # MACRO /\ name \in DOMAIN Library
  BY DEF Role
<1>2. Roles[name] = cell_role(Library[name]) /\ Roles[name] = "identity"
  BY <1>1 DEF Role, Roles
<1>3. name \in {"buf", "inv", "nand2", "gate", "fill", "dff", "dffn"}
  BY <1>1 DEF Library
<1>4. CASE name = "inv"
  BY <1>2, <1>4 DEF cell_role, Library, Cell
<1>5. CASE name = "nand2"
  BY <1>2, <1>5 DEF cell_role, Library, Cell
<1>6. CASE name = "gate"
  BY <1>2, <1>6 DEF cell_role, Library, Cell
<1>7. CASE name = "fill"
  BY <1>2, <1>7 DEF cell_role, Library, Cell
<1>8. CASE name = "dff"
  BY <1>2, <1>8 DEF cell_role, Library, Cell
<1>9. CASE name = "dffn"
  BY <1>2, <1>9 DEF cell_role, Library, Cell
<1> QED BY <1>3, <1>4, <1>5, <1>6, <1>7, <1>8, <1>9

LEMMA FlopIsRising ==
  ASSUME NEW name, Role(name) = "flop" PROVE name = "dff"
<1>1. name # MACRO /\ name \in DOMAIN Library
  BY DEF Role
<1>2. Roles[name] = cell_role(Library[name]) /\ Roles[name] = "flop"
  BY <1>1 DEF Role, Roles
<1>3. name \in {"buf", "inv", "nand2", "gate", "fill", "dff", "dffn"}
  BY <1>1 DEF Library
<1>4. CASE name = "buf"
  BY <1>2, <1>4 DEF cell_role, Library, Cell
<1>5. CASE name = "inv"
  BY <1>2, <1>5 DEF cell_role, Library, Cell
<1>7. CASE name = "nand2"
  BY <1>2, <1>7 DEF cell_role, Library, Cell
<1>8. CASE name = "fill"
  BY <1>2, <1>8 DEF cell_role, Library, Cell
<1>6. CASE name = "gate"
  BY <1>2, <1>6 DEF cell_role, Library, Cell
<1>9. CASE name = "dffn"
  BY <1>2, <1>9 DEF cell_role, Library, Cell
<1> QED BY <1>3, <1>4, <1>5, <1>6, <1>7, <1>8, <1>9

LEMMA MacroIsSram ==
  ASSUME NEW name, Role(name) = "sram" PROVE name = MACRO
<1>1. SUFFICES ASSUME name # MACRO PROVE FALSE
  OBVIOUS
<1>2. name \in DOMAIN Library /\ Roles[name] = "sram"
  BY <1>1 DEF Role
<1>3. cell_role(Library[name]) = "sram"
  BY <1>2 DEF Roles
<1>4. cell_role(Library[name]) \in {"unsupported", "physical", "flop", "identity", "comb"}
  BY DEF cell_role
<1> QED BY <1>3, <1>4

-----------------------------------------------------------------------------
(* The walk of clock_depth exists: it is a function defined by recursion.  *)
LEMMA NatSetInduction ==
  ASSUME NEW S, 0 \in S, \A n \in Nat : n \in S => n + 1 \in S
  PROVE  Nat \subseteq S
<1> DEFINE Bad == {n \in Nat : n \notin S}
<1>1. SUFFICES ASSUME Bad # {} PROVE FALSE
  BY <1>1
<1> DEFINE R == OpToRel(<, Nat)
<1>0. IsWellFoundedOn(R, Nat)
  BY NatLessThanWellFounded
<1>00. \A x, y \in Nat : x < y => <<x, y>> \in R
  BY DEF OpToRel
<1> HIDE DEF R
<1>2. PICK m \in Bad : \A k \in Bad : <<k, m>> \notin R
  BY <1>0, <1>1, WFMin
<1>3. m # 0 /\ m \in Nat
  OBVIOUS
<1>4. m - 1 \in Nat /\ m - 1 < m
  BY <1>3
<1>6. <<m - 1, m>> \in R
  BY <1>3, <1>4, <1>00
<1>7. m - 1 \notin Bad
  BY <1>2, <1>6
<1>5. QED BY <1>3, <1>4, <1>7, SMT

Back(net) == IF net = "error" THEN "error" ELSE Behind(net)
Walk(f, net, n) == f = [k \in 0 .. n |-> IF k = 0 THEN net ELSE Back(f[k - 1])]

LEMMA WalkExists == \A net : \A n \in Nat : \E f : Walk(f, net, n)
<1> SUFFICES ASSUME NEW net PROVE \A n \in Nat : \E f : Walk(f, net, n)
  OBVIOUS
<1> DEFINE S == {n \in Nat : \E f : Walk(f, net, n)}
<1>1. 0 \in S
  <2>1. Walk([k \in 0 .. 0 |-> net], net, 0)
    BY DEF Walk
  <2> QED BY <2>1
<1>2. ASSUME NEW n \in Nat, n \in S PROVE n + 1 \in S
  <2>1. PICK f : Walk(f, net, n)
    BY <1>2
  <2> DEFINE g == [k \in 0 .. n + 1 |-> IF k = 0 THEN net ELSE Back(f[k - 1])]
  <2>2. \A k \in 0 .. n : f[k] = g[k]
    BY <2>1, n \in Nat DEF Walk
  <2>3. \A k \in 0 .. n + 1 : k # 0 => k - 1 \in 0 .. n /\ g[k] = Back(g[k - 1])
    <3> SUFFICES ASSUME NEW k \in 0 .. n + 1, k # 0
                 PROVE k - 1 \in 0 .. n /\ g[k] = Back(g[k - 1])
      OBVIOUS
    <3>1. k - 1 \in 0 .. n
      OBVIOUS
    <3>2. g[k] = Back(f[k - 1])
      OBVIOUS
    <3> HIDE DEF g
    <3> QED BY <3>1, <3>2, <2>2
  <2>4. g = [k \in 0 .. n + 1 |-> g[k]] /\ g[0] = net
    OBVIOUS
  <2> HIDE DEF g
  <2>5. Walk(g, net, n + 1)
    BY <2>3, <2>4 DEF Walk
  <2> QED BY <2>5
<1> HIDE DEF S
<1>3. Nat \subseteq S
  BY <1>1, <1>2, NatSetInduction
<1> QED BY <1>3 DEF S

LEMMA ClockDepthWalks ==
  ASSUME IsFiniteSet(netlist.nets), NEW net
  PROVE  Length \in Nat /\ Walk(clock_depth(net), net, Length)
<1>1. Length \in Nat
  BY FS_CardinalityType DEF Length
<1>2. PICK f : Walk(f, net, Length)
  BY <1>1, WalkExists
<1> QED BY <1>1, <1>2 DEF clock_depth, Walk, Back

-----------------------------------------------------------------------------
(* One step back keeps the level: an assign joins its two sides, and the   *)
(* cells the walk passes are buffers.                                      *)
LEMMA BufferPorts == Ports("buf").ins = {"A"} /\ Ports("buf").outs = {"X"}
BY DEF Ports, MACRO, Library, Cell

LEMMA BehindKeepsLevel ==
  ASSUME WellFormed(netlist), NEW level \in [netlist.nets -> BOOLEAN], Agrees(level),
         NEW net \in netlist.nets, Behind(net) # "error"
  PROVE  Behind(net) \in netlist.nets /\ level[Behind(net)] = level[net]
<1>1. CASE net = "clk"
  BY <1>1 DEF Behind
<1>2. CASE net # "clk"
  <2> DEFINE d == CHOOSE x \in Drivers(net) : TRUE
  <2>1. Drivers(net) # {}
    BY <1>2 DEF Behind
  <2>2. d \in Drivers(net)
    BY <2>1
  <2> HIDE DEF d
  <2>3. d[1] # "port"
    BY <1>2, <2>1 DEF Behind, d
  <2>4. CASE d \in {<<"port", p>> : p \in netlist.ports \cap {net}}
    BY <2>3, <2>4
  <2>5. CASE d \in {<<"assign", k>> : k \in {n \in DOMAIN netlist.assigns : netlist.assigns[n][1] = net}}
    <3>1. PICK k \in DOMAIN netlist.assigns : d = <<"assign", k>> /\ netlist.assigns[k][1] = net
      BY <2>5
    <3>2. Behind(net) = netlist.assigns[k][2]
      <4>1. d[1] = "assign" /\ d[2] = k
        BY <3>1
      <4> QED BY <1>2, <2>1, <4>1 DEF Behind, d
    <3>3. netlist.assigns[k][2] \in netlist.nets
      BY DEF WellFormed
    <3>4. level[netlist.assigns[k][1]] = level[netlist.assigns[k][2]]
      BY DEF Agrees
    <3> QED BY <3>1, <3>2, <3>3, <3>4, Zenon
  <2>6. CASE d \in {<<"cell", i>> : i \in {j \in Supported : \E pin \in Ports(Name(j)).outs \cap Connected(j) : Net(j, pin) = net}}
    <3>1. PICK i \in Supported : d = <<"cell", i>> /\ \E pin \in Ports(Name(i)).outs \cap Connected(i) : Net(i, pin) = net
      BY <2>6
    <3>2. d[1] = "cell" /\ d[2] = i
      BY <3>1
    <3>3. Role(Name(i)) = "identity" /\ Ports(Name(i)).ins \subseteq Connected(i)
      BY <1>2, <2>1, <3>2 DEF Behind, d
    <3>4. Name(i) = "buf"
      BY <3>3, IdentityIsBuffer
    <3>5. (CHOOSE pin \in Ports(Name(i)).ins : TRUE) = "A"
      BY <3>4, BufferPorts
    <3>6. Behind(net) = Net(i, "A")
      BY <1>2, <2>1, <3>2, <3>3, <3>5 DEF Behind, d
    <3>7. "A" \in Connected(i) /\ "X" \in Connected(i) /\ Net(i, "X") = net
      BY <3>1, <3>3, <3>4, BufferPorts
    <3>8. i \in Instances
      BY DEF Supported
    <3>9. Net(i, "A") \in netlist.nets
      BY <3>7, <3>8 DEF WellFormed, Instances, Connected, Net
    <3>10. (level[Net(i, "X")] = level[Net(i, "A")]) = (Name(i) = "buf")
      <4>1. Follows(i, level)
        BY <3>8 DEF Agrees
      <4> QED BY <3>4, <3>7, <4>1 DEF Follows
    <3>11. level[Net(i, "X")] = level[Net(i, "A")]
      BY <3>4, <3>10, Zenon
    <3> QED BY <3>6, <3>7, <3>9, <3>11, Zenon
  <2> QED BY <2>2, <2>4, <2>5, <2>6 DEF Drivers
<1> QED BY <1>1, <1>2

LEMMA WalkKeepsLevel ==
  ASSUME WellFormed(netlist), NEW level \in [netlist.nets -> BOOLEAN], Agrees(level),
         NEW net \in netlist.nets, NEW n \in Nat, NEW f, Walk(f, net, n), f[n] = "clk"
  PROVE  level[net] = level["clk"]
<1> DEFINE SameLevel(k) == f[k] = "error" \/ (f[k] \in netlist.nets /\ level[f[k]] = level[net])
           S == {k \in Nat : k <= n => SameLevel(k)}
<1>0. \A k \in 0 .. n : f[k] = IF k = 0 THEN net ELSE Back(f[k - 1])
  BY DEF Walk
<1>1. 0 \in S
  <2>1. f[0] = net
    BY <1>0
  <2> QED BY <2>1
<1>2. ASSUME NEW k \in Nat, k \in S PROVE k + 1 \in S
  <2>1. SUFFICES ASSUME k + 1 <= n PROVE SameLevel(k + 1)
    OBVIOUS
  <2>2. SameLevel(k)
    BY <1>2, <2>1
  <2>3. f[k + 1] = Back(f[k])
    <3>1. k + 1 \in 0 .. n /\ k + 1 # 0 /\ (k + 1) - 1 = k
      BY <2>1
    <3> QED BY <1>0, <3>1
  <2>4. CASE f[k] = "error"
    BY <2>3, <2>4 DEF Back
  <2>5. CASE f[k] # "error" /\ Behind(f[k]) # "error"
    <3>1. Behind(f[k]) \in netlist.nets /\ level[Behind(f[k])] = level[f[k]]
      BY <2>2, <2>5, BehindKeepsLevel
    <3>2. f[k + 1] = Behind(f[k])
      BY <2>3, <2>5 DEF Back
    <3> QED BY <2>2, <2>5, <3>1, <3>2, Zenon
  <2>6. CASE f[k] # "error" /\ Behind(f[k]) = "error"
    BY <2>3, <2>6 DEF Back
  <2> QED BY <2>4, <2>5, <2>6
<1> HIDE DEF S
<1>3. Nat \subseteq S
  BY <1>1, <1>2, NatSetInduction
<1>4. SameLevel(n)
  <2>1. n \in S
    BY <1>3
  <2> QED BY <2>1 DEF S
<1> QED BY <1>4, Zenon

(* A net that clock_depth traces to clk has its level, always.             *)
LEMMA TracedIsClock ==
  ASSUME WellFormed(netlist), NEW level \in [netlist.nets -> BOOLEAN], Agrees(level),
         NEW net \in netlist.nets, clock_reaches(net)
  PROVE  level[net] = level["clk"]
<1> DEFINE f == clock_depth(net)
<1>1. IsFiniteSet(netlist.nets)
  BY DEF WellFormed
<1>2. Length \in Nat /\ Walk(f, net, Length)
  BY <1>1, ClockDepthWalks
<1>3. f[Length] = "clk"
  BY DEF clock_reaches
<1> HIDE DEF f
<1> QED BY <1>2, <1>3, WalkKeepsLevel

(* Whatever its cells, assigns and buffers: a netlist without errors has   *)
(* one clock.                                                              *)
THEOREM AcceptedHasOneClock == WellFormed(netlist) => OneClock
<1>1. SUFFICES ASSUME WellFormed(netlist), analyze_structure = {}, NEW i \in Stateful
               PROVE  /\ Name(i) # "dffn"
                      /\ ClockPin(i) \in Connected(i) =>
                           \A level \in [netlist.nets -> BOOLEAN] :
                             Agrees(level) => level[Net(i, ClockPin(i))] = level["clk"]
  BY DEF OneClock
<1>2. ~Untraced(i) /\ i \in Instances
  BY <1>1 DEF analyze_structure, Stateful
<1>3. Name(i) = MACRO \/ Name(i) = "dff"
  BY FlopIsRising, MacroIsSram DEF Stateful
<1>4. ClockPin(i) \in Connected(i) => clock_reaches(Net(i, ClockPin(i)))
  <2>1. CASE Name(i) = MACRO
    BY <1>2, <2>1 DEF Untraced, ClockPin
  <2>2. CASE Name(i) # MACRO
    BY <1>2, <2>2 DEF Untraced
  <2> QED BY <2>1, <2>2
<1>5. ClockPin(i) \in Connected(i) => Net(i, ClockPin(i)) \in netlist.nets
  BY <1>1, <1>2 DEF WellFormed, Instances, Connected, Net
<1>6. Name(i) # "dffn"
  BY <1>3 DEF MACRO
<1> QED BY <1>1, <1>4, <1>5, <1>6, TracedIsClock

(* Every netlist examined, one after another.                              *)
THEOREM OneClockAlways == NetlistSpec => []OneClock
<1>1. NetlistInit => WellFormed(netlist)
  <2>1. IsFiniteSet({"clk"})
    BY FS_Singleton
  <2> QED BY <2>1 DEF NetlistInit, Empty, WellFormed
<1>2. WellFormed(netlist) /\ [NetlistNext]_netlist => WellFormed(netlist)'
  BY NetlistsAssumption DEF NetlistNext, WellFormed
<1>3. WellFormed(netlist) => OneClock
  BY AcceptedHasOneClock
<1> QED BY <1>1, <1>2, <1>3, PTL DEF NetlistSpec

-----------------------------------------------------------------------------
(* The sweep: types.                                                       *)
Statuses == DONE \cup {"none", "failed", "timeout", "terminated"}
RowResults  == [status : Statuses, job : Nat, ran : Nat, says : Nat]
RunDirs  == [snap : Nat, params : Nat, result : RowResults, shown : BOOLEAN]
Tasks    == [run : Runs, state : ACTIVE \cup {"ENDED"}, at : {"queued", "flow", "packing", "over"},
             staged : Nat, recent : BOOLEAN]

\* Where the call of a shell stands.
Deciding(s)   == shell[s].at = "build"
Recording(s)  == shell[s].at \in {"append", "replace"}
Submitting(s) == shell[s].at = "sbatch" \/ Recording(s)

Decisions(s)  == [at : {"build"}, rest : SUBSET Matrix[s], flag : Flags, last : [Matrix[s] -> Nat],
                  busy : SUBSET Matrix[s]]

CallOK(s) ==
  /\ shell[s].at \in {"away", "build", "sbatch", "append", "replace"}
  /\ Deciding(s) => shell[s] \in Decisions(s)
  /\ shell[s].at = "sbatch" => shell[s] \in [at : {"sbatch"}, flag : Flags, todo : SUBSET Matrix[s]]
  /\ shell[s].at = "append" =>
       shell[s] = [at |-> "append", flag |-> shell[s].flag, todo |-> shell[s].todo, ids |-> shell[s].ids]
  /\ shell[s].at = "replace" =>
       shell[s] = [at |-> "replace", flag |-> shell[s].flag, todo |-> shell[s].todo, ids |-> shell[s].ids,
                   data |-> shell[s].data]
  /\ Recording(s) =>
       /\ shell[s].flag \in Flags /\ shell[s].todo \subseteq Matrix[s]
       /\ DOMAIN shell[s].ids \subseteq Matrix[s] /\ shell[s].ids \in [DOMAIN shell[s].ids -> Nat]

SweepTypeOK ==
  /\ repo \in Nat \ {0}
  /\ rundir \in [Runs -> RunDirs]
  /\ manifest \in [Runs -> Nat]
  /\ queue \in Seq(Tasks)
  /\ shell = [s \in Shells |-> shell[s]] /\ \A s \in Shells : CallOK(s)

(* A snapshot and its description agree once there is a description, and   *)
(* there is one before a run is submitted.                                 *)
Described(r) == rundir[r].params # Nothing
Snapped ==
  /\ \A r \in Runs : Described(r) => rundir[r].snap = rundir[r].params
  /\ \A j \in Jobs : Described(queue[j].run)
  /\ \A s \in Shells : Submitting(s) => \A r \in Matrix[s] : Described(r)
  /\ \A j \in Jobs : queue[j].at = "flow" => queue[j].staged = rundir[queue[j].run].params

(* A call has made the snapshots it has gone past.                         *)
Halfway ==
  \A s \in Shells : Deciding(s) => \A r \in Matrix[s] \ shell[s].rest : Described(r)

ResultsTrue ==
  \A r \in Runs : /\ rundir[r].result.ran = rundir[r].result.says
                  /\ rundir[r].result.status # "none" => rundir[r].result.job \in Jobs

(* Only the last job of a run may wait or run, and it is the run's record  *)
(* or about to become it.                                                  *)
LastTask(j, r) == queue[j].run = r /\ \A k \in Jobs : queue[k].run = r => k <= j
Quiet(r)   == \A j \in Jobs : queue[j].run = r => queue[j].state = "ENDED"
OnlyLast ==
  \A j \in Jobs : queue[j].state # "ENDED" => LastTask(j, queue[j].run)
RowsKept ==
  \A r \in Runs : \A j \in Jobs :
    LastTask(j, r) => manifest[r] = j \/ \E s \in Shells : Recording(s) /\ r \in DOMAIN shell[s].ids
IdsLast ==
  \A s \in Shells : Recording(s) =>
    \A r \in DOMAIN shell[s].ids : shell[s].ids[r] \in Jobs /\ LastTask(shell[s].ids[r], r)
DataFresh ==
  \A s \in Shells : shell[s].at = "replace" => lock = s /\ shell[s].data = manifest

(* What a call knows of its runs stays true until it submits them.         *)
Known ==
  \A s \in Shells : Deciding(s) =>
    \A r \in Matrix[s] : shell[s].last[r] = manifest[r] /\ (r \notin shell[s].busy => Quiet(r))
Due(s, r) ==
  /\ Quiet(r) /\ rundir[r].shown
  /\ shell[s].flag # "rerun_complete" => rundir[r].result.status \notin DONE
DueRuns == \A s \in Shells : Submitting(s) => \A r \in shell[s].todo : Due(s, r)

(* A result that the pool does not show yet is of a job that is active or  *)
(* ended recently.                                                         *)
HiddenRecent ==
  \A r \in Runs : ~rundir[r].shown =>
    \E j \in Jobs : LastTask(j, r) /\ (queue[j].state # "ENDED" \/ queue[j].recent)

SweepInv ==
  /\ SweepTypeOK /\ Snapped /\ Halfway /\ ResultsTrue /\ OnlyLast /\ RowsKept /\ IdsLast /\ DataFresh
  /\ Known /\ DueRuns /\ HiddenRecent

-----------------------------------------------------------------------------
LEMMA SweepInitially == Separate /\ SweepInit => SweepInv
<1> SUFFICES ASSUME Separate, SweepInit PROVE SweepInv
  OBVIOUS
<1> USE DEF SweepInit, Nothing, NoResult, Away, Jobs, Separate
<1>1. SweepTypeOK
  <2>1. rundir \in [Runs -> RunDirs]
    BY DEF RunDirs, RowResults, Statuses
  <2>2. queue \in Seq(Tasks)
    OBVIOUS
  <2>3. ASSUME NEW s \in Shells PROVE CallOK(s)
    BY DEF CallOK, Deciding, Recording
  <2> QED BY <2>1, <2>2, <2>3 DEF SweepTypeOK
<1>2. Jobs = {} /\ \A s \in Shells : shell[s].at = "away"
  OBVIOUS
<1>3. Snapped /\ Halfway /\ ResultsTrue
  BY <1>2 DEF Snapped, Halfway, Deciding, Described, Submitting, Recording, ResultsTrue
<1>4. OnlyLast /\ RowsKept /\ IdsLast /\ DataFresh
  BY <1>2 DEF OnlyLast, RowsKept, IdsLast, DataFresh, Recording
<1>5. Known /\ DueRuns /\ HiddenRecent
  BY <1>2 DEF Known, DueRuns, HiddenRecent, Deciding, Submitting, Recording
<1> QED BY <1>1, <1>3, <1>4, <1>5 DEF SweepInv

-----------------------------------------------------------------------------
LEMMA TasksOfRuns ==
  ASSUME SweepTypeOK
  PROVE  \A k \in Jobs : queue[k] \in Tasks /\ queue[k].run \in Runs
<1>1. \A k \in Jobs : queue[k] \in Tasks
  BY DEF SweepTypeOK, Jobs
<1>2. \A t \in Tasks : t.run \in Runs
  BY DEF Tasks
<1> QED BY <1>1, <1>2

(* The jobs.  A step of a job replaces its task and the result of its run. *)
TaskStep(j, t, d) ==
  LET r == queue[j].run IN
  /\ queue' = [queue EXCEPT ![j] = t] /\ rundir' = [rundir EXCEPT ![r] = d]
  /\ t.run = r /\ d.snap = rundir[r].snap /\ d.params = rundir[r].params
  /\ t.state # "ENDED" \/ d # rundir[r] => queue[j].state # "ENDED"
  /\ t.at = "flow" => t.staged = d.params
  /\ d.result.ran = d.result.says /\ (d.result.status # "none" => d.result.job \in Jobs)
  /\ ~d.shown => queue[j].state # "ENDED" /\ (t.state # "ENDED" \/ t.recent)
  /\ UNCHANGED <<repo, manifest, lock, shell>>

LEMMA TaskStepKeeps ==
  ASSUME Separate, SweepInv, NEW j \in Jobs, NEW t \in Tasks, NEW d \in RunDirs, TaskStep(j, t, d)
  PROVE  SweepInv'
<1> DEFINE r == queue[j].run
<1>1. /\ queue \in Seq(Tasks) /\ rundir \in [Runs -> RunDirs] /\ r \in Runs
      /\ queue' \in Seq(Tasks) /\ rundir' \in [Runs -> RunDirs] /\ Jobs' = Jobs
  <2>1. queue \in Seq(Tasks) /\ rundir \in [Runs -> RunDirs]
    BY DEF SweepInv, SweepTypeOK
  <2>2. r \in Runs
    BY TasksOfRuns DEF SweepInv
  <2>3. queue' = [queue EXCEPT ![j] = t] /\ rundir' = [rundir EXCEPT ![r] = d]
    BY DEF TaskStep
  <2> QED BY <2>1, <2>2, <2>3 DEF Jobs
<1>2. /\ queue'[j] = t /\ t.run = r
      /\ \A k \in Jobs : k # j => queue'[k] = queue[k]
      /\ \A k \in Jobs : queue'[k].run = queue[k].run
  BY <1>1 DEF TaskStep, Jobs
<1>3. /\ rundir'[r] = d
      /\ \A q \in Runs : q # r => rundir'[q] = rundir[q]
      /\ \A q \in Runs : rundir'[q].snap = rundir[q].snap /\ rundir'[q].params = rundir[q].params
  BY <1>1 DEF TaskStep
<1>4. repo' = repo /\ manifest' = manifest /\ lock' = lock /\ shell' = shell
  BY DEF TaskStep
<1>5. \A k \in Jobs, q \in Runs : LastTask(k, q)' <=> LastTask(k, q)
  BY <1>1, <1>2 DEF LastTask
<1>6. \A q \in Runs : Quiet(q) => Quiet(q)'
  BY <1>1, <1>2 DEF Quiet, TaskStep
<1>7. SweepTypeOK'
  BY <1>1, <1>4 DEF SweepInv, SweepTypeOK, CallOK, Deciding, Recording
<1>8. Snapped'
  <2>1. \A q \in Runs : Described(q)' <=> Described(q)
    BY <1>3 DEF Described
  <2>2. \A k \in Jobs : queue[k].run \in Runs
    BY TasksOfRuns DEF SweepInv
  <2>3. \A q \in Runs : Described(q)' => rundir'[q].snap = rundir'[q].params
    BY <1>3, <2>1 DEF SweepInv, Snapped
  <2>4. \A k \in Jobs' : Described(queue[k].run)'
    BY <1>1, <1>2, <2>1, <2>2 DEF SweepInv, Snapped
  <2>5. \A s \in Shells : Submitting(s)' => \A q \in Matrix[s] : Described(q)'
    <3>1. \A s \in Shells : Submitting(s)' <=> Submitting(s)
      BY <1>4 DEF Submitting, Recording
    <3>2. \A s \in Shells : Matrix[s] \subseteq Runs
      BY DEF Separate
    <3> QED BY <3>1, <3>2, <2>1 DEF SweepInv, Snapped
  <2>6. \A k \in Jobs' : queue'[k].at = "flow" => queue'[k].staged = rundir'[queue'[k].run].params
    BY <1>1, <1>2, <1>3, <2>2 DEF SweepInv, Snapped, TaskStep
  <2> QED BY <2>3, <2>4, <2>5, <2>6, <1>1 DEF Snapped
<1>17. Halfway'
  <2>1. \A q \in Runs : Described(q)' <=> Described(q)
    BY <1>3 DEF Described
  <2> QED BY <2>1, <1>4 DEF SweepInv, Halfway, Deciding, Separate
<1>9. ResultsTrue'
  BY <1>1, <1>3 DEF SweepInv, ResultsTrue, TaskStep
<1>10. OnlyLast'
  <2>1. \A k \in Jobs : queue'[k].state # "ENDED" => queue[k].state # "ENDED"
    BY <1>2 DEF TaskStep
  <2>2. \A k \in Jobs : queue[k].run \in Runs
    BY TasksOfRuns DEF SweepInv
  <2> QED BY <1>1, <1>2, <1>5, <2>1, <2>2 DEF SweepInv, OnlyLast
<1>11. RowsKept'
  BY <1>1, <1>4, <1>5 DEF SweepInv, RowsKept, Recording
<1>12. IdsLast'
  BY <1>1, <1>2, <1>4 DEF SweepInv, IdsLast, Recording, LastTask
<1>13. DataFresh'
  BY <1>4 DEF SweepInv, DataFresh
<1>14. Known'
  BY <1>1, <1>2, <1>4 DEF SweepInv, Known, Deciding, Quiet, TaskStep
<1>15. DueRuns'
  <2>1. ASSUME NEW q, Quiet(q), queue[j].run = q PROVE rundir' = rundir
    BY <2>1, <1>1 DEF Quiet, TaskStep
  <2>2. ASSUME NEW q, Quiet(q) PROVE Quiet(q)' /\ rundir'[q] = rundir[q]
    BY <2>2, <2>1, <1>1, <1>2 DEF Quiet, TaskStep
  <2> QED BY <2>2, <1>4 DEF SweepInv, DueRuns, Due, Submitting, Recording
<1>16. HiddenRecent'
  <2> SUFFICES ASSUME NEW q \in Runs, ~rundir'[q].shown
               PROVE  \E k \in Jobs : LastTask(k, q)' /\ (queue'[k].state # "ENDED" \/ queue'[k].recent)
    BY <1>1 DEF HiddenRecent
  <2>1. CASE q = r
    <3>1. queue[j].state # "ENDED" /\ (t.state # "ENDED" \/ t.recent)
      BY <2>1, <1>3 DEF TaskStep
    <3>2. LastTask(j, r)
      BY <3>1 DEF SweepInv, OnlyLast
    <3> QED BY <2>1, <3>1, <3>2, <1>1, <1>2, <1>5
  <2>2. CASE q # r
    <3>1. PICK k \in Jobs : LastTask(k, q) /\ (queue[k].state # "ENDED" \/ queue[k].recent)
      BY <2>2, <1>3 DEF SweepInv, HiddenRecent
    <3>2. k # j
      BY <3>1, <2>2 DEF LastTask
    <3> QED BY <3>1, <3>2, <1>2, <1>5
  <2> QED BY <2>1, <2>2
<1> QED BY <1>7, <1>8, <1>9, <1>10, <1>11, <1>12, <1>13, <1>14, <1>15, <1>16, <1>17 DEF SweepInv

\* What the steps need of a job and its run.
LEMMA JobFacts ==
  ASSUME SweepInv, NEW j \in Jobs
  PROVE  /\ queue[j] \in Tasks /\ queue[j].run \in Runs /\ rundir[queue[j].run] \in RunDirs
         /\ rundir[queue[j].run].snap = rundir[queue[j].run].params
         /\ rundir[queue[j].run].result.ran = rundir[queue[j].run].result.says
         /\ rundir[queue[j].run].result.status # "none" => rundir[queue[j].run].result.job \in Jobs
         /\ queue[j].at = "flow" => queue[j].staged = rundir[queue[j].run].params
         /\ j \in Nat
<1>1. queue[j] \in Tasks /\ queue[j].run \in Runs
  BY TasksOfRuns DEF SweepInv
<1>2. rundir[queue[j].run] \in RunDirs
  BY <1>1 DEF SweepInv, SweepTypeOK
<1>3. rundir[queue[j].run].snap = rundir[queue[j].run].params
  BY <1>1 DEF SweepInv, Snapped
<1>4. queue[j].at = "flow" => queue[j].staged = rundir[queue[j].run].params
  BY DEF SweepInv, Snapped
<1>5. j \in Nat
  BY DEF SweepInv, SweepTypeOK, Jobs
<1> QED BY <1>1, <1>2, <1>3, <1>4, <1>5 DEF SweepInv, ResultsTrue

LEMMA StageKeeps == ASSUME Separate, SweepInv, NEW j \in Jobs, stage(j) PROVE SweepInv'
<1> DEFINE r == queue[j].run
           t == [queue[j] EXCEPT !.state = "RUNNING", !.at = "flow", !.staged = rundir[r].snap]
           d == [rundir[r] EXCEPT !.result = NoResult, !.shown = TRUE]
<1>1. /\ queue[j] \in Tasks /\ r \in Runs /\ rundir[r] \in RunDirs /\ rundir[r].snap = rundir[r].params
  BY JobFacts
<1>2. t \in Tasks /\ t.run = r /\ t.state = "RUNNING" /\ t.staged = rundir[r].snap
  BY <1>1 DEF Tasks, ACTIVE, RunDirs
<1>3. NoResult \in RowResults
  BY DEF NoResult, RowResults, Statuses
<1>4. /\ d \in RunDirs /\ d.snap = rundir[r].snap /\ d.params = rundir[r].params
      /\ d.result = NoResult /\ d.shown = TRUE
  BY <1>1, <1>3 DEF RunDirs
<1>5. queue' = [queue EXCEPT ![j] = t] /\ rundir' = [rundir EXCEPT ![r] = d]
  BY <1>1 DEF stage, SweepInv, SweepTypeOK
<1>6. queue[j].state # "ENDED"
  BY DEF stage
<1>7. UNCHANGED <<repo, manifest, lock, shell>>
  BY DEF stage
<1>8. d.result.ran = d.result.says /\ d.result.status = "none"
  BY <1>4 DEF NoResult
<1> HIDE DEF t, d
<1>9. TaskStep(j, t, d)
  BY <1>1, <1>2, <1>4, <1>5, <1>6, <1>7, <1>8 DEF TaskStep
<1> QED BY <1>2, <1>4, <1>9, TaskStepKeeps

\* A result that an attempt writes is of the snapshot it was staged from.
LEMMA WritesTrue ==
  ASSUME SweepInv, NEW j \in Jobs, queue[j].at = "flow", NEW st \in Statuses
  PROVE  LET r == queue[j].run
             d == [rundir[r] EXCEPT !.result = [status |-> st, job |-> j, ran |-> queue[j].staged, says |-> rundir[r].params],
                                    !.shown = FALSE]
         IN  /\ d \in RunDirs /\ d.snap = rundir[r].snap /\ d.params = rundir[r].params
             /\ d.result.ran = d.result.says /\ d.result.job = j
<1> DEFINE r == queue[j].run
           x == [status |-> st, job |-> j, ran |-> queue[j].staged, says |-> rundir[r].params]
<1>1. /\ queue[j] \in Tasks /\ r \in Runs /\ rundir[r] \in RunDirs /\ j \in Nat
      /\ queue[j].staged = rundir[r].params
  BY JobFacts
<1>2. rundir[r].params \in Nat
  BY <1>1 DEF RunDirs
<1>3. x \in RowResults /\ x.ran = x.says /\ x.job = j
  BY <1>1, <1>2 DEF RowResults
<1> HIDE DEF x
<1> DEFINE d == [rundir[r] EXCEPT !.result = x, !.shown = FALSE]
<1>4. d \in RunDirs /\ d.snap = rundir[r].snap /\ d.params = rundir[r].params /\ d.result = x
  BY <1>1, <1>3 DEF RunDirs
<1> QED BY <1>3, <1>4 DEF x

LEMMA StatusKnown ==
  ASSUME NEW signal \in {"none", "USR1", "TERM"}, NEW final \in BOOLEAN, NEW rc \in 0 .. 1, NEW errors \in BOOLEAN
  PROVE  status(signal, final, rc, errors) \in Statuses
<1>1. Signal["USR1"] \in Statuses /\ Signal["TERM"] \in Statuses
  BY DEF Signal, Statuses
<1>2. CASE signal = "none" /\ final
  BY <1>2 DEF status, Statuses, DONE
<1>3. CASE signal = "none" /\ ~final
  BY <1>3 DEF status, Statuses
<1>4. CASE signal # "none"
  BY <1>1, <1>4 DEF status
<1> QED BY <1>2, <1>3, <1>4

LEMMA ExtractKeeps == ASSUME Separate, SweepInv, NEW j \in Jobs, extract(j) PROVE SweepInv'
<1> DEFINE r == queue[j].run
           t == [queue[j] EXCEPT !.at = "packing"]
           D(st) == [rundir[r] EXCEPT !.result = [status |-> st, job |-> j, ran |-> queue[j].staged, says |-> rundir[r].params],
                                      !.shown = FALSE]
<1>1. PICK signal \in {"none", "USR1"}, final \in BOOLEAN, errors \in BOOLEAN, rc \in 0 .. 1 :
        rundir' = [rundir EXCEPT ![r].result = [status |-> status(signal, final, rc, errors), job |-> j,
                                    ran |-> queue[j].staged, says |-> rundir[r].params], ![r].shown = FALSE]
  BY DEF extract
<1>2. status(signal, final, rc, errors) \in Statuses
  BY StatusKnown
<1>3. PICK st \in Statuses :
        rundir' = [rundir EXCEPT ![r].result = [status |-> st, job |-> j,
                                    ran |-> queue[j].staged, says |-> rundir[r].params], ![r].shown = FALSE]
  BY <1>1, <1>2
<1>4. /\ queue[j] \in Tasks /\ r \in Runs /\ queue[j].at = "flow" /\ queue[j].state = "RUNNING"
  BY JobFacts DEF extract
<1>5. /\ D(st) \in RunDirs /\ D(st).snap = rundir[r].snap /\ D(st).params = rundir[r].params
      /\ D(st).result.ran = D(st).result.says /\ D(st).result.job = j
  BY <1>4, WritesTrue
<1>6. rundir' = [rundir EXCEPT ![r] = D(st)]
  BY <1>3, <1>4 DEF SweepInv, SweepTypeOK
<1>7. t \in Tasks /\ t.run = r /\ t.state = "RUNNING" /\ t.at = "packing"
  BY <1>4 DEF Tasks
<1>8. queue' = [queue EXCEPT ![j] = t]
  BY DEF extract
<1>9. UNCHANGED <<repo, manifest, lock, shell>>
  BY DEF extract
<1> HIDE DEF t, D
<1>10. TaskStep(j, t, D(st))
  BY <1>4, <1>5, <1>6, <1>7, <1>8, <1>9 DEF TaskStep
<1> QED BY <1>5, <1>7, <1>10, TaskStepKeeps

LEMMA EndKeeps == ASSUME Separate, SweepInv, NEW j \in Jobs, ends(j) \/ dies(j) PROVE SweepInv'
<1> DEFINE r == queue[j].run
           t == [queue[j] EXCEPT !.state = "ENDED", !.at = "over", !.recent = TRUE]
<1>1. /\ queue[j] \in Tasks /\ r \in Runs /\ rundir[r] \in RunDirs
      /\ rundir[r].result.ran = rundir[r].result.says
      /\ rundir[r].result.status # "none" => rundir[r].result.job \in Jobs
  BY JobFacts
<1>2. queue[j].state # "ENDED" /\ UNCHANGED <<repo, manifest, lock, shell, rundir>>
  BY DEF ends, dies
<1>3. t \in Tasks /\ t.run = r /\ t.state = "ENDED" /\ t.at = "over" /\ t.recent = TRUE
  BY <1>1 DEF Tasks
<1>4. queue' = [queue EXCEPT ![j] = t]
  BY DEF ends, dies
<1>5. rundir' = [rundir EXCEPT ![r] = rundir[r]]
  BY <1>2, <1>1 DEF SweepInv, SweepTypeOK
<1> HIDE DEF t
<1>6. TaskStep(j, t, rundir[r])
  BY <1>1, <1>2, <1>3, <1>4, <1>5 DEF TaskStep
<1> QED BY <1>1, <1>3, <1>6, TaskStepKeeps

LEMMA PreemptedKeeps == ASSUME Separate, SweepInv, NEW j \in Jobs, preempted(j) PROVE SweepInv'
<1> DEFINE r == queue[j].run
           t == [queue[j] EXCEPT !.state = "PENDING", !.at = "queued"]
           D(st) == [rundir[r] EXCEPT !.result = [status |-> st, job |-> j, ran |-> queue[j].staged, says |-> rundir[r].params],
                                      !.shown = FALSE]
<1>1. /\ queue[j] \in Tasks /\ r \in Runs /\ rundir[r] \in RunDirs
      /\ rundir[r].result.ran = rundir[r].result.says
      /\ rundir[r].result.status # "none" => rundir[r].result.job \in Jobs
  BY JobFacts
<1>2. queue[j].state # "ENDED" /\ UNCHANGED <<repo, manifest, lock, shell>>
  BY DEF preempted
<1>3. t \in Tasks /\ t.run = r /\ t.state = "PENDING" /\ t.at = "queued"
  BY <1>1 DEF Tasks, ACTIVE
<1>4. queue' = [queue EXCEPT ![j] = t]
  BY DEF preempted
<1>5. CASE UNCHANGED rundir
  <2>1. rundir' = [rundir EXCEPT ![r] = rundir[r]]
    BY <1>5, <1>1 DEF SweepInv, SweepTypeOK
  <2> HIDE DEF t, D
  <2>2. TaskStep(j, t, rundir[r])
    BY <1>1, <1>2, <1>3, <1>4, <2>1 DEF TaskStep
  <2> QED BY <1>1, <1>3, <2>2, TaskStepKeeps
<1>6. CASE /\ queue[j].at = "flow"
           /\ rundir' = [rundir EXCEPT ![r].result = [status |-> status("TERM", FALSE, 1, FALSE), job |-> j,
                                       ran |-> queue[j].staged, says |-> rundir[r].params], ![r].shown = FALSE]
  <2>1. PICK st \in Statuses : st = status("TERM", FALSE, 1, FALSE)
    <3>1. Signal["TERM"] \in Statuses
      BY DEF Signal, Statuses
    <3> QED BY <3>1 DEF status
  <2>2. /\ D(st) \in RunDirs /\ D(st).snap = rundir[r].snap /\ D(st).params = rundir[r].params
        /\ D(st).result.ran = D(st).result.says /\ D(st).result.job = j
    BY <1>6, WritesTrue
  <2>3. rundir' = [rundir EXCEPT ![r] = D(st)]
    BY <1>1, <1>6, <2>1 DEF SweepInv, SweepTypeOK
  <2> HIDE DEF t, D
  <2>4. TaskStep(j, t, D(st))
    BY <1>1, <1>2, <1>3, <1>4, <2>2, <2>3 DEF TaskStep
  <2> QED BY <1>3, <2>2, <2>4, TaskStepKeeps
<1> QED BY <1>5, <1>6 DEF preempted

LEMMA AgesKeeps == ASSUME Separate, SweepInv, NEW j \in Jobs, ages(j) PROVE SweepInv'
<1> DEFINE r == queue[j].run
           t == [queue[j] EXCEPT !.recent = FALSE]
<1>1. /\ queue[j] \in Tasks /\ r \in Runs /\ rundir[r] \in RunDirs /\ rundir[r].shown
      /\ rundir[r].result.ran = rundir[r].result.says
      /\ rundir[r].result.status # "none" => rundir[r].result.job \in Jobs
      /\ queue[j].at = "flow" => queue[j].staged = rundir[r].params
  BY JobFacts DEF ages
<1>2. UNCHANGED <<repo, manifest, lock, shell, rundir>>
  BY DEF ages
<1>3. t \in Tasks /\ t.run = r /\ t.state = queue[j].state /\ t.at = queue[j].at /\ t.staged = queue[j].staged
  BY <1>1 DEF Tasks
<1>4. queue' = [queue EXCEPT ![j] = t]
  BY DEF ages
<1>5. rundir' = [rundir EXCEPT ![r] = rundir[r]]
  BY <1>2, <1>1 DEF SweepInv, SweepTypeOK
<1> HIDE DEF t
<1>6. TaskStep(j, t, rundir[r])
  BY <1>1, <1>2, <1>3, <1>4, <1>5 DEF TaskStep
<1> QED BY <1>1, <1>3, <1>6, TaskStepKeeps

-----------------------------------------------------------------------------
(* The calls.  Until it submits, a call changes what it knows, and makes   *)
(* snapshots of runs that have none.                                       *)
CallStep(s, c) ==
  /\ shell' = [shell EXCEPT ![s] = c] /\ UNCHANGED <<queue, manifest>>
  /\ repo' \in Nat \ {0} /\ rundir' \in [Runs -> RunDirs]
  /\ \A r \in Runs :
       /\ rundir'[r].result = rundir[r].result /\ rundir'[r].shown = rundir[r].shown
       /\ Described(r) => rundir'[r] = rundir[r]
       /\ Described(r)' => rundir'[r].snap = rundir'[r].params
  /\ Submitting(s)' => \A r \in Matrix[s] : Described(r)'
  /\ Deciding(s)' => \A r \in Matrix[s] \ c.rest : Described(r)'
  /\ Recording(s)' <=> Recording(s)
  /\ Recording(s) => c.ids = shell[s].ids
  /\ \A t \in Shells : t # s /\ shell[t].at = "replace" => lock' = lock
  /\ c.at = "replace" => lock' = s /\ c.data = manifest
  /\ Deciding(s)' => \A r \in Matrix[s] : c.last[r] = manifest[r] /\ (r \notin c.busy => Quiet(r))
  /\ Submitting(s)' => \A r \in c.todo : /\ Quiet(r) /\ rundir[r].shown
                                         /\ c.flag # "rerun_complete" => rundir[r].result.status \notin DONE

LEMMA CallStepKeeps ==
  ASSUME Separate, SweepInv, NEW s \in Shells, NEW c, CallStep(s, c), CallOK(s)'
  PROVE  SweepInv'
<1>1. /\ shell'[s] = c /\ \A t \in Shells : t # s => shell'[t] = shell[t]
      /\ shell' = [t \in Shells |-> shell'[t]]
  BY DEF CallStep, SweepInv, SweepTypeOK
<1>2. /\ queue' = queue /\ manifest' = manifest /\ Jobs' = Jobs
      /\ \A j \in Jobs : queue[j].run \in Runs
      /\ \A t \in Shells : Matrix[t] \subseteq Runs
  BY TasksOfRuns DEF CallStep, SweepInv, Jobs, Separate
<1>3. \A r \in Runs : Described(r) => Described(r)' /\ rundir'[r] = rundir[r]
  BY DEF CallStep, Described
<1>4. \A k, r : (LastTask(k, r)' <=> LastTask(k, r)) /\ (Quiet(r)' <=> Quiet(r))
  BY <1>2 DEF LastTask, Quiet
<1>5. /\ \A t \in Shells : t # s => /\ Recording(t)' <=> Recording(t)
                                    /\ Submitting(t)' <=> Submitting(t)
                                    /\ Deciding(t)' <=> Deciding(t)
  BY <1>1 DEF Recording, Submitting, Deciding
<1>6. SweepTypeOK'
  <2>1. \A t \in Shells : CallOK(t)'
    <3>1. ASSUME NEW t \in Shells, t # s PROVE CallOK(t)'
      BY <3>1, <1>1 DEF SweepInv, SweepTypeOK, CallOK, Deciding, Recording
    <3> QED BY <3>1
  <2> QED BY <2>1, <1>1, <1>2 DEF CallStep, SweepInv, SweepTypeOK
<1>7. Snapped'
  <2>1. \A r \in Runs : Described(r)' => rundir'[r].snap = rundir'[r].params
    BY DEF CallStep
  <2>2. \A j \in Jobs' : Described(queue[j].run)' /\ (queue'[j].at = "flow" => queue'[j].staged = rundir'[queue'[j].run].params)
    BY <1>2, <1>3 DEF SweepInv, Snapped
  <2>3. ASSUME NEW t \in Shells, Submitting(t)' PROVE \A r \in Matrix[t] : Described(r)'
    <3>1. CASE t = s
      BY <2>3, <3>1 DEF CallStep
    <3>2. CASE t # s
      <4>1. Submitting(t)
        BY <2>3, <3>2, <1>1, <1>5
      <4> QED BY <4>1, <1>2, <1>3 DEF SweepInv, Snapped
    <3> QED BY <3>1, <3>2
  <2> QED BY <2>1, <2>2, <2>3, <1>2 DEF Snapped
<1>16. Halfway'
  <2>1. ASSUME NEW t \in Shells, Deciding(t)', NEW r \in Matrix[t] \ shell'[t].rest PROVE Described(r)'
    <3>1. CASE t = s
      BY <2>1, <3>1, <1>1 DEF CallStep
    <3>2. CASE t # s
      <4>1. Deciding(t) /\ r \in Matrix[t] \ shell[t].rest /\ r \in Runs
        BY <2>1, <3>2, <1>1, <1>2, <1>5
      <4> QED BY <4>1, <1>3 DEF SweepInv, Halfway
    <3> QED BY <3>1, <3>2
  <2> QED BY <2>1 DEF Halfway
<1>8. ResultsTrue'
  BY <1>2 DEF SweepInv, ResultsTrue, CallStep
<1>9. OnlyLast'
  BY <1>2, <1>4 DEF SweepInv, OnlyLast
<1>10. RowsKept'
  <2>1. ASSUME NEW t \in Shells, Recording(t) PROVE Recording(t)' /\ shell'[t].ids = shell[t].ids
    BY <2>1, <1>1, <1>5 DEF CallStep
  <2> QED BY <2>1, <1>2, <1>4 DEF SweepInv, RowsKept
<1>11. IdsLast'
  <2>1. ASSUME NEW t \in Shells, Recording(t)' PROVE Recording(t) /\ shell'[t].ids = shell[t].ids
    BY <2>1, <1>1, <1>5 DEF CallStep
  <2> QED BY <2>1, <1>2, <1>4 DEF SweepInv, IdsLast
<1>12. DataFresh'
  BY <1>1, <1>2 DEF SweepInv, DataFresh, CallStep
<1>13. Known'
  <2>1. ASSUME NEW t \in Shells, Deciding(t)', NEW r \in Matrix[t]
        PROVE  (shell[t].last[r] = manifest[r])' /\ (r \notin shell'[t].busy => Quiet(r)')
    <3>1. CASE t = s
      BY <2>1, <3>1, <1>1, <1>2, <1>4 DEF CallStep
    <3>2. CASE t # s
      BY <2>1, <3>2, <1>1, <1>2, <1>4, <1>5 DEF SweepInv, Known
    <3> QED BY <3>1, <3>2
  <2> QED BY <2>1 DEF Known
<1>14. DueRuns'
  <2>1. ASSUME NEW t \in Shells, Submitting(t)', NEW r \in shell'[t].todo PROVE Due(t, r)'
    <3>0. r \in Runs
      <4>1. shell'[t].todo \subseteq Matrix[t]
        <5>1. CallOK(t)'
          BY <1>6 DEF SweepTypeOK
        <5> QED BY <5>1, <2>1 DEF CallOK, Submitting
      <4> QED BY <4>1, <2>1, <1>2
    <3>1. CASE t = s
      BY <3>0, <2>1, <3>1, <1>1, <1>2, <1>4 DEF CallStep, Due
    <3>2. CASE t # s
      BY <3>0, <2>1, <3>2, <1>1, <1>2, <1>4, <1>5 DEF SweepInv, DueRuns, Due, CallStep
    <3> QED BY <3>1, <3>2
  <2> QED BY <2>1 DEF DueRuns
<1>15. HiddenRecent'
  BY <1>2, <1>4 DEF SweepInv, HiddenRecent, CallStep
<1> QED BY <1>6, <1>7, <1>8, <1>9, <1>10, <1>11, <1>12, <1>13, <1>14, <1>15, <1>16 DEF SweepInv

\* Runs of a shell that is not recording: their last job is their record.
LEMMA LastIsRecord ==
  ASSUME Separate, SweepInv, NEW s \in Shells, ~Recording(s), NEW r \in Matrix[s], NEW j \in Jobs, LastTask(j, r)
  PROVE  manifest[r] = j
<1>1. r \in Runs
  BY DEF Separate
<1>2. ASSUME NEW t \in Shells, Recording(t), r \in DOMAIN shell[t].ids PROVE FALSE
  <2>1. r \in Matrix[t]
    BY <1>2 DEF SweepInv, SweepTypeOK, CallOK
  <2> QED BY <2>1, <1>2 DEF Separate
<1> QED BY <1>1, <1>2 DEF SweepInv, RowsKept

LEMMA IdleIsQuiet ==
  ASSUME Separate, SweepInv, NEW s \in Shells, ~Recording(s), NEW r \in Matrix[s], manifest[r] \notin squeue_states
  PROVE  Quiet(r)
<1> SUFFICES ASSUME NEW j \in Jobs, queue[j].run = r, queue[j].state # "ENDED" PROVE FALSE
  BY DEF Quiet
<1>1. LastTask(j, r)
  BY DEF SweepInv, OnlyLast
<1>2. manifest[r] = j
  BY <1>1, LastIsRecord
<1>3. queue[j].state \in ACTIVE
  BY TasksOfRuns DEF Tasks, SweepInv
<1> QED BY <1>2, <1>3 DEF squeue_states

LEMMA SubmitKeeps == ASSUME Separate, SweepInv, NEW s \in Shells, submit(s) PROVE SweepInv'
<1>1. PICK flag \in Flags :
        shell' = [shell EXCEPT ![s] = [at |-> "build", rest |-> Matrix[s], flag |-> flag,
                                      last |-> [r \in Matrix[s] |-> manifest[r]],
                                      busy |-> {r \in Matrix[s] : manifest[r] \in squeue_states}]]
  BY DEF submit
<1> DEFINE c == [at |-> "build", rest |-> Matrix[s], flag |-> flag,
                 last |-> [r \in Matrix[s] |-> manifest[r]],
                 busy |-> {r \in Matrix[s] : manifest[r] \in squeue_states}]
<1>2. /\ c.at = "build" /\ c.rest = Matrix[s] /\ c \in Decisions(s)
      /\ \A r \in Matrix[s] : c.last[r] = manifest[r] /\ (r \notin c.busy => manifest[r] \notin squeue_states)
  BY DEF SweepInv, SweepTypeOK, Separate, Decisions
<1>3. shell[s].at = "away" /\ ~Recording(s)
  BY DEF submit, Away, Recording
<1> HIDE DEF c
<1>4. shell' = [shell EXCEPT ![s] = c] /\ shell'[s] = c
  BY <1>1 DEF c, SweepInv, SweepTypeOK
<1>5. CallOK(s)'
  BY <1>2, <1>4 DEF CallOK, Deciding, Recording
<1>6. \A r \in Matrix[s] : r \notin c.busy => Quiet(r)
  BY <1>2, <1>3, IdleIsQuiet
<1>7. CallStep(s, c)
  <2>1. UNCHANGED <<queue, manifest, rundir, repo, lock>>
    BY DEF submit
  <2>2. \A r \in Runs : Described(r)' => rundir'[r].snap = rundir'[r].params
    BY <2>1 DEF SweepInv, Snapped, Described
  <2>3. repo' \in Nat \ {0} /\ rundir' \in [Runs -> RunDirs]
    BY <2>1 DEF SweepInv, SweepTypeOK
  <2>4. ~Recording(s)' /\ ~Submitting(s)' /\ shell'[s].at = "build"
    BY <1>2, <1>4 DEF Recording, Submitting
  <2> QED BY <1>2, <1>3, <1>4, <1>6, <2>1, <2>2, <2>3, <2>4 DEF CallStep
<1> QED BY <1>5, <1>7, CallStepKeeps

\* A call that returns, whatever it has done to the directories.
LEMMA ReturnKeeps ==
  ASSUME Separate, SweepInv, NEW s \in Shells, ~Recording(s), shell' = [shell EXCEPT ![s] = Away],
         UNCHANGED <<queue, manifest, lock>>, repo' \in Nat \ {0}, rundir' \in [Runs -> RunDirs],
         \A r \in Runs :
           /\ rundir'[r].result = rundir[r].result /\ rundir'[r].shown = rundir[r].shown
           /\ Described(r) => rundir'[r] = rundir[r]
           /\ Described(r)' => rundir'[r].snap = rundir'[r].params
  PROVE  SweepInv'
<1>1. shell'[s] = Away /\ shell'[s].at = "away"
  BY DEF SweepInv, SweepTypeOK, Away
<1>2. ~Recording(s)' /\ ~Submitting(s)' /\ ~Deciding(s)'
  BY <1>1 DEF Recording, Submitting, Deciding
<1>3. CallOK(s)'
  BY <1>1, <1>2 DEF CallOK, Recording
<1>4. CallStep(s, Away)
  BY <1>1, <1>2 DEF CallStep, Away
<1> QED BY <1>3, <1>4, CallStepKeeps

\* The directories after Built.
LEMMA BuiltKeeps ==
  ASSUME SweepInv, NEW q \in Runs, NEW params \in {Nothing, repo}, rundir' = Built(q, params), repo' = repo
  PROVE  /\ rundir' \in [Runs -> RunDirs]
         /\ \A r \in Runs :
              /\ rundir'[r].result = rundir[r].result /\ rundir'[r].shown = rundir[r].shown
              /\ Described(r) => rundir'[r] = rundir[r]
              /\ Described(r)' => rundir'[r].snap = rundir'[r].params
              /\ r = q /\ ~Keeps(r) /\ params = repo => Described(r)'
<1>1. /\ repo \in Nat \ {0} /\ rundir \in [Runs -> RunDirs]
      /\ \A r \in Runs : Described(r) => rundir[r].snap = rundir[r].params
  BY DEF SweepInv, SweepTypeOK, Snapped
<1> SUFFICES ASSUME NEW r \in Runs
             PROVE  /\ rundir'[r] \in RunDirs
                    /\ rundir'[r].result = rundir[r].result /\ rundir'[r].shown = rundir[r].shown
                    /\ Described(r) => rundir'[r] = rundir[r]
                    /\ Described(r)' => rundir'[r].snap = rundir'[r].params
                    /\ r = q /\ ~Keeps(r) /\ params = repo => Described(r)'
  BY <1>1 DEF Built
<1>2. rundir[r] \in RunDirs /\ (Described(r) => Keeps(r))
  BY <1>1 DEF Described, Keeps
<1>3. CASE r = q /\ ~Keeps(r)
  <2> DEFINE d == [rundir[r] EXCEPT !.snap = repo, !.params = params]
  <2>1. rundir'[r] = d
    BY <1>1, <1>3 DEF Built
  <2>4. repo \in Nat /\ params \in Nat
    BY <1>1 DEF Nothing
  <2>2. /\ d \in RunDirs /\ d.result = rundir[r].result /\ d.shown = rundir[r].shown /\ d.snap = repo
        /\ d.params = params
    BY <1>2, <2>4 DEF RunDirs
  <2> HIDE DEF d
  <2>3. ~Described(r)
    BY <1>2, <1>3
  <2> QED BY <1>1, <2>1, <2>2, <2>3 DEF Described, Nothing
<1>4. CASE ~(r = q /\ ~Keeps(r))
  <2>1. rundir'[r] = rundir[r]
    BY <1>1, <1>4 DEF Built
  <2> QED BY <1>1, <1>2, <1>4, <2>1 DEF Described
<1> QED BY <1>3, <1>4

LEMMA BuildKeeps == ASSUME Separate, SweepInv, NEW s \in Shells, build(s) PROVE SweepInv'
<1>1. shell[s].at = "build" /\ ~Recording(s) /\ Deciding(s) /\ UNCHANGED <<repo, manifest, lock, queue>>
  BY DEF build, Recording, Deciding
<1>4. PICK q \in shell[s].rest :
        IF Keeps(q) /\ ~Same(q)
        THEN UNCHANGED rundir /\ shell' = [shell EXCEPT ![s] = Away]
        ELSE rundir' = Built(q, repo) /\ shell' = [shell EXCEPT ![s].rest = @ \ {q}]
  BY DEF build
<1>2. CASE UNCHANGED rundir /\ shell' = [shell EXCEPT ![s] = Away]
  <2>1. \A r \in Runs : /\ Described(r) => rundir'[r] = rundir[r]
                        /\ Described(r)' => rundir'[r].snap = rundir'[r].params
    BY <1>2 DEF SweepInv, Snapped, Described
  <2>2. repo' \in Nat \ {0} /\ rundir' \in [Runs -> RunDirs]
    BY <1>1, <1>2 DEF SweepInv, SweepTypeOK
  <2> QED BY <1>1, <1>2, <2>1, <2>2, ReturnKeeps
<1>3. CASE /\ Keeps(q) => Same(q)
           /\ rundir' = Built(q, repo) /\ shell' = [shell EXCEPT ![s].rest = @ \ {q}]
  <2> DEFINE c == [shell[s] EXCEPT !.rest = @ \ {q}]
  <2>1. shell[s] \in Decisions(s)
    BY <1>1 DEF SweepInv, SweepTypeOK, CallOK
  <2>2. /\ c \in Decisions(s)
        /\ c.at = "build" /\ c.last = shell[s].last /\ c.busy = shell[s].busy
        /\ c.rest = shell[s].rest \ {q}
    BY <2>1 DEF Decisions
  <2>3. shell' = [shell EXCEPT ![s] = c] /\ shell'[s] = c
    BY <1>3 DEF SweepInv, SweepTypeOK
  <2> HIDE DEF c
  <2>4. ~Recording(s)' /\ ~Submitting(s)' /\ CallOK(s)'
    BY <2>2, <2>3 DEF Recording, Submitting, CallOK, Deciding
  <2>5. Matrix[s] \subseteq Runs /\ shell[s].rest \subseteq Matrix[s]
    BY <2>1 DEF Separate, Decisions
  <2>6. /\ rundir' \in [Runs -> RunDirs]
        /\ \A r \in Runs :
             /\ rundir'[r].result = rundir[r].result /\ rundir'[r].shown = rundir[r].shown
             /\ Described(r) => rundir'[r] = rundir[r]
             /\ Described(r)' => rundir'[r].snap = rundir'[r].params
             /\ r = q /\ ~Keeps(r) => Described(r)'
    BY <1>1, <1>3, <2>5, BuiltKeeps
  <2>7. ASSUME NEW r \in Matrix[s] \ c.rest PROVE Described(r)'
    <3>1. CASE r # q
      <4>1. Described(r)
        BY <1>1, <2>2, <3>1 DEF SweepInv, Halfway
      <4> QED BY <4>1, <2>5, <2>6 DEF Described
    <3>2. CASE r = q /\ Keeps(r)
      <4>1. Described(r)
        BY <1>3, <3>2 DEF Same, Described, SweepInv, SweepTypeOK, Nothing
      <4> QED BY <4>1, <2>5, <2>6 DEF Described
    <3>3. CASE r = q /\ ~Keeps(r)
      BY <3>3, <2>5, <2>6
    <3> QED BY <3>1, <3>2, <3>3
  <2>8. \A r \in Matrix[s] : c.last[r] = manifest[r] /\ (r \notin c.busy => Quiet(r))
    BY <1>1, <2>2 DEF SweepInv, Known
  <2>9. repo' \in Nat \ {0}
    BY <1>1 DEF SweepInv, SweepTypeOK
  <2>10. CallStep(s, c)
    BY <1>1, <2>2, <2>3, <2>4, <2>6, <2>7, <2>8, <2>9 DEF CallStep
  <2> QED BY <2>4, <2>10, CallStepKeeps
<1> QED BY <1>2, <1>3, <1>4

LEMMA InterruptedKeeps == ASSUME Separate, SweepInv, NEW s \in Shells, interrupted(s) PROVE SweepInv'
<1>1. shell[s].at = "build" /\ ~Recording(s) /\ UNCHANGED <<repo, manifest, lock, queue>>
      /\ shell' = [shell EXCEPT ![s] = Away]
  BY DEF interrupted, Recording
<1>2. PICK r \in shell[s].rest : rundir' = Built(r, Nothing)
  BY DEF interrupted
<1>3. r \in Runs
  BY <1>1 DEF SweepInv, SweepTypeOK, CallOK, Deciding, Decisions, Separate
<1>4. /\ rundir' \in [Runs -> RunDirs]
      /\ \A q \in Runs :
           /\ rundir'[q].result = rundir[q].result /\ rundir'[q].shown = rundir[q].shown
           /\ Described(q) => rundir'[q] = rundir[q]
           /\ Described(q)' => rundir'[q].snap = rundir'[q].params
  BY <1>1, <1>2, <1>3, BuiltKeeps
<1>5. repo' \in Nat \ {0}
  BY <1>1 DEF SweepInv, SweepTypeOK
<1> QED BY <1>1, <1>4, <1>5, ReturnKeeps

\* What a call wants to submit is idle, and has no result to be kept.
LEMMA WantedIsDue ==
  ASSUME Separate, SweepInv, NEW s \in Shells, shell[s].at = "build", NEW r \in Matrix[s], Wanted(shell[s], r)
  PROVE  Due(s, r)
<1> DEFINE c == shell[s]
<1>1. /\ r \in Runs /\ Deciding(s) /\ ~Recording(s) /\ c.last[r] = manifest[r]
      /\ (r \notin c.busy => Quiet(r))
  BY DEF SweepInv, Known, Deciding, Recording, Separate
<1>2. r \notin c.busy
  BY DEF Wanted, run_state
<1>3. Quiet(r)
  BY <1>1, <1>2
<1>4. rundir[r].shown
  <2> SUFFICES ASSUME ~rundir[r].shown PROVE FALSE
    OBVIOUS
  <2>1. PICK j \in Jobs : LastTask(j, r) /\ (queue[j].state # "ENDED" \/ queue[j].recent)
    BY <1>1 DEF SweepInv, HiddenRecent
  <2>2. manifest[r] = j /\ queue[j].state = "ENDED" /\ queue[j].recent /\ j # Nothing
    BY <2>1, <1>1, <1>3, LastIsRecord DEF Quiet, LastTask, SweepInv, SweepTypeOK, Jobs, Nothing
  <2>3. Visible(r).status = "none"
    BY DEF Visible, NoResult
  <2>4. run_state(c, r) = "skip"
    BY <1>1, <1>2, <2>2, <2>3 DEF run_state, recently_ended, DONE
  <2> QED BY <2>4 DEF Wanted
<1>5. Visible(r) = rundir[r].result
  BY <1>4 DEF Visible
<1>6. c.flag # "rerun_complete" => rundir[r].result.status \notin DONE
  BY <1>2, <1>5 DEF Wanted, run_state
<1> QED BY <1>3, <1>4, <1>6 DEF Due

LEMMA DecideKeeps == ASSUME Separate, SweepInv, NEW s \in Shells, decide(s) PROVE SweepInv'
<1> DEFINE asked == {r \in Matrix[s] : Wanted(shell[s], r)}
           c == [at |-> "sbatch", flag |-> shell[s].flag, todo |-> asked]
<1>1. shell[s].at = "build" /\ shell[s].rest = {} /\ ~Recording(s) /\ Deciding(s) /\ UNCHANGED <<repo, rundir, manifest, lock, queue>>
  BY DEF decide, Recording, Deciding
<1>2. /\ repo' \in Nat \ {0} /\ rundir' \in [Runs -> RunDirs]
      /\ \A r \in Runs : /\ Described(r) => rundir'[r] = rundir[r]
                         /\ Described(r)' => rundir'[r].snap = rundir'[r].params
  BY <1>1 DEF SweepInv, SweepTypeOK, Snapped, Described
<1>3. CASE shell' = [shell EXCEPT ![s] = Away]
  BY <1>1, <1>2, <1>3, ReturnKeeps
<1>4. CASE shell' = [shell EXCEPT ![s] = c]
  <2>1. shell[s] \in Decisions(s)
    BY <1>1 DEF SweepInv, SweepTypeOK, CallOK
  <2>2. c \in [at : {"sbatch"}, flag : Flags, todo : SUBSET Matrix[s]] /\ c.at = "sbatch"
    BY <2>1 DEF Decisions
  <2>3. \A r \in c.todo : Due(s, r)
    BY <1>1, WantedIsDue
  <2>4. c.flag = shell[s].flag
    OBVIOUS
  <2> HIDE DEF c
  <2>5. shell'[s] = c
    BY <1>4 DEF SweepInv, SweepTypeOK
  <2>6. ~Recording(s)' /\ ~Deciding(s)' /\ CallOK(s)'
    BY <2>2, <2>5 DEF Recording, CallOK, Deciding
  <2>7. \A r \in Matrix[s] : Described(r)'
    BY <1>1 DEF SweepInv, Halfway, Described
  <2>8. CallStep(s, c)
    BY <1>1, <1>2, <1>4, <2>2, <2>3, <2>4, <2>5, <2>6, <2>7 DEF CallStep, Due
  <2> QED BY <2>6, <2>8, CallStepKeeps
<1> QED BY <1>3, <1>4 DEF decide

LEMMA ReadKeeps == ASSUME Separate, SweepInv, NEW s \in Shells, Append_read(s) PROVE SweepInv'
<1> DEFINE c == [at |-> "replace", flag |-> shell[s].flag, todo |-> shell[s].todo, ids |-> shell[s].ids,
                 data |-> manifest]
<1>1. /\ shell[s].at = "append" /\ Recording(s) /\ ~Deciding(s) /\ lock = "free" /\ lock' = s
      /\ UNCHANGED <<repo, rundir, manifest, queue>>
  BY DEF Append_read, MayLock, Recording, Deciding
<1>2. shell' = [shell EXCEPT ![s] = c]
  BY DEF Append_read, SweepInv, SweepTypeOK
<1>3. /\ c.at = "replace" /\ c.ids = shell[s].ids /\ c.flag = shell[s].flag /\ c.todo = shell[s].todo
      /\ c.data = manifest
      /\ c = [at |-> "replace", flag |-> c.flag, todo |-> c.todo, ids |-> c.ids, data |-> c.data]
  OBVIOUS
<1>4. /\ shell[s].flag \in Flags /\ shell[s].todo \subseteq Matrix[s]
      /\ DOMAIN shell[s].ids \subseteq Matrix[s] /\ shell[s].ids \in [DOMAIN shell[s].ids -> Nat]
  BY <1>1 DEF SweepInv, SweepTypeOK, CallOK
<1> HIDE DEF c
<1>5. shell'[s] = c
  BY <1>2 DEF SweepInv, SweepTypeOK
<1>6. Recording(s)' /\ ~Deciding(s)' /\ CallOK(s)'
  BY <1>3, <1>4, <1>5 DEF Recording, CallOK, Deciding
<1>7. \A t \in Shells : shell[t].at # "replace"
  BY <1>1 DEF SweepInv, DataFresh, Separate
<1>8. /\ repo' \in Nat \ {0} /\ rundir' \in [Runs -> RunDirs]
      /\ \A r \in Runs : /\ Described(r) => rundir'[r] = rundir[r]
                         /\ Described(r)' => rundir'[r].snap = rundir'[r].params
  BY <1>1 DEF SweepInv, SweepTypeOK, Snapped, Described
<1>9. \A r \in Matrix[s] : Described(r)'
  BY <1>1 DEF SweepInv, Snapped, Described, Submitting
<1>10. \A r \in shell[s].todo : Due(s, r)
  BY <1>1 DEF SweepInv, DueRuns, Submitting
<1>11. CallStep(s, c)
  BY <1>1, <1>2, <1>3, <1>5, <1>6, <1>7, <1>8, <1>9, <1>10 DEF CallStep, Due
<1> QED BY <1>6, <1>11, CallStepKeeps

LEMMA EditedKeeps == ASSUME Separate, SweepInv, edited PROVE SweepInv'
<1>1. PICK s \in Shells : shell[s].at = "build"
  BY DEF edited
<1>2. UNCHANGED <<rundir, manifest, lock, shell, queue>> /\ repo' = repo + 1
  BY DEF edited
<1>3. ~Recording(s) /\ ~Submitting(s) /\ Deciding(s)
  BY <1>1 DEF Recording, Submitting, Deciding
<1>4. shell' = [shell EXCEPT ![s] = shell[s]] /\ (Recording(s)' <=> Recording(s))
      /\ (Submitting(s)' <=> Submitting(s)) /\ CallOK(s)'
  BY <1>2 DEF SweepInv, SweepTypeOK, Recording, Submitting, CallOK, Deciding
<1>5. /\ repo' \in Nat \ {0} /\ rundir' \in [Runs -> RunDirs]
      /\ \A r \in Runs : /\ Described(r) => rundir'[r] = rundir[r]
                         /\ Described(r)' => rundir'[r].snap = rundir'[r].params
  BY <1>2 DEF SweepInv, SweepTypeOK, Snapped, Described
<1>6. \A r \in Matrix[s] : shell[s].last[r] = manifest[r] /\ (r \notin shell[s].busy => Quiet(r))
  BY <1>3 DEF SweepInv, Known
<1>8. \A r \in Matrix[s] \ shell[s].rest : Described(r)'
  BY <1>2, <1>3 DEF SweepInv, Halfway, Described
<1>7. CallStep(s, shell[s])
  BY <1>1, <1>2, <1>3, <1>4, <1>5, <1>6, <1>8 DEF CallStep
<1> QED BY <1>4, <1>7, CallStepKeeps

LEMMA AppearsKeeps == ASSUME Separate, SweepInv, NEW r \in Runs, appears(r) PROVE SweepInv'
<1>1. ~rundir[r].shown /\ UNCHANGED <<repo, manifest, lock, shell, queue>> /\ Jobs' = Jobs
  BY DEF appears, Jobs
<1>2. /\ rundir' \in [Runs -> RunDirs]
      /\ \A q \in Runs : /\ rundir'[q].snap = rundir[q].snap /\ rundir'[q].params = rundir[q].params
                         /\ rundir'[q].result = rundir[q].result
                         /\ rundir[q].shown => rundir'[q].shown
                         /\ q # r => rundir'[q] = rundir[q]
  <2> DEFINE d == [rundir[r] EXCEPT !.shown = TRUE]
  <2>1. rundir \in [Runs -> RunDirs] /\ rundir[r] \in RunDirs
    BY DEF SweepInv, SweepTypeOK
  <2>2. /\ d \in RunDirs /\ d.snap = rundir[r].snap /\ d.params = rundir[r].params
        /\ d.result = rundir[r].result /\ d.shown = TRUE
    BY <2>1 DEF RunDirs
  <2>3. rundir' = [rundir EXCEPT ![r] = d]
    BY <2>1 DEF appears
  <2> HIDE DEF d
  <2> QED BY <2>1, <2>2, <2>3
<1>3. rundir'[r].shown
  BY DEF appears, SweepInv, SweepTypeOK
<1>4. \A k, q : (LastTask(k, q)' <=> LastTask(k, q)) /\ (Quiet(q)' <=> Quiet(q))
  BY <1>1 DEF LastTask, Quiet
<1>5. \A s \in Shells : /\ Matrix[s] \subseteq Runs /\ (CallOK(s)' <=> CallOK(s))
                        /\ Recording(s)' <=> Recording(s)
                        /\ Submitting(s)' <=> Submitting(s)
                        /\ Deciding(s)' <=> Deciding(s)
  BY <1>1 DEF Recording, Submitting, Deciding, CallOK, Separate
<1>6. SweepTypeOK'
  BY <1>1, <1>2, <1>5 DEF SweepInv, SweepTypeOK
<1>7. Snapped'
  <2>1. \A q \in Runs : Described(q)' <=> Described(q)
    BY <1>2 DEF Described
  <2>2. \A j \in Jobs : queue[j].run \in Runs
    BY TasksOfRuns DEF SweepInv
  <2> QED BY <1>1, <1>2, <1>5, <2>1, <2>2 DEF SweepInv, Snapped
<1>13. Halfway'
  <2>1. \A q \in Runs : Described(q)' <=> Described(q)
    BY <1>2 DEF Described
  <2> QED BY <1>1, <1>5, <2>1 DEF SweepInv, Halfway
<1>8. ResultsTrue' /\ OnlyLast' /\ DataFresh'
  BY <1>1, <1>2, <1>4 DEF SweepInv, ResultsTrue, OnlyLast, DataFresh
<1>9. RowsKept' /\ IdsLast'
  BY <1>1, <1>4, <1>5 DEF SweepInv, RowsKept, IdsLast
<1>10. Known'
  BY <1>1, <1>4, <1>5 DEF SweepInv, Known
<1>11. DueRuns'
  <2>1. ASSUME NEW s \in Shells, Submitting(s) PROVE shell[s].todo \subseteq Runs
    <3>1. shell[s].todo \subseteq Matrix[s]
      BY <2>1 DEF SweepInv, SweepTypeOK, CallOK, Submitting
    <3> QED BY <3>1, <1>5
  <2> QED BY <1>1, <1>2, <1>4, <1>5, <2>1 DEF SweepInv, DueRuns, Due
<1>12. HiddenRecent'
  BY <1>1, <1>2, <1>3, <1>4 DEF SweepInv, HiddenRecent
<1> QED BY <1>6, <1>7, <1>8, <1>9, <1>10, <1>11, <1>12, <1>13 DEF SweepInv

(* The records of an array replace the manifest.                           *)
LEMMA ReplaceKeeps == ASSUME Separate, SweepInv, NEW s \in Shells, Append_replace(s) PROVE SweepInv'
<1> DEFINE c == shell[s]
           next == IF c.todo = {} THEN Away ELSE [at |-> "sbatch", flag |-> c.flag, todo |-> c.todo]
<1>1. /\ c.at = "replace" /\ Recording(s) /\ Submitting(s) /\ lock' = "free" /\ UNCHANGED <<repo, rundir, queue>>
      /\ Jobs' = Jobs
  BY DEF Append_replace, Recording, Submitting, Jobs
<1>2. shell' = [shell EXCEPT ![s] = next]
  BY DEF Append_replace
<1>3. lock = s /\ c.data = manifest
  BY <1>1 DEF SweepInv, DataFresh
<1>4. /\ c.flag \in Flags /\ c.todo \subseteq Matrix[s] /\ DOMAIN c.ids \subseteq Matrix[s]
      /\ c.ids \in [DOMAIN c.ids -> Nat]
  BY <1>1 DEF SweepInv, SweepTypeOK, CallOK
<1>5. /\ manifest' \in [Runs -> Nat]
      /\ \A r \in Runs : manifest'[r] = IF r \in DOMAIN c.ids THEN c.ids[r] ELSE manifest[r]
  <2>1. manifest' = [r \in Runs |-> IF r \in DOMAIN c.ids THEN c.ids[r] ELSE manifest[r]]
    BY <1>3 DEF Append_replace
  <2> HIDE DEF c
  <2> QED BY <2>1, <1>4 DEF SweepInv, SweepTypeOK
<1>6. /\ next.at \in {"away", "sbatch"}
      /\ next.at = "sbatch" => /\ next.todo = c.todo /\ next.flag = c.flag
                               /\ next \in [at : {"sbatch"}, flag : Flags, todo : SUBSET Matrix[s]]
  BY <1>4 DEF Away
<1> HIDE DEF next
<1>7. shell'[s] = next /\ (\A t \in Shells : t # s => shell'[t] = shell[t]) /\ shell' = [t \in Shells |-> shell'[t]]
  BY <1>2 DEF SweepInv, SweepTypeOK
<1>8. \A k, q : (LastTask(k, q)' <=> LastTask(k, q)) /\ (Quiet(q)' <=> Quiet(q))
  BY <1>1 DEF LastTask, Quiet
<1>9. ~Recording(s)' /\ ~Deciding(s)' /\ CallOK(s)' /\ (Submitting(s)' <=> next.at = "sbatch")
      /\ shell'[s].at \notin {"build", "replace"}
  BY <1>6, <1>7 DEF Recording, Deciding, Submitting, CallOK
<1>10. \A t \in Shells : t # s => /\ CallOK(t)' <=> CallOK(t)
                                  /\ Recording(t)' <=> Recording(t)
                                  /\ Submitting(t)' <=> Submitting(t)
                                  /\ Deciding(t)' <=> Deciding(t)
  BY <1>7 DEF Recording, Submitting, Deciding, CallOK
<1>11. SweepTypeOK'
  <2>1. \A t \in Shells : CallOK(t)'
    BY <1>9, <1>10 DEF SweepInv, SweepTypeOK
  <2> QED BY <2>1, <1>1, <1>5, <1>7 DEF SweepInv, SweepTypeOK
<1>12. Snapped'
  <2>1. \A q : Described(q)' <=> Described(q)
    BY <1>1 DEF Described
  <2>2. ASSUME NEW t \in Shells, Submitting(t)' PROVE \A r \in Matrix[t] : Described(r)
    <3>1. CASE t = s
      BY <3>1, <1>1 DEF SweepInv, Snapped
    <3>2. CASE t # s
      BY <2>2, <3>2, <1>7, <1>10 DEF SweepInv, Snapped
    <3> QED BY <3>1, <3>2
  <2> QED BY <2>1, <2>2, <1>1 DEF SweepInv, Snapped
<1>20. Halfway'
  BY <1>1, <1>7, <1>9, <1>10 DEF SweepInv, Halfway, Described
<1>13. ResultsTrue' /\ OnlyLast'
  BY <1>1, <1>8 DEF SweepInv, ResultsTrue, OnlyLast
<1>14. RowsKept'
  <2> SUFFICES ASSUME NEW r \in Runs, NEW j \in Jobs, LastTask(j, r)
               PROVE  manifest'[r] = j \/ \E t \in Shells : Recording(t)' /\ r \in DOMAIN shell'[t].ids
    BY <1>1, <1>8 DEF RowsKept
  <2>1. CASE r \in DOMAIN c.ids
    <3>1. c.ids[r] \in Jobs /\ LastTask(c.ids[r], r)
      BY <1>1, <2>1 DEF SweepInv, IdsLast
    <3>2. j \in Nat /\ c.ids[r] \in Nat
      BY JobFacts, <3>1
    <3>3. c.ids[r] = j
      <4>1. queue[j].run = r /\ queue[c.ids[r]].run = r
        BY <3>1 DEF LastTask
      <4>2. j <= c.ids[r] /\ c.ids[r] <= j
        BY <3>1, <4>1 DEF LastTask
      <4> QED BY <4>2, <3>2
    <3> QED BY <2>1, <3>3, <1>5
  <2>2. CASE r \notin DOMAIN c.ids
    <3>1. CASE manifest[r] = j
      BY <2>2, <3>1, <1>5
    <3>2. CASE \E t \in Shells : Recording(t) /\ r \in DOMAIN shell[t].ids
      BY <2>2, <3>2, <1>7, <1>10
    <3> QED BY <3>1, <3>2 DEF SweepInv, RowsKept
  <2> QED BY <2>1, <2>2
<1>15. IdsLast'
  BY <1>1, <1>7, <1>8, <1>9, <1>10 DEF SweepInv, IdsLast
<1>16. DataFresh'
  BY <1>3, <1>7, <1>9 DEF SweepInv, DataFresh
<1>17. Known'
  <2>1. ASSUME NEW t \in Shells, Deciding(t)', NEW r \in Matrix[t]
        PROVE  shell'[t].last[r] = manifest'[r] /\ (r \notin shell'[t].busy => Quiet(r)')
    <3>1. t # s /\ Deciding(t) /\ shell'[t] = shell[t]
      BY <2>1, <1>7, <1>9, <1>10
    <3>2. r \in Runs /\ r \notin DOMAIN c.ids
      BY <3>1, <1>4 DEF Separate
    <3>3. manifest'[r] = manifest[r]
      BY <3>2, <1>5
    <3> QED BY <3>1, <3>3, <1>8 DEF SweepInv, Known
  <2> QED BY <2>1 DEF Known
<1>18. DueRuns'
  <2>1. ASSUME NEW t \in Shells, Submitting(t)', NEW r \in shell'[t].todo PROVE Due(t, r)'
    <3>1. CASE t = s
      <4>1. shell'[s] = next /\ next.todo = c.todo /\ next.flag = c.flag
        BY <2>1, <3>1, <1>6, <1>7, <1>9
      <4>2. Due(s, r)
        BY <2>1, <3>1, <4>1, <1>1 DEF SweepInv, DueRuns
      <4> QED BY <3>1, <4>1, <4>2, <1>1, <1>8 DEF Due
    <3>2. CASE t # s
      BY <2>1, <3>2, <1>1, <1>7, <1>8, <1>10 DEF SweepInv, DueRuns, Due
    <3> QED BY <3>1, <3>2
  <2> QED BY <2>1 DEF DueRuns
<1>19. HiddenRecent'
  BY <1>1, <1>8 DEF SweepInv, HiddenRecent
<1> QED BY <1>11, <1>12, <1>13, <1>14, <1>15, <1>16, <1>17, <1>18, <1>19, <1>20 DEF SweepInv

\* A concatenation by its places.
LEMMA Appended ==
  ASSUME NEW S, NEW a \in Seq(S), NEW b \in Seq(S), NEW q, q = a \o b
  PROVE  /\ q \in Seq(S) /\ Len(q) = Len(a) + Len(b) /\ DOMAIN q = 1 .. Len(a) + Len(b)
         /\ \A k \in 1 .. Len(a) : q[k] = a[k]
         /\ \A k \in Len(a) + 1 .. Len(a) + Len(b) : q[k] = b[k - Len(a)]
OBVIOUS

(* An array of tasks is appended to the queue, a task for each run.        *)
TasksOf(array, size) == [i \in 1 .. size |-> Task(array[i])]
IdsOf(array, size, group, n) == [r \in group |-> n + CHOOSE i \in 1 .. size : array[i] = r]
TaskEach(q, old, group, ids) ==
  /\ q \in Seq(Tasks) /\ DOMAIN old \subseteq DOMAIN q /\ \A k \in DOMAIN old : q[k] = old[k]
  /\ \A k \in DOMAIN q \ DOMAIN old : /\ q[k].run \in group /\ ids[q[k].run] = k
                                       /\ q[k].at = "queued" /\ \A m \in DOMAIN old : m < k
  /\ \A r \in group : ids[r] \in DOMAIN q \ DOMAIN old /\ q[ids[r]].run = r
  /\ ids \in [group -> Nat] /\ DOMAIN ids = group

LEMMA ArrayTasks ==
  ASSUME NEW group \in SUBSET Runs, NEW size \in Nat, NEW array \in Bijection(1 .. size, group),
         NEW old \in Seq(Tasks), NEW q, NEW ids,
         q = old \o TasksOf(array, size), ids = IdsOf(array, size, group, Len(old))
  PROVE  TaskEach(q, old, group, ids)
<1> DEFINE new == [i \in 1 .. size |-> Task(array[i])]
           Place(r) == CHOOSE i \in 1 .. size : array[i] = r
<1>2. /\ array \in [1 .. size -> group]
      /\ \A a, b \in 1 .. size : array[a] = array[b] => a = b
      /\ \A r \in group : \E i \in 1 .. size : array[i] = r
  BY DEF Bijection, Injection, Surjection, IsInjective
<1>3. \A r \in group : Place(r) \in 1 .. size /\ array[Place(r)] = r
  BY <1>2
<1>4. \A i \in 1 .. size : array[i] \in group /\ Place(array[i]) = i
  BY <1>2, <1>3
<1>5. \A r \in Runs : Task(r) \in Tasks /\ Task(r).run = r /\ Task(r).at = "queued"
  BY DEF Task, Tasks, ACTIVE, Nothing
<1>6. new \in Seq(Tasks) /\ Len(new) = size /\ \A i \in 1 .. size : new[i] = Task(array[i])
  <2>1. \A i \in 1 .. size : Task(array[i]) \in Tasks
    BY <1>4, <1>5
  <2> QED BY <2>1
<1>7. \A r \in group : ids[r] = Len(old) + Place(r)
  BY DEF IdsOf
<1>8. DOMAIN ids = group
  BY DEF IdsOf
<1> HIDE DEF new, Place
<1>9. PICK n \in Nat : n = Len(old) /\ DOMAIN old = 1 .. n
  OBVIOUS
<1>10. /\ q \in Seq(Tasks) /\ DOMAIN q = 1 .. n + size
       /\ \A k \in 1 .. n : q[k] = old[k]
       /\ \A k \in n + 1 .. n + size : q[k] = new[k - n]
  <2>1. q = old \o new
    BY DEF new, TasksOf
  <2>2. /\ q \in Seq(Tasks) /\ DOMAIN q = 1 .. Len(old) + Len(new)
        /\ \A k \in 1 .. Len(old) : q[k] = old[k]
        /\ \A k \in Len(old) + 1 .. Len(old) + Len(new) : q[k] = new[k - Len(old)]
    BY <1>6, <2>1, Appended
  <2> QED BY <2>2, <1>6, <1>9
<1>11. ASSUME NEW k \in DOMAIN q \ DOMAIN old
       PROVE  /\ q[k].run \in group /\ ids[q[k].run] = k
              /\ q[k].at = "queued" /\ \A m \in DOMAIN old : m < k
  <2>1. k \in n + 1 .. n + size /\ k - n \in 1 .. size
    BY <1>9, <1>10
  <2>2. q[k] = Task(array[k - n]) /\ array[k - n] \in group /\ Place(array[k - n]) = k - n
    BY <2>1, <1>4, <1>6, <1>10
  <2>3. q[k].run = array[k - n] /\ q[k].at = "queued"
    BY <2>2, <1>5
  <2>4. ids[array[k - n]] = n + (k - n)
    BY <2>2, <1>7, <1>9
  <2>5. \A m \in DOMAIN old : m < k
    BY <2>1, <1>9
  <2>6. n + (k - n) = k
    BY <2>1
  <2> QED BY <2>2, <2>3, <2>4, <2>5, <2>6
<1>12. ASSUME NEW r \in group PROVE ids[r] \in DOMAIN q \ DOMAIN old /\ q[ids[r]].run = r /\ ids[r] \in Nat
  <2>1. PICK k : k = ids[r]
    OBVIOUS
  <2>2. k = n + Place(r) /\ Place(r) \in 1 .. size /\ array[Place(r)] = r
    BY <2>1, <1>3, <1>7, <1>9
  <2>3. k \in n + 1 .. n + size /\ k - n = Place(r)
    BY <2>2
  <2>4. q[k] = Task(r)
    BY <2>2, <2>3, <1>6, <1>10
  <2>5. q[k].run = r
    BY <2>4, <1>5
  <2>6. k \in DOMAIN q \ DOMAIN old /\ k \in Nat
    BY <2>3, <1>9, <1>10
  <2> QED BY <2>1, <2>5, <2>6
<1>13. ids \in [group -> Nat]
  BY <1>8, <1>12 DEF IdsOf
<1>14. DOMAIN old \subseteq DOMAIN q /\ \A k \in DOMAIN old : q[k] = old[k]
  BY <1>9, <1>10
<1> QED BY <1>8, <1>10, <1>11, <1>12, <1>13, <1>14 DEF TaskEach

LEMMA SbatchKeeps == ASSUME Separate, SweepInv, NEW s \in Shells, sbatch_array(s) PROVE SweepInv'
<1> DEFINE c == shell[s]
<1>1. /\ c.at = "sbatch" /\ Submitting(s) /\ ~Recording(s) /\ UNCHANGED <<repo, rundir, manifest, lock>>
      /\ c.flag \in Flags /\ c.todo \subseteq Matrix[s] /\ Matrix[s] \subseteq Runs /\ IsFiniteSet(Matrix[s])
  BY DEF sbatch_array, Submitting, Recording, SweepInv, SweepTypeOK, CallOK, Separate
<1>2. PICK group \in SUBSET c.todo :
        \E array \in Bijection(1 .. Cardinality(group), group) :
          /\ queue' = queue \o [i \in 1 .. Cardinality(group) |-> Task(array[i])]
          /\ shell' = [shell EXCEPT ![s] =
                [at |-> "append", flag |-> c.flag, todo |-> c.todo \ group,
                 ids |-> [r \in group |-> Len(queue) + CHOOSE i \in 1 .. Cardinality(group) : array[i] = r]]]
  BY DEF sbatch_array
<1>3. PICK array \in Bijection(1 .. Cardinality(group), group) :
          /\ queue' = queue \o [i \in 1 .. Cardinality(group) |-> Task(array[i])]
          /\ shell' = [shell EXCEPT ![s] =
                [at |-> "append", flag |-> c.flag, todo |-> c.todo \ group,
                 ids |-> [r \in group |-> Len(queue) + CHOOSE i \in 1 .. Cardinality(group) : array[i] = r]]]
  BY <1>2
<1> DEFINE ids == [r \in group |-> Len(queue) + CHOOSE i \in 1 .. Cardinality(group) : array[i] = r]
           next == [at |-> "append", flag |-> c.flag, todo |-> c.todo \ group, ids |-> ids]
<1>4. group \in SUBSET Runs /\ IsFiniteSet(group) /\ group \subseteq Matrix[s]
  BY <1>1, FS_Subset
<1>5. /\ queue' \in Seq(Tasks) /\ Jobs \subseteq Jobs' /\ \A k \in Jobs : queue'[k] = queue[k]
      /\ \A k \in Jobs' \ Jobs : /\ queue'[k].run \in group /\ ids[queue'[k].run] = k
                                 /\ queue'[k].at = "queued" /\ \A m \in Jobs : m < k
      /\ \A r \in group : ids[r] \in Jobs' \ Jobs /\ queue'[ids[r]].run = r
      /\ ids \in [group -> Nat] /\ DOMAIN ids = group
  <2>1. PICK q : q = queue'
    OBVIOUS
  <2>2. PICK old \in Seq(Tasks) : old = queue
    BY DEF SweepInv, SweepTypeOK
  <2>3. PICK size \in Nat : size = Cardinality(group)
    BY <1>4, FS_CardinalityType
  <2>4. PICK x : x = ids
    OBVIOUS
  <2>5. array \in Bijection(1 .. size, group) /\ q = old \o TasksOf(array, size)
    BY <1>3, <2>1, <2>2, <2>3 DEF TasksOf
  <2>6. x = IdsOf(array, size, group, Len(old))
    BY <2>2, <2>3, <2>4 DEF IdsOf
  <2> HIDE DEF ids
  <2>7. TaskEach(q, old, group, x)
    <3>1. group \in SUBSET Runs
      BY <1>4
    <3> QED BY <3>1, <2>5, <2>6, ArrayTasks
  <2> QED BY <2>1, <2>2, <2>4, <2>7 DEF Jobs, TaskEach
<1>6. shell' = [shell EXCEPT ![s] = next]
  BY <1>3
<1> HIDE DEF ids
<1>7. /\ next.at = "append" /\ next.flag = c.flag /\ next.todo = c.todo \ group /\ next.ids = ids
      /\ next = [at |-> "append", flag |-> next.flag, todo |-> next.todo, ids |-> next.ids]
  OBVIOUS
<1> HIDE DEF next
<1>8. shell'[s] = next /\ (\A t \in Shells : t # s => shell'[t] = shell[t]) /\ shell' = [t \in Shells |-> shell'[t]]
  BY <1>6 DEF SweepInv, SweepTypeOK
<1>9. Recording(s)' /\ Submitting(s)' /\ ~Deciding(s)' /\ CallOK(s)'
  BY <1>1, <1>4, <1>5, <1>7, <1>8 DEF Recording, Deciding, Submitting, CallOK
<1>10. \A t \in Shells : t # s => /\ CallOK(t)' <=> CallOK(t)
                                  /\ Recording(t)' <=> Recording(t)
                                  /\ Submitting(t)' <=> Submitting(t)
                                  /\ Deciding(t)' <=> Deciding(t)
  BY <1>8 DEF Recording, Submitting, Deciding, CallOK
<1>11. \A r \in group : /\ Quiet(r)
                        /\ rundir[r].shown
  BY <1>1 DEF SweepInv, DueRuns, Due
<1>12. ASSUME NEW k \in Jobs', NEW r, queue'[k].run = r, r \notin group PROVE k \in Jobs
  BY <1>5, <1>12
<1>13. \A k \in Jobs' : \A r : r \notin group => (LastTask(k, r)' <=> k \in Jobs /\ LastTask(k, r))
  <2>1. ASSUME NEW k \in Jobs', NEW r, r \notin group, LastTask(k, r)' PROVE k \in Jobs /\ LastTask(k, r)
    <3>1. k \in Jobs
      BY <2>1, <1>12 DEF LastTask
    <3> QED BY <2>1, <3>1, <1>5 DEF LastTask
  <2>2. ASSUME NEW k \in Jobs, NEW r, r \notin group, LastTask(k, r) PROVE LastTask(k, r)'
    <3>1. queue'[k].run = r
      BY <2>2, <1>5 DEF LastTask
    <3>2. ASSUME NEW m \in Jobs', queue'[m].run = r PROVE m <= k
      <4>1. m \in Jobs
        BY <2>2, <3>2, <1>12
      <4> QED BY <4>1, <3>2, <2>2, <1>5 DEF LastTask
    <3> QED BY <3>1, <3>2 DEF LastTask
  <2> QED BY <2>1, <2>2
<1>14. \A r \in group : \A k \in Jobs' : LastTask(k, r)' <=> k = ids[r]
  <2> SUFFICES ASSUME NEW r \in group, NEW k \in Jobs' PROVE LastTask(k, r)' <=> k = ids[r]
    OBVIOUS
  <2>0. Jobs' \subseteq Nat
    BY <1>5 DEF Jobs
  <2>1. ids[r] \in Jobs' \ Jobs /\ queue'[ids[r]].run = r
    BY <1>5
  <2>2. ASSUME NEW m \in Jobs', queue'[m].run = r PROVE m <= ids[r]
    <3>1. CASE m \in Jobs
      BY <3>1, <2>0, <2>1, <1>5
    <3>2. CASE m \notin Jobs
      BY <3>2, <2>2, <2>0, <1>5
    <3> QED BY <3>1, <3>2
  <2>3. k = ids[r] => LastTask(k, r)'
    BY <2>1, <2>2 DEF LastTask
  <2>4. LastTask(k, r)' => k = ids[r]
    <3>1. LastTask(k, r)' => ids[r] <= k /\ k <= ids[r]
      BY <2>1, <2>2 DEF LastTask
    <3>2. ids[r] \in Nat /\ k \in Nat
      BY <2>0, <2>1
    <3> QED BY <3>1, <3>2
  <2> QED BY <2>3, <2>4
<1>15. \A r : r \notin group => (Quiet(r) => Quiet(r)')
  BY <1>5, <1>12 DEF Quiet
<1>16. SweepTypeOK'
  <2>1. \A t \in Shells : CallOK(t)'
    BY <1>9, <1>10 DEF SweepInv, SweepTypeOK
  <2> QED BY <2>1, <1>1, <1>5, <1>8 DEF SweepInv, SweepTypeOK
<1>26. Halfway'
  BY <1>1, <1>8, <1>9, <1>10 DEF SweepInv, Halfway, Described
<1>17. Snapped'
  <2>1. \A q : Described(q)' <=> Described(q)
    BY <1>1 DEF Described
  <2>2. \A r \in Matrix[s] : Described(r)
    BY <1>1 DEF SweepInv, Snapped
  <2>3. ASSUME NEW t \in Shells, Submitting(t)' PROVE \A r \in Matrix[t] : Described(r)
    <3>1. CASE t = s
      BY <3>1, <2>2
    <3>2. CASE t # s
      BY <2>3, <3>2, <1>8, <1>10 DEF SweepInv, Snapped
    <3> QED BY <3>1, <3>2
  <2>4. ASSUME NEW k \in Jobs'
        PROVE  /\ Described(queue'[k].run)
               /\ queue'[k].at = "flow" => queue'[k].staged = rundir[queue'[k].run].params
    <3>1. CASE k \in Jobs
      BY <3>1, <1>5 DEF SweepInv, Snapped
    <3>2. CASE k \notin Jobs
      BY <3>2, <2>2, <1>4, <1>5
    <3> QED BY <3>1, <3>2
  <2>5. \A r \in Runs : Described(r) => rundir[r].snap = rundir[r].params
    BY DEF SweepInv, Snapped
  <2> QED BY <2>1, <2>3, <2>4, <2>5, <1>1 DEF Snapped
<1>18. ResultsTrue'
  BY <1>1, <1>5 DEF SweepInv, ResultsTrue
<1>19. OnlyLast'
  <2> SUFFICES ASSUME NEW k \in Jobs', queue'[k].state # "ENDED" PROVE LastTask(k, queue[k].run)'
    BY DEF OnlyLast
  <2>1. CASE k \in Jobs
    <3>1. queue'[k] = queue[k] /\ LastTask(k, queue[k].run)
      BY <2>1, <1>5 DEF SweepInv, OnlyLast
    <3>2. queue[k].run \notin group
      BY <2>1, <3>1, <1>11 DEF Quiet
    <3>3. PICK r : r = queue[k].run
      OBVIOUS
    <3>4. LastTask(k, r)' /\ queue'[k].run = r
      BY <2>1, <3>1, <3>2, <3>3, <1>13
    <3> QED BY <3>4 DEF LastTask
  <2>2. CASE k \notin Jobs
    <3>1. PICK r : r = queue'[k].run
      OBVIOUS
    <3>2. r \in group /\ ids[r] = k
      BY <2>2, <3>1, <1>5
    <3>3. LastTask(k, r)'
      BY <3>2, <1>14
    <3> QED BY <3>1, <3>3 DEF LastTask
  <2> QED BY <2>1, <2>2
<1>20. RowsKept'
  <2> SUFFICES ASSUME NEW r \in Runs, NEW j \in Jobs', LastTask(j, r)'
               PROVE  manifest'[r] = j \/ \E t \in Shells : Recording(t)' /\ r \in DOMAIN shell'[t].ids
    BY DEF RowsKept
  <2>1. CASE r \in group
    BY <2>1, <1>5, <1>7, <1>8, <1>9
  <2>2. CASE r \notin group
    <3>1. j \in Jobs /\ LastTask(j, r)
      BY <2>2, <1>13
    <3>2. CASE manifest[r] = j
      BY <3>2, <1>1
    <3>3. CASE \E t \in Shells : Recording(t) /\ r \in DOMAIN shell[t].ids
      BY <3>3, <1>1, <1>8, <1>10
    <3> QED BY <3>1, <3>2, <3>3 DEF SweepInv, RowsKept
  <2> QED BY <2>1, <2>2
<1>21. IdsLast'
  <2> SUFFICES ASSUME NEW t \in Shells, Recording(t)', NEW r \in DOMAIN shell'[t].ids
               PROVE  (shell[t].ids[r] \in Jobs /\ LastTask(shell[t].ids[r], r))'
    BY DEF IdsLast
  <2>1. CASE t = s
    <3>1. PICK k : k = ids[r]
      OBVIOUS
    <3>2. r \in group /\ k \in Jobs' /\ LastTask(k, r)' /\ shell'[t].ids[r] = k
      BY <2>1, <3>1, <1>5, <1>7, <1>8, <1>14
    <3> QED BY <3>2 DEF LastTask
  <2>2. CASE t # s
    <3>1. Recording(t) /\ shell'[t] = shell[t] /\ r \in DOMAIN shell[t].ids
      BY <2>2, <1>8, <1>10
    <3>2. PICK k : k = shell[t].ids[r]
      OBVIOUS
    <3>3. k \in Jobs /\ LastTask(k, r)
      BY <3>1, <3>2 DEF SweepInv, IdsLast
    <3>4. r \in Matrix[t]
      BY <3>1 DEF SweepInv, SweepTypeOK, CallOK
    <3>5. r \notin group
      BY <2>2, <3>4, <1>4 DEF Separate
    <3>6. k \in Jobs' /\ LastTask(k, r)'
      BY <3>3, <3>5, <1>5, <1>13
    <3> QED BY <3>1, <3>2, <3>6 DEF LastTask
  <2> QED BY <2>1, <2>2
<1>22. DataFresh'
  <2>1. shell'[s].at # "replace"
    BY <1>7, <1>8
  <2> QED BY <2>1, <1>1, <1>8 DEF SweepInv, DataFresh
<1>23. Known'
  <2>1. ASSUME NEW t \in Shells, Deciding(t)', NEW r \in Matrix[t]
        PROVE  shell'[t].last[r] = manifest'[r] /\ (r \notin shell'[t].busy => Quiet(r)')
    <3>1. t # s /\ Deciding(t) /\ shell'[t] = shell[t]
      BY <2>1, <1>8, <1>9, <1>10
    <3>2. r \notin group
      BY <3>1, <1>4 DEF Separate
    <3> QED BY <3>1, <3>2, <1>1, <1>15 DEF SweepInv, Known
  <2> QED BY <2>1 DEF Known
<1>24. DueRuns'
  <2>1. ASSUME NEW t \in Shells, Submitting(t)', NEW r \in shell'[t].todo PROVE Due(t, r)'
    <3>1. CASE t = s
      <4>1. r \in c.todo /\ r \notin group /\ shell'[s].flag = c.flag
        BY <2>1, <3>1, <1>7, <1>8
      <4>2. Due(s, r)
        BY <4>1, <1>1 DEF SweepInv, DueRuns
      <4> QED BY <3>1, <4>1, <4>2, <1>1, <1>15 DEF Due
    <3>2. CASE t # s
      <4>1. Submitting(t) /\ shell'[t] = shell[t]
        BY <2>1, <3>2, <1>8, <1>10
      <4>2. shell[t].todo \subseteq Matrix[t]
        BY <4>1 DEF SweepInv, SweepTypeOK, CallOK, Submitting
      <4>3. r \notin group
        BY <2>1, <3>2, <4>1, <4>2, <1>4 DEF Separate
      <4>4. Due(t, r)
        BY <2>1, <4>1 DEF SweepInv, DueRuns
      <4> QED BY <4>1, <4>3, <4>4, <1>1, <1>15 DEF Due
    <3> QED BY <3>1, <3>2
  <2> QED BY <2>1 DEF DueRuns
<1>25. HiddenRecent'
  <2> SUFFICES ASSUME NEW r \in Runs, ~rundir'[r].shown
               PROVE  \E k \in Jobs' : LastTask(k, r)' /\ (queue'[k].state # "ENDED" \/ queue'[k].recent)
    BY DEF HiddenRecent
  <2>1. r \notin group
    BY <1>1, <1>11
  <2>2. PICK k \in Jobs : LastTask(k, r) /\ (queue[k].state # "ENDED" \/ queue[k].recent)
    BY <1>1 DEF SweepInv, HiddenRecent
  <2> QED BY <2>1, <2>2, <1>5, <1>13
<1> QED BY <1>16, <1>17, <1>18, <1>19, <1>20, <1>21, <1>22, <1>23, <1>24, <1>25, <1>26 DEF SweepInv

-----------------------------------------------------------------------------
LEMMA SweepStep == ASSUME Separate, SweepInv, [SweepNext]_sweepVars PROVE SweepInv'
<1>1. CASE \E s \in Shells : \/ submit(s) \/ build(s) \/ decide(s) \/ sbatch_array(s)
                             \/ Append_read(s) \/ Append_replace(s) \/ interrupted(s)
  BY <1>1, SubmitKeeps, BuildKeeps, DecideKeeps, SbatchKeeps, ReadKeeps, ReplaceKeeps, InterruptedKeeps
<1>2. CASE \E j \in Jobs : stage(j) \/ extract(j) \/ ends(j) \/ preempted(j) \/ dies(j) \/ ages(j)
  BY <1>2, StageKeeps, ExtractKeeps, EndKeeps, PreemptedKeeps, AgesKeeps
<1>3. CASE \E r \in Runs : appears(r)
  BY <1>3, AppearsKeeps
<1>4. CASE edited
  BY <1>4, EditedKeeps
<1>5. CASE UNCHANGED sweepVars
  <2>1. /\ repo' = repo /\ rundir' = rundir /\ manifest' = manifest /\ lock' = lock /\ shell' = shell
        /\ queue' = queue
    BY <1>5 DEF sweepVars
  <2> QED BY <2>1 DEF SweepInv, SweepTypeOK, CallOK, Deciding, Recording, Submitting, Decisions, Snapped, Halfway,
        Described, Jobs,
        ResultsTrue, OnlyLast, RowsKept, IdsLast, DataFresh, Known, DueRuns, Due, HiddenRecent, LastTask, Quiet
<1> QED BY <1>1, <1>2, <1>3, <1>4, <1>5 DEF SweepNext

(* The inductive invariant: of a run only the last job may be under way,   *)
(* it is the run's record or about to be, and what a call found of its     *)
(* runs stays true until it has submitted them.                            *)
THEOREM SweepCorrect == ASSUME Separate PROVE SweepSpec => []SweepInv
<1>1. SweepInit => SweepInv
  BY SweepInitially
<1>2. SweepInv /\ [SweepNext]_sweepVars => SweepInv'
  BY SweepStep
<1> QED BY <1>1, <1>2, PTL DEF SweepSpec

LEMMA InvGivesOnce == ASSUME Separate, SweepInv PROVE RunsOnce
<1>1. ASSUME NEW r \in Runs PROVE Cardinality(JobsOf(r)) <= 1
  <2>1. \A j, k \in JobsOf(r) : j = k
    <3> SUFFICES ASSUME NEW j \in JobsOf(r), NEW k \in JobsOf(r) PROVE j = k
      OBVIOUS
    <3>1. j \in Jobs /\ k \in Jobs /\ queue[j].run = r /\ queue[k].run = r
          /\ queue[j].state # "ENDED" /\ queue[k].state # "ENDED"
      BY DEF JobsOf, ACTIVE
    <3>2. LastTask(j, r) /\ LastTask(k, r)
      BY <3>1 DEF SweepInv, OnlyLast
    <3>3. j \in Nat /\ k \in Nat
      BY <3>1, JobFacts
    <3> QED BY <3>1, <3>2, <3>3 DEF LastTask
  <2>2. CASE JobsOf(r) = {}
    BY <2>2, FS_EmptySet
  <2>3. CASE JobsOf(r) # {}
    <3>1. PICK j : j \in JobsOf(r)
      BY <2>3
    <3>2. JobsOf(r) = {j}
      BY <2>1, <3>1
    <3> QED BY <3>2, FS_Singleton
  <2> QED BY <2>2, <2>3
<1>2. ASSUME NEW s \in Shells, shell[s].at = "sbatch", NEW r \in shell[s].todo
      PROVE  JobsOf(r) = {} /\ (shell[s].flag # "rerun_complete" => rundir[r].result.status \notin DONE)
  <2>1. Due(s, r)
    BY <1>2 DEF SweepInv, DueRuns, Submitting
  <2> QED BY <2>1 DEF Due, Quiet, JobsOf, ACTIVE
<1>3. ASSUME NEW r \in Runs, collect(r).status \in DONE
      PROVE  collect(r).ran = collect(r).says /\ JobsOf(r) \subseteq {collect(r).job} \cup Unrecorded
  <2> DEFINE res == rundir[r].result
  <2>1. NoResult.status \notin DONE
    BY DEF NoResult, DONE
  <2>2. Visible(r) = res /\ collect(r) = res /\ res.status \in DONE
    BY <1>3, <2>1 DEF collect, Visible
  <2>3. res.job \in {0, manifest[r]} \/ manifest[r] \notin squeue_states
    BY <1>3, <2>1, <2>2 DEF collect
  <2>4. res.ran = res.says /\ res.job \in Jobs
    BY <2>2 DEF SweepInv, ResultsTrue, DONE
  <2>5. res.job # 0
    BY <2>4 DEF Jobs, SweepInv, SweepTypeOK
  <2>6. ASSUME NEW j \in JobsOf(r) PROVE j \in {res.job} \cup Unrecorded
    <3>1. j \in Jobs /\ queue[j].run = r /\ queue[j].state \in ACTIVE /\ queue[j].state # "ENDED"
      BY DEF JobsOf, ACTIVE
    <3>2. LastTask(j, r)
      BY <3>1 DEF SweepInv, OnlyLast
    <3>3. CASE manifest[r] = j
      BY <3>1, <3>3, <2>3, <2>5 DEF squeue_states
    <3>4. CASE \E t \in Shells : Recording(t) /\ r \in DOMAIN shell[t].ids
      <4>1. PICK t \in Shells : Recording(t) /\ r \in DOMAIN shell[t].ids
        BY <3>4
      <4>2. shell[t].ids[r] \in Jobs /\ LastTask(shell[t].ids[r], r)
        BY <4>1 DEF SweepInv, IdsLast
      <4>3. shell[t].ids[r] \in Nat /\ j \in Nat
        BY <3>1, <4>2, JobFacts
      <4>4. queue[shell[t].ids[r]].run = r
        BY <4>2 DEF LastTask
      <4>5. shell[t].ids[r] <= j /\ j <= shell[t].ids[r]
        BY <3>1, <3>2, <4>2, <4>4 DEF LastTask
      <4>6. shell[t].ids[r] = j
        BY <4>3, <4>5
      <4>7. j \in Range(shell[t].ids)
        BY <4>1, <4>6 DEF Range
      <4> QED BY <4>1, <4>7 DEF Unrecorded, Recording
    <3> QED BY <3>2, <3>1, <3>3, <3>4 DEF SweepInv, RowsKept
  <2> QED BY <2>2, <2>4, <2>6
<1> QED BY <1>1, <1>2, <1>3 DEF RunsOnce

(* A run has at most one job that waits or runs, no call is about to       *)
(* submit a run that is under way or, unasked, one that is complete, and a *)
(* row that says complete comes from an attempt that ran the snapshot it   *)
(* describes (submit.py 27-31, run_state, collect.py).                     *)
THEOREM RunsHaveOneJob == ASSUME Separate PROVE SweepSpec => []RunsOnce
<1>1. SweepInv => RunsOnce
  BY InvGivesOnce
<1> QED BY <1>1, SweepCorrect, PTL
=============================================================================

------------------------------ MODULE Certify ------------------------------
(***************************************************************************)
(* Timing certificates of a firmware image (tools/timing/cert): a campaign *)
(* proves every segment of the image's static timing analysis with a model *)
(* checker on a cluster, ledger.py records what was proved and for which   *)
(* files, and ledger.py check decides later, from digests only, whether    *)
(* the image of the day is certified.                                      *)
(*                                                                         *)
(* The image has a short segment n0, proved whole, and a long one n1,      *)
(* proved by the chain of its chunks n1c0 and n1c1; one negative control   *)
(* that must fail; and the evidence of the campaign as a whole: the lemmas *)
(* the composition rests on, and the equivalence of the proved netlist     *)
(* with src/, whose own negative control is folded into it.                *)
(***************************************************************************)
EXTENDS Naturals, Sequences

CONSTANTS
  Refused,       \* <<image, generator>> gen_cert cannot write certificates for
  TooDeep,       \* <<image, generator>> whose proofs exceed the CI budget
  MaxRevisions,  \* bound: edits of the repository
  MaxCampaigns   \* bound: campaigns started

(* The files a certificate depends on, each with the version it is at: the *)
(* image, the RTL with the SRAM models, the harness with the lemma files,  *)
(* and the analyzer and generator.                                         *)
Inputs == {"image", "rtl", "harness", "generator"}
Tools  == {"harness", "generator"}

VARIABLES
  head,       \* version of each input in the working tree
  progress,   \* of the campaign: idle, pinned, arrays
  rev,        \* pinned: the commit the campaign is for
  snap,       \* the versions the campaign runs on
  results,    \* best verdict of each run: none, PASS or FAIL
  todo,       \* runs queued or running on the cluster
  book,       \* results/summary.json: the image's current record
  edits, campaigns,
  evidence    \* history: the versions for which everything was really proved

certVars == <<head, progress, rev, snap, results, todo, book, edits, campaigns, evidence>>

Whole    == {"n0"}
Chunks   == {"n1c0", "n1c1"}
Covers   == {"n0.cover", "n1.cover"}
Negative == {"neg"}
Campaign == {"lemma", "equiv"}
Queue    == <<"n0", "n1c0", "n1c1", "n0.cover", "n1.cover", "neg", "lemma", "equiv">>
Queued   == {Queue[i] : i \in DOMAIN Queue}
NoResults == [r \in Queued |-> "none"]
NoRecord  == [campaign |-> 0]

CertInit ==
  /\ head = [f \in Inputs |-> 0] /\ rev = head /\ snap = head
  /\ progress = "idle" /\ results = NoResults /\ todo = {}
  /\ book = NoRecord /\ edits = 0 /\ campaigns = 0 /\ evidence = {}

-----------------------------------------------------------------------------
(* summarize.py: a segment is proved by its whole certificate or by all    *)
(* its chunks, of which there are some; a wrong prediction that is proved  *)
(* blocks the image, one that did not finish is only undecided.            *)
ChunksOf(node) == IF node = "n1" THEN Chunks ELSE {}
WholeOf(node)  == IF node = "n0" THEN Whole ELSE {}
Passed(runs)   == runs # {} /\ \A r \in runs : results[r] = "PASS"
proved(node) == Passed(WholeOf(node)) \/ Passed(ChunksOf(node))

problems ==
  (IF \A node \in {"n0", "n1"} : proved(node) THEN {} ELSE {"segments"})
    \cup (IF Passed(Covers) THEN {} ELSE {"covers"})
    \cup (IF \E r \in Negative : results[r] = "PASS" THEN {"negatives"} ELSE {})
    \cup (IF Passed(Campaign) THEN {} ELSE {"campaign"})

(* What a campaign's record and a fresh look at a tree are compared by.    *)
obligations(tree) == <<tree["image"], tree["generator"], tree["harness"]>>

(* check(): the reasons why the image is not certified in a tree, none if  *)
(* it is.  The obligations are compared when nothing else has changed.     *)
Xledger_check_SameImage(tree) == IF book = NoRecord THEN {"uncertified"}
  ELSE (IF book.certified THEN {} ELSE {"not_proved"})
         \cup {f \in {"image", "harness"} : book.inputs[f] # tree[f]}      \* mutant
ledger_check(tree) ==
  IF book = NoRecord THEN {"uncertified"}
  ELSE LET why == (IF book.certified THEN {} ELSE {"not_proved"})
                    \cup {f \in {"image", "rtl", "harness"} : book.inputs[f] # tree[f]}
       IN  IF why # {} THEN why
           ELSE IF <<tree["image"], tree["generator"]>> \in Refused THEN {"refused"}
           ELSE IF book.obligations # obligations(tree) THEN {"obligations"}
           ELSE {}

(* plan(): what CI proves again after a push that changed some inputs, and *)
(* what it reports as too deep for it.                                     *)
want(changed) ==
  IF "image" \in changed \/ (changed \cap (Tools \cup {"rtl"}) # {} /\ ledger_check(head) # {})
  THEN {"image"} ELSE {}
reported(changed) ==
  LET program == <<head["image"], head["generator"]>>
  IN  IF program \notin Refused /\ program \in TooDeep THEN want(changed) ELSE {}
plan(changed) == want(changed) \ reported(changed)

-----------------------------------------------------------------------------
(* Somebody edits and commits one input.  The harness and the generator    *)
(* are read from the working tree while the campaign runs, so nobody edits *)
(* them then; the image and the RTL come from the snapshot of the commit.  *)
Edit(f) ==
  /\ edits < MaxRevisions /\ edits' = edits + 1
  /\ f \in Tools => progress \in {"idle", "pinned"}
  /\ head' = [head EXCEPT ![f] = 1 - @]
  /\ UNCHANGED <<progress, rev, snap, results, todo, book, campaigns, evidence>>

(* campaign.sh certify, for the commit of the moment, in a WORK directory  *)
(* of its own: it waits as a job of the cluster first.                     *)
Certify ==
  /\ progress = "idle" /\ campaigns < MaxCampaigns
  /\ campaigns' = campaigns + 1
  /\ progress' = "pinned" /\ rev' = head
  /\ UNCHANGED <<head, snap, results, todo, book, edits, evidence>>

(* Then it exports the commit, asks the ledger and the generator whether   *)
(* there is anything to prove, writes the certificates and submits them.   *)
Exported == [f \in Inputs |-> IF f \in Tools THEN head[f] ELSE rev[f]]
Prepare ==
  /\ progress = "pinned"
  /\ snap' = Exported /\ results' = NoResults
  /\ IF ledger_check(Exported) = {} \/ <<Exported["image"], Exported["generator"]>> \in Refused
     THEN progress' = "idle" /\ todo' = {}
     ELSE progress' = "arrays" /\ todo' = Queued
  /\ UNCHANGED <<head, rev, book, edits, campaigns, evidence>>

(* A run ends with a verdict, or with none: a solver that crashed, a job   *)
(* that was killed.  A verdict is kept whatever a second attempt brings.   *)
(* Runs do not see one another, so one order of them stands for all; a     *)
(* counterexample is tried where it matters, a segment and the control.    *)
Verdicts(r) == {"none", "PASS"} \cup (IF r \in Whole \cup Negative THEN {"FAIL"} ELSE {})
Run ==
  \E i \in DOMAIN Queue, verdict \in {"none", "PASS", "FAIL"} :
    /\ Queue[i] \in todo /\ \A j \in 1 .. i - 1 : Queue[j] \notin todo
    /\ verdict \in Verdicts(Queue[i])
    /\ todo' = todo \ {Queue[i]}
    /\ results' = [results EXCEPT ![Queue[i]] = IF @ = "none" THEN verdict ELSE @]
    /\ UNCHANGED <<head, progress, rev, snap, book, edits, campaigns, evidence>>

(* retry_list.py: the segment, cover and negative runs without a verdict   *)
(* are repeated, once, after all the arrays.                               *)
retries == {r \in Queued \ Campaign : results[r] = "none"}
Retry ==
  /\ progress = "arrays" /\ todo = {} /\ retries # {}
  /\ progress' = "retried" /\ todo' = retries
  /\ UNCHANGED <<head, rev, snap, results, book, edits, campaigns, evidence>>

(* ledger.py record: the campaign's record replaces the image's.           *)
Record ==
  /\ progress = "retried" \/ (progress = "arrays" /\ retries = {})
  /\ todo = {}
  /\ book' = [campaign |-> campaigns, inputs |-> snap, obligations |-> obligations(snap),
              certified |-> problems = {}]
  /\ evidence' = IF /\ \A r \in Whole \cup Chunks \cup Covers \cup Campaign : results[r] = "PASS"
                    /\ \A r \in Negative : results[r] # "PASS"
                 THEN evidence \cup {snap} ELSE evidence
  /\ progress' = "idle"
  /\ results' = NoResults
  /\ UNCHANGED <<head, rev, snap, todo, edits, campaigns>>

CertNext ==
  \/ \E f \in Inputs : Edit(f)
  \/ Certify \/ Prepare \/ Run \/ Retry \/ Record

CertSpec == CertInit /\ [][CertNext]_certVars

-----------------------------------------------------------------------------
(* "which firmware images are certified, for which bytes, on which RTL"    *)
(* (ledger.py 4): an image that check calls certified was proved in full,  *)
(* every segment, cover, lemma and the equivalence, for exactly the files  *)
(* of the tree it is asked about; and a push that makes a certified image  *)
(* uncertified puts it into CI's plan or into its report.                  *)
CertifiedIsProved ==
  /\ ledger_check(head) = {} => head \in evidence
  /\ \A before \in [Inputs -> {0, 1}] :
       ledger_check(before) = {} /\ ledger_check(head) # {} =>
         LET changed == {f \in Inputs : before[f] # head[f]}
         IN  plan(changed) \cup reported(changed) # {}
=============================================================================

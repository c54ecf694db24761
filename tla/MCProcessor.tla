---------------------------- MODULE MCProcessor ----------------------------
(* The control registers, a queue and the mailboxes on small instances.    *)
(* They share no state, so that one run explores one of them at a time:    *)
(* `part' names it and the others keep their first state.                  *)
EXTENDS Control, Fifo, Mailbox

VARIABLE part

registers == <<selected, hostFault, imageVars, pinVars, engineVars>>

MCInit ==
  /\ part \in {"control", "queue", "mailbox"}
  /\ Init /\ FifoInit /\ MailboxInit
  /\ part # "queue" => /\ mem = staged /\ free = staged
                       /\ staged = [s \in Slots |-> stage.data]
                       /\ stage = [valid |-> FALSE, slot |-> 0, data |-> CHOOSE w \in Words : TRUE]
  /\ part # "control" => program = [k \in Engines |-> [a \in Addresses |-> CHOOSE c \in Code : TRUE]]

MCNext ==
  /\ UNCHANGED part
  /\ \/ part = "control" /\ Next        /\ UNCHANGED <<fifoVars, mailboxVars>>
     \/ part = "queue"   /\ FifoNext    /\ UNCHANGED <<registers, mailboxVars>>
     \/ part = "mailbox" /\ MailboxNext /\ UNCHANGED <<registers, fifoVars>>

MCSpec == MCInit /\ [][MCNext]_<<part, registers, fifoVars, mailboxVars>>
=============================================================================

-------------------------- MODULE JournalContract --------------------------
(***************************************************************************)
(* What a write-ahead record of dangerous steps promises, whatever file,   *)
(* lock or process keeps it: a step is recorded before it is run, it is    *)
(* run at most once, it is closed only after it ran, and no second step is *)
(* recorded while an earlier one is open.  ServiceJournal implements it.   *)
(***************************************************************************)
EXTENDS Naturals, FiniteSets

CONSTANT Steps          \* the mutations that may ever be recorded

VARIABLE status         \* how far each step has come

Status == {"none", "intended", "ran", "confirmed"}

Open(s) == {x \in Steps : s[x] \in {"intended", "ran"}}

ContractTypeOK == status \in [Steps -> Status]

ContractInit == status = [x \in Steps |-> "none"]

\* One durable write of the record.  A write that finds the last closing not
\* yet on the disk carries it along, so it may close one step and open another.
Record ==
    /\ status' \in [Steps -> Status]
    /\ \A x \in Steps :
          \/ status'[x] = status[x]
          \/ status[x] = "none" /\ status'[x] = "intended"
          \/ status[x] = "ran"  /\ status'[x] = "confirmed"
    /\ Cardinality(Open(status')) <= 1

\* The step itself, which only an intention on the disk authorises.
Run(x) ==
    /\ status[x] = "intended"
    /\ status' = [status EXCEPT ![x] = "ran"]

ContractNext == Record \/ \E x \in Steps : Run(x)

ContractSpec == ContractInit /\ [][ContractNext]_status
=============================================================================

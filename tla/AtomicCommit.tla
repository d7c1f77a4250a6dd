---------------------------- MODULE AtomicCommit ----------------------------
(***************************************************************************)
(* What the service promises its clients about a transaction, without the  *)
(* store, the mutex, the participants' handles or recovery: one decision,  *)
(* taken after the transaction is open and before any participant is       *)
(* final; every participant ends on that decision; the transaction closes  *)
(* when all of them have; and only a closed transaction is forgotten.      *)
(* The package comment of coordinator.go states these promises.            *)
(***************************************************************************)

CONSTANTS Txns, Resources

VARIABLES
  status,   \* none, open, decided ("commit", "abort") or closed ("committed", "aborted")
  outcome   \* by txn and resource: none, pending, committed or aborted

vars == <<status, outcome>>

Status == {"none", "open", "commit", "abort", "committed", "aborted"}
Outcomes == {"none", "pending", "committed", "aborted"}
OutcomeOf(d) == IF d = "commit" THEN "committed" ELSE "aborted"

Init ==
  /\ status = [t \in Txns |-> "none"]
  /\ outcome = [t \in Txns |-> [r \in Resources |-> "none"]]

Open(t, rs) ==
  /\ status[t] = "none"
  /\ status' = [status EXCEPT ![t] = "open"]
  /\ outcome' = [outcome EXCEPT ![t] =
                   [r \in Resources |-> IF r \in rs THEN "pending" ELSE "none"]]

Decide(t, d) ==
  /\ status[t] = "open"
  /\ status' = [status EXCEPT ![t] = d]
  /\ UNCHANGED outcome

Apply(t, r) ==
  /\ status[t] \in {"commit", "abort"}
  /\ outcome[t][r] = "pending"
  /\ outcome' = [outcome EXCEPT ![t][r] = OutcomeOf(status[t])]
  /\ UNCHANGED status

Close(t) ==
  /\ status[t] \in {"commit", "abort"}
  /\ \A r \in Resources : outcome[t][r] # "pending"
  /\ status' = [status EXCEPT ![t] = OutcomeOf(@)]
  /\ UNCHANGED outcome

Forget(t) ==
  /\ status[t] \in {"committed", "aborted"}
  /\ status' = [status EXCEPT ![t] = "none"]
  /\ outcome' = [outcome EXCEPT ![t] = [r \in Resources |-> "none"]]

Next ==
  \E t \in Txns :
    \/ \E rs \in SUBSET Resources : Open(t, rs)
    \/ \E d \in {"commit", "abort"} : Decide(t, d)
    \/ \E r \in Resources : Apply(t, r)
    \/ Close(t)
    \/ Forget(t)

Spec == Init /\ [][Next]_vars

-----------------------------------------------------------------------------

TypeOK ==
  /\ status \in [Txns -> Status]
  /\ outcome \in [Txns -> [Resources -> Outcomes]]

\* Atomicity: what a participant ended on is the decision of its transaction,
\* so no transaction has a committed and an aborted participant, and none has
\* a final participant before it is decided.
OutcomeAgrees ==
  \A t \in Txns, r \in Resources :
    /\ outcome[t][r] = "committed" => status[t] \in {"commit", "committed"}
    /\ outcome[t][r] = "aborted" => status[t] \in {"abort", "aborted"}

\* Completeness: a closed transaction has no pending participant.
ClosedIsComplete ==
  \A t \in Txns : status[t] \in {"committed", "aborted"} =>
    \A r \in Resources : outcome[t][r] # "pending"
=============================================================================

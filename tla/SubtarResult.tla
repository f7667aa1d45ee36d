----------------------------- MODULE SubtarResult -----------------------------
(***************************************************************************)
(* What downloading one subtar promises, however often the worker is       *)
(* killed and started again: every row gets one outcome, an outcome that   *)
(* has been recorded is given up only if it is a retryable one, and the    *)
(* subtar is published once, with exactly the recorded outcomes and their  *)
(* packages, after which nothing changes any more.                         *)
(***************************************************************************)
EXTENDS RowOutcome

CONSTANTS
  Row,    \* the rows of the subtar's plan
  None    \* no outcome yet

VARIABLES
  outcome,    \* the recorded outcome of each row, or None
  published   \* has the subtar been published?

resultVars == <<outcome, published>>

Init ==
  /\ outcome = [r \in Row |-> None]
  /\ published = FALSE

\* A row without an outcome gets one.
Record(r) ==
  /\ ~published
  /\ outcome[r] = None
  /\ outcome'[r] \in Outcome
  /\ outcome' = [outcome EXCEPT ![r] = outcome'[r]]
  /\ UNCHANGED published

\* An outcome that may still improve is given up for another attempt.
Retract(r) ==
  /\ ~published
  /\ outcome[r] # None
  /\ RetryableRow(outcome[r])
  /\ outcome' = [outcome EXCEPT ![r] = None]
  /\ UNCHANGED published

Publish ==
  /\ ~published
  /\ \A r \in Row : outcome[r] # None
  /\ published' = TRUE
  /\ UNCHANGED outcome

Next ==
  \/ \E r \in Row : Record(r) \/ Retract(r)
  \/ Publish

Spec == Init /\ [][Next]_resultVars
===============================================================================

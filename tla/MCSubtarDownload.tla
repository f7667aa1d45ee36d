--------------------------- MODULE MCSubtarDownload ---------------------------
(***************************************************************************)
(* The options of the runs that TLC starts the worker with.                *)
(***************************************************************************)
EXTENDS SubtarDownload

Run(retries, retryCached) ==
  [retries |-> retries, retryCached |-> retryCached, force |-> FALSE]

\* Every run has the same --row-retries, as in a resubmission by recover.sh.
TwoRetries == {Run(2, TRUE)}

\* A first pass without row retries, later ones with one, in any order, and
\* with or without --retry-cached-rows.
MixedRetries == {Run(0, FALSE), Run(1, TRUE), Run(1, FALSE)}

\* Runs of which some have --force.
SomeForced == {Run(0, FALSE), [Run(0, FALSE) EXCEPT !.force = TRUE]}
===============================================================================

---------------------------- MODULE MCRepairSubtar ----------------------------
(***************************************************************************)
(* The options of the repairs that TLC starts.                             *)
(***************************************************************************)
EXTENDS RepairSubtar

\* Every repair takes all rows, with one retry.
AllRows == {[retries |-> 1, maxRows |-> 0]}
===============================================================================

------------------------- MODULE MCHarvestIdentifiers -------------------------
(***************************************************************************)
(* The values of --max-pages that TLC starts the harvest with.             *)
(***************************************************************************)
EXTENDS HarvestIdentifiers

\* One page at a time, or more than there can be.
OneOrAll == {1, Total + 1}
===============================================================================

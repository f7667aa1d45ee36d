-------------------------- MODULE MCFetchArticleMeta --------------------------
(***************************************************************************)
(* A shard of two keys, one of each of its parts, for TLC.                 *)
(***************************************************************************)
EXTENDS FetchArticleMeta

EachItsPart == [k \in Key |-> IF k = 1 THEN "part-00" ELSE "part-01"]
===============================================================================

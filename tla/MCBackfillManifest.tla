-------------------------- MODULE MCBackfillManifest --------------------------
(***************************************************************************)
(* A manifest of two admitted rows and a rejected one, its later versions, *)
(* and the tars there may be.                                              *)
(***************************************************************************)
EXTENDS BackfillManifest

Ids == {"a", "b", "c"}
Paths == {"sub-000.tar", "sub-001.tar"}

Members(id) == <<<<id, "xml">>, <<id, "source">>>>

Entry(id, status, tar, note) ==
  [id |-> id, status |-> status, tar |-> tar, members |-> Members(id),
   note |-> note, hash |-> NoHash, sha |-> 0]

A == Entry("a", "complete", "sub-000.tar", "")
B == Entry("b", "partial", "sub-001.tar", "")
C == Entry("c", "rejected", "sub-001.tar", "")
WithHash(row) ==
  [row EXCEPT !.hash = <<<<<<row.id, "xml">>, "x">>, <<<<row.id, "source">>, "y">>>>]

\* In turn: another reason, another admitted title, a row rejected, one
\* admitted, another order, a row less, a row twice, a row with the worker's
\* hash, and one that was backfilled.
Versions ==
  <<<<A, B, C>>, <<A, B, [C EXCEPT !.note = "other"]>>,
    <<[A EXCEPT !.note = "other"], B, C>>, <<A, [B EXCEPT !.status = "rejected"], C>>,
    <<A, B, [C EXCEPT !.status = "complete"]>>, <<B, A, C>>, <<A, C>>,
    <<A, B, B>>, <<WithHash(A), B, C>>,
    <<[WithHash(A) EXCEPT !.sha = 1], B, C>>>>

File(id, name, data) == [member |-> <<id, name>>, data |-> data]

Plain(id) == <<File(id, "xml", "x"), File(id, "source", "y")>>
Turned(id) == <<File(id, "source", "y"), File(id, "xml", "x")>>
Twice(id) == Plain(id) \o <<File(id, "xml", "x")>>
Differing(id) == Plain(id) \o <<File(id, "xml", "z")>>
Extra(id) == Plain(id) \o <<File(id, "figure", "f")>>
Lacking(id) == <<File(id, "xml", "x")>>

Tars(first) ==
  [t \in Paths |-> IF t = "sub-000.tar" THEN first
                   ELSE Turned("b") \o Plain("c")]

SomeCorpora ==
  {Tars(first) : first \in {Plain("a"), Turned("a"), Twice("a"), Differing("a"),
                            Extra("a"), Lacking("a"), None}}
===============================================================================

----------------------------- MODULE MCManifestRow -----------------------------
(***************************************************************************)
(* The answers, articles and options that TLC tries.                       *)
(***************************************************************************)
EXTENDS ManifestRow

\* A final error, one only requests are repeated for, one that is transient
\* for rows alone, and one that is transient throughout.
Codes == {404, 409, 501, 503}

Licenses ==
  {l \in License : Cardinality(l.texts) <= 1 /\ Cardinality(l.urls) <= 1}

\* Every license of an article as it should be, and every fault of one that
\* has a good license.
SomeArticles ==
  [license : Licenses, thirdParty : {FALSE}, body : {TRUE}, media : {1}]
    \cup [license : {[texts |-> {"by4"}, urls |-> {"by4"}]},
          thirdParty : BOOLEAN, body : BOOLEAN, media : 0 .. MaxMedia]

\* Each option alone, and those that change fetch_xml with the others off.
SomeOptions ==
  {o \in [resolveFirst : BOOLEAN, fallback : BOOLEAN, skipFigures : BOOLEAN,
          allowThirdParty : BOOLEAN, keepTiff : BOOLEAN] :
     /\ o.resolveFirst => ~o.fallback
     /\ o.skipFigures => ~o.keepTiff}
===============================================================================

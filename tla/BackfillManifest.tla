--------------------------- MODULE BackfillManifest ---------------------------
(***************************************************************************)
(* The two tools that add exact package hashes to a manifest made before   *)
(* the worker recorded them: backfill_manifest_provenance.py, which holds  *)
(* all rows in memory, and backfill_manifest_provenance_bounded.py, which  *)
(* stages the admitted rows in a database and reads the input again for    *)
(* the output.  Both take the hashes from the tars, by                     *)
(* backfill_package_provenance of aggregate_manifest.py.                   *)
(*                                                                         *)
(* While a tool runs, the input may be replaced by a newer aggregation.    *)
(* A hash is what goes into it, the members with their bytes in order; the *)
(* checksum of the input is its version.                                   *)
(***************************************************************************)
EXTENDS Integers, Sequences, FiniteSets

CONSTANTS
  Root,       \* the archive roots of the packages; also the source ids
  Tar,        \* the tar paths
  Manifests,  \* the manifests the input may be, by version
  Corpora,    \* the tars there may be
  MaxFaults,  \* bound: kills and replacements of the input
  None        \* no output, no summary

\* A row of a manifest: sha is the checksum of its attribution, or 0.
ManifestRow ==
  [id : Root, status : {"complete", "partial", "rejected", "quarantined"},
   tar : Tar, members : Seq(Root \X STRING), note : STRING,
   hash : Seq((Root \X STRING) \X STRING), sha : Nat]

TarFile == [member : Root \X STRING, data : STRING]

ASSUME ManifestsAssumption == Manifests \in Seq(Seq(ManifestRow))
ASSUME CorporaAssumption ==
  \A files \in Corpora, t \in Tar : files[t] = None \/ files[t] \in Seq(TarFile)
ASSUME MaxFaultsAssumption == MaxFaults \in Nat
ASSUME NoneAssumption == None \notin Seq(ManifestRow)

Version == 1 .. Len(Manifests)
NoHash == <<>>

\* manifest_row_is_convertible, of docgraph.
Admitted(row) == row.status \in {"complete", "partial"}

VARIABLES
  input,      \* the version of the input manifest
  corpus,     \* for each tar path the files of the tar, in order, or None
  output,     \* the rows of the output, or None
  complete,   \* was the output written to its end?
  summary,    \* the summary beside the output, or None
  pc, tool,
  sha,        \* input_sha256
  staged,     \* the rows of the input as they were staged
  rows,       \* the admitted ones as they are in the database
  tarsLeft,   \* the tars still to be opened
  faults      \* faults so far

fileVars == <<corpus, output, complete, summary>>
procVars == <<pc, tool, sha, staged, rows, tarsLeft>>
vars == <<input, fileVars, procVars, faults>>

Phase == {"down", "hash", "stage", "enrich", "write", "verify", "summarise"}

Elements(s) == {s[i] : i \in 1 .. Len(s)}

TypeOK ==
  /\ input \in Version
  /\ corpus \in Corpora
  /\ output \in Seq(ManifestRow) \cup {None}
  /\ complete \in BOOLEAN
  /\ complete => output # None
  /\ summary \in Version \cup {None}
  /\ pc \in Phase
  /\ pc # "down" => tool \in {"bounded", "whole"}
  /\ sha \in Version \cup {0}
  /\ staged \in Seq(ManifestRow)
  /\ rows \in Seq(ManifestRow)
  /\ Len(rows) = Len(staged)
  /\ tarsLeft \in SUBSET Tar
  /\ tarsLeft # {} => pc = "enrich"
  /\ faults \in Nat

Init ==
  /\ input \in Version
  /\ corpus \in Corpora
  /\ output = None /\ complete = FALSE /\ summary = None
  /\ pc = "down" /\ tool = "whole" /\ sha = 0
  /\ staged = <<>> /\ rows = <<>> /\ tarsLeft = {}
  /\ faults = 0

Fault == faults < MaxFaults /\ faults' = faults + 1

ProcessEnds ==
  /\ pc' = "down" /\ tool' = "whole" /\ sha' = 0
  /\ staged' = <<>> /\ rows' = <<>> /\ tarsLeft' = {}

(***************************************************************************)
(* An existing output is refused; one without a summary has to be removed  *)
(* by hand.                                                                *)
(***************************************************************************)
Start(t) ==
  /\ pc = "down" /\ output = None
  /\ pc' = "hash" /\ tool' = t
  /\ UNCHANGED <<input, fileVars, sha, staged, rows, tarsLeft, faults>>

RemoveOutput ==
  /\ pc = "down" /\ output # None /\ summary = None
  /\ output' = None /\ complete' = FALSE
  /\ UNCHANGED <<input, corpus, summary, procVars, faults>>

HashInput ==
  /\ pc = "hash"
  /\ sha' = input
  /\ pc' = "stage"
  /\ UNCHANGED <<input, fileVars, tool, staged, rows, tarsLeft, faults>>

(***************************************************************************)
(* _stage_admitted, or the reading of the table: identities are unique,    *)
(* and no admitted row has a hash.  The tool that holds all rows leaves    *)
(* the hash of an earlier backfill, which is known by its attribution, and *)
(* attributes it anew.  (That another hash has none it only finds out when *)
(* the other rows are enriched.)                                           *)
(***************************************************************************)
Unhashed(row) == Admitted(row) /\ row.hash = NoHash

Stageable(m, t) ==
  /\ \A i, j \in 1 .. Len(m) : m[i].id = m[j].id => i = j
  /\ \A r \in {x \in Elements(m) : Admitted(x)} :
       r.members # <<>> /\ (Unhashed(r) \/ (t = "whole" /\ r.sha # 0))

Stage ==
  /\ pc = "stage" /\ Stageable(Manifests[input], tool)
  /\ staged' = Manifests[input]
  /\ rows' = [i \in 1 .. Len(Manifests[input]) |->
                LET r == Manifests[input][i]
                IN IF Admitted(r) /\ ~Unhashed(r) THEN [r EXCEPT !.sha = sha] ELSE r]
  /\ tarsLeft' = {r.tar : r \in {x \in Elements(Manifests[input]) : Unhashed(x)}}
  /\ pc' = "enrich"
  /\ UNCHANGED <<input, fileVars, tool, sha, faults>>

StageFails ==
  /\ pc = "stage" /\ ~Stageable(Manifests[input], tool)
  /\ ProcessEnds
  /\ UNCHANGED <<input, fileVars, faults>>

(***************************************************************************)
(* backfill_package_provenance for the unhashed rows of one tar.  Rows     *)
(* have archive roots of their own; below its root a row's package has the *)
(* members it lists and no other, and one that is there twice has the same *)
(* bytes.                                                                  *)
(***************************************************************************)
Of(tar) == {i \in 1 .. Len(rows) : Unhashed(rows[i]) /\ rows[i].tar = tar}

PackageRoot(row) == row.members[1][1]

Rooted(tar) ==
  /\ \A i \in Of(tar), m \in UNION {Elements(rows[k].members) : k \in Of(tar)} :
       m \in Elements(rows[i].members) => m[1] = PackageRoot(rows[i])
  /\ \A i, j \in Of(tar) : PackageRoot(rows[i]) = PackageRoot(rows[j]) => i = j

Bytes(files, member) == {f.data : f \in {x \in Elements(files) : x.member = member}}

\* Plausible mistake: files that no row lists are passed over.
MembersListedThere(files, row) ==
  \A m \in Elements(row.members) : Cardinality(Bytes(files, m)) = 1

MembersThere(files, row) ==
  /\ \A m \in Elements(row.members) : Cardinality(Bytes(files, m)) = 1
  /\ \A f \in Elements(files) :
       f.member[1] = PackageRoot(row) => f.member \in Elements(row.members)

\* The canonical order of package_members, whatever that of the tar.
Digest(files, row) ==
  [k \in 1 .. Len(row.members) |->
     <<row.members[k], CHOOSE d \in Bytes(files, row.members[k]) : TRUE>>]

\* Plausible mistake: the tar has to have the members in the manifest's order.
TarGoodInOrder(tar) ==
  /\ Rooted(tar)
  /\ corpus[tar] # None
  /\ \A i \in Of(tar) :
       LET below(f) == f.member[1] = PackageRoot(rows[i])
           found == SelectSeq(corpus[tar], below)
       IN [k \in 1 .. Len(found) |-> found[k].member] = rows[i].members

TarGood(tar) ==
  /\ Rooted(tar)
  /\ corpus[tar] # None
  /\ \A i \in Of(tar) : MembersThere(corpus[tar], rows[i])

EnrichTar(tar) ==
  /\ pc = "enrich" /\ tar \in tarsLeft /\ TarGood(tar)
  /\ rows' = [i \in 1 .. Len(rows) |->
                IF i \in Of(tar)
                THEN [rows[i] EXCEPT !.hash = Digest(corpus[tar], rows[i]),
                                     !.sha = sha]
                ELSE rows[i]]
  /\ tarsLeft' = tarsLeft \ {tar}
  /\ UNCHANGED <<input, fileVars, pc, tool, sha, staged, faults>>

EnrichFails(tar) ==
  /\ pc = "enrich" /\ tar \in tarsLeft /\ ~TarGood(tar)
  /\ ProcessEnds
  /\ UNCHANGED <<input, fileVars, faults>>

\* Plausible mistake: it is not checked that every row was enriched.
EnrichEndsEarly ==
  /\ pc = "enrich"
  /\ pc' = "write"
  /\ UNCHANGED <<input, fileVars, tool, sha, staged, rows, tarsLeft, faults>>

EnrichEnds ==
  /\ pc = "enrich" /\ tarsLeft = {}
  /\ pc' = "write"
  /\ UNCHANGED <<input, fileVars, tool, sha, staged, rows, tarsLeft, faults>>

(***************************************************************************)
(* The output.  The bounded tool reads the input again (_merged_rows) and  *)
(* puts the staged row in the place of every admitted one.                 *)
(***************************************************************************)
StagedRow(id) == {r \in Elements(rows) : Admitted(r) /\ r.id = id}

Source == IF tool = "bounded" THEN Manifests[input] ELSE rows

Mergeable ==
  tool = "bounded" =>
    \A i \in 1 .. Len(Source) :
      Admitted(Source[i]) => StagedRow(Source[i].id) # {}

Merged ==
  [i \in 1 .. Len(Source) |->
     IF tool = "bounded" /\ Admitted(Source[i])
     THEN CHOOSE r \in StagedRow(Source[i].id) : TRUE
     ELSE Source[i]]

Write ==
  /\ pc = "write" /\ Mergeable
  /\ output' = Merged /\ complete' = TRUE
  /\ pc' = "verify"
  /\ UNCHANGED <<input, corpus, summary, tool, sha, staged, rows, tarsLeft, faults>>

\* An admitted row that was not staged; what was written so far may stay.
WriteFails ==
  /\ pc = "write" /\ ~Mergeable
  /\ output' \in {None, <<>>}
  /\ ProcessEnds
  /\ UNCHANGED <<input, corpus, complete, summary, faults>>

(***************************************************************************)
(* The output is read again and compared with what was staged:             *)
(* _verify_output, and the count of the rows written; the other tool only  *)
(* compares the identities.                                                *)
(***************************************************************************)
Identities(m) == [i \in 1 .. Len(m) |-> m[i].id]

\* nonadmitted_digest, which is updated row by row.
Nonadmitted(m) ==
  LET digest[i \in 0 .. Len(m)] ==
        IF i = 0 THEN <<>>
        ELSE IF Admitted(m[i]) THEN digest[i - 1]
        ELSE Append(digest[i - 1], m[i])
  IN digest[Len(m)]

AdmittedCount(m) == Cardinality({i \in 1 .. Len(m) : Admitted(m[i])})

Provenance(row) ==
  Admitted(row) =>
    row.hash # NoHash /\ Len(row.hash) = Len(row.members) /\ row.sha = sha

\* Plausible mistake: that the rejected rows stayed as they were is not checked.
VerifiesAdmitted ==
  IF tool = "whole" THEN Elements(Identities(output)) = Elements(Identities(staged))
  ELSE /\ Identities(output) = Identities(staged)
       /\ AdmittedCount(output) = AdmittedCount(staged)
       /\ \A r \in Elements(output) : Provenance(r)

Verifies ==
  IF tool = "whole" THEN Elements(Identities(output)) = Elements(Identities(staged))
  ELSE /\ Identities(output) = Identities(staged)
       /\ AdmittedCount(output) = AdmittedCount(staged)
       /\ Nonadmitted(output) = Nonadmitted(staged)
       /\ \A r \in Elements(output) : Provenance(r)

Verify ==
  /\ pc = "verify" /\ Verifies
  /\ pc' = "summarise"
  /\ UNCHANGED <<input, fileVars, tool, sha, staged, rows, tarsLeft, faults>>

VerifyFails ==
  /\ pc = "verify" /\ ~Verifies
  /\ ProcessEnds
  /\ UNCHANGED <<input, fileVars, faults>>

Summarise ==
  /\ pc = "summarise"
  /\ summary' = sha
  /\ ProcessEnds
  /\ UNCHANGED <<input, corpus, output, complete, faults>>

(***************************************************************************)
(* A newer manifest replaces the input; the tool is killed.                *)
(***************************************************************************)
ReplaceInput(v) ==
  /\ Fault
  /\ input' = v
  /\ UNCHANGED <<fileVars, procVars>>

Kill ==
  /\ pc # "down"
  /\ Fault
  /\ \/ UNCHANGED output
     \/ pc = "write" /\ output' = <<>>
  /\ ProcessEnds
  /\ UNCHANGED <<input, corpus, complete, summary>>

Step ==
  \/ HashInput \/ Stage \/ StageFails
  \/ (\E t \in Tar : EnrichTar(t) \/ EnrichFails(t))
  \/ EnrichEnds \/ Write \/ WriteFails \/ Verify \/ VerifyFails \/ Summarise

Begin == \E t \in {"bounded", "whole"} : Start(t)

Next ==
  \/ Begin \/ RemoveOutput \/ Step
  \/ (\E v \in Version : ReplaceInput(v)) \/ Kill

Spec == Init /\ [][Next]_vars

\* A tool ends; its user removes what has no summary and starts it again.
FairSpec == Spec /\ WF_vars(Begin) /\ WF_vars(RemoveOutput) /\ WF_vars(Step)

(***************************************************************************)
(* Properties.                                                             *)
(***************************************************************************)

\* A row of the output for the input's row r.
Backfilled(row, r) ==
  IF ~Admitted(r) THEN row = r
  ELSE /\ row = [r EXCEPT !.hash = row.hash, !.sha = summary]
       /\ IF ~Unhashed(r) THEN row.hash = r.hash
          ELSE /\ corpus[r.tar] # None
               /\ Len(row.hash) = Len(r.members)
               /\ \A k \in 1 .. Len(r.members) :
                    /\ row.hash[k][1] = r.members[k]
                    /\ [member |-> row.hash[k][1], data |-> row.hash[k][2]]
                         \in Elements(corpus[r.tar])

(***************************************************************************)
(* The bounded tool's "nonadmitted_rows_unchanged" and the tests' canonical*)
(* package hash: an output with a summary is one version of the input, row *)
(* for row and in its order, every admitted row with the hash of its       *)
(* members in the order it lists them and with the summary's checksum, and *)
(* every other row untouched - although the input was replaced while the   *)
(* tool had it staged, and was read twice.                                 *)
(***************************************************************************)
SummaryMeansBackfilled ==
  summary # None =>
    /\ complete
    /\ \E v \in Version :
         /\ Len(output) = Len(Manifests[v])
         /\ \A i \in 1 .. Len(output) : Backfilled(output[i], Manifests[v][i])

\* The admitted rows of the output that had no hash in the input.
Hashed ==
  {r \in Elements(output) :
     Admitted(r) /\ \A v \in Version : [r EXCEPT !.sha = 0] \notin
                      {[x EXCEPT !.sha = 0] : x \in Elements(Manifests[v])}}

(***************************************************************************)
(* A package whose tar holds something the manifest does not list, lacks a *)
(* member or has two versions of one is never hashed.                      *)
(***************************************************************************)
OnlyExactPackages ==
  summary # None =>
    \A r \in Hashed :
      /\ corpus[r.tar] # None
      /\ \A f, g \in {x \in Elements(corpus[r.tar]) : x.member[1] = PackageRoot(r)} :
           /\ f.member \in Elements(r.members)
           /\ f.member = g.member => f.data = g.data

\* Nothing about the input and the tars stands in the way.
Backfillable ==
  /\ Stageable(Manifests[input], "bounded")
  /\ \A r, s \in {x \in Elements(Manifests[input]) : Admitted(x)} :
       /\ corpus[r.tar] # None /\ MembersThere(corpus[r.tar], r)
       /\ \A m \in Elements(r.members) : m[1] = PackageRoot(r)
       /\ PackageRoot(r) = PackageRoot(s) => r = s

(***************************************************************************)
(* If the input is in the end a manifest that can be backfilled, it is:    *)
(* no kill and no replaced input leaves files that keep the tools from     *)
(* their end for good.                                                     *)
(***************************************************************************)
EventuallySummarised == <>[]Backfillable => <>(summary # None)

(***************************************************************************)
(* The inductive invariant of the proofs.                                  *)
(***************************************************************************)
\* A tool is done with the input's row r: a hash is that of its package.
Settled(files, row, r, checksum) ==
  IF ~Admitted(r) THEN row = r
  ELSE /\ row = [r EXCEPT !.hash = row.hash, !.sha = checksum]
       /\ IF ~Unhashed(r) THEN row.hash = r.hash
          ELSE /\ files[r.tar] # None
               /\ MembersThere(files[r.tar], r)
               /\ row.hash = Digest(files[r.tar], r)

\* A row is settled, or it is as it was and its tar is still to be opened.
StagedOK ==
  /\ pc \in {"stage", "enrich", "write", "verify", "summarise"} => sha \in Version
  /\ pc \in {"enrich", "write", "verify", "summarise"} =>
       /\ \E v \in Version : staged = Manifests[v]
       /\ Stageable(staged, tool)
       /\ \A i \in 1 .. Len(staged) :
            \/ Settled(corpus, rows[i], staged[i], sha)
            \/ /\ rows[i] = staged[i] /\ Unhashed(staged[i])
               /\ staged[i].tar \in tarsLeft

\* Before it was verified, only the admitted rows of the output are known.
WrittenOK ==
  /\ complete => pc \in {"down", "verify", "summarise"}
  /\ pc \in {"verify", "summarise"} => complete
  /\ pc = "verify" =>
       IF tool = "whole" THEN output = rows
       ELSE \A r \in Elements(output) : Admitted(r) => r \in Elements(rows)
  /\ pc = "summarise" => output = rows

SummaryOK ==
  summary # None =>
    /\ pc = "down" /\ complete
    /\ \E v \in Version :
         /\ Len(output) = Len(Manifests[v])
         /\ \A i \in 1 .. Len(output) :
              Settled(corpus, output[i], Manifests[v][i], summary)

IInv == TypeOK /\ StagedOK /\ WrittenOK /\ SummaryOK
===============================================================================

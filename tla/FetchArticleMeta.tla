--------------------------- MODULE FetchArticleMeta ---------------------------
(***************************************************************************)
(* main of scripts/fetch_articlemeta.py: a run writes the rows of a shard, *)
(* or of one part of it, to a temporary file of its own and renames it to  *)
(* the output at the end.  A later run restores what the newest temporary  *)
(* file has; a part falls back to those of the whole shard.  Several pods  *)
(* may run for the same output, and any may be killed.                     *)
(*                                                                         *)
(* A row is its key, and rows are fetched in any order: the task iterator  *)
(* and the pool only decide which of the missing rows comes next.  A file  *)
(* that a pod has open stays readable for it after it was unlinked.  Runs  *)
(* with --limit, and the summary, which nothing reads, are left out.       *)
(***************************************************************************)
EXTENDS Integers, FiniteSets

CONSTANTS
  Key,          \* the identifiers of the shard
  Part,         \* its parts
  Base,         \* the whole shard
  SubShard,     \* the part of each key: stable_sub_shard
  Submitted,    \* the parts, or the whole shard, that runs are submitted for
  SingleShard,  \* is it the only shard: --n-shards 1?
  Pod,
  MaxRuns,      \* bound: how many temporary files are made
  MaxKills,     \* bound: how often a pod is killed or fails
  MaxExtra,     \* bound: runs beside another one, or --no-resume
  None          \* no temporary file

ASSUME BaseAssumption == Base \notin Part
ASSUME SubShardAssumption == SubShard \in [Key -> Part]
ASSUME SubmittedAssumption == Submitted \subseteq Part \cup {Base}
ASSUME SingleShardAssumption == SingleShard \in BOOLEAN
ASSUME BoundsAssumption == MaxRuns \in Nat /\ MaxKills \in Nat /\ MaxExtra \in Nat

\* What a run is for: --sub-shards 1, or one of the parts.
Output == Part \cup {Base}

\* The output of such a run.  A single shard has one output, parts or not.
OutputFile(o) == IF SingleShard THEN Base ELSE o

\* Temporary files have unique names; they are numbered as they are made.
Tmp == 1 .. MaxRuns

ASSUME NoneAssumption == None \notin Tmp /\ None \notin Output

VARIABLES
  (* Files. *)
  complete,   \* the outputs that exist
  published,  \* the rows of each output
  files,      \* the temporary files that are in the directory
  name,       \* the output each temporary file was made for
  rows,       \* the rows that have reached each temporary file
  rank,       \* the order of their last modifications, 0 for an empty file
  (* The memory of the pods. *)
  pc,
  out,        \* output
  tmp,        \* tmp
  source,     \* resume_path
  toRestore,  \* the rows of it that are still to be copied
  written,    \* done_keys: the rows written, which may not have reached the file
  (* What is observed. *)
  runs, kills, extra

outputVars == <<complete, published>>
fileVars == <<files, name, rows, rank>>
podVars == <<pc, out, tmp, source, toRestore, written>>
bounds == <<runs, kills, extra>>
vars == <<outputVars, fileVars, podVars, bounds>>

TypeOK ==
  /\ complete \in SUBSET Output
  /\ published \in [Output -> SUBSET Key]
  /\ files \in SUBSET Tmp
  /\ name \in [Tmp -> Output \cup {None}]
  /\ rows \in [Tmp -> SUBSET Key]
  /\ rank \in [Tmp -> Nat]
  /\ pc \in [Pod -> {"down", "open", "write", "replace", "unlink"}]
  /\ out \in [Pod -> Output \cup {None}]
  /\ tmp \in [Pod -> Tmp \cup {None}]
  /\ source \in [Pod -> Tmp \cup {None}]
  /\ toRestore \in [Pod -> SUBSET Key]
  /\ written \in [Pod -> SUBSET Key]
  /\ \A p \in Pod : pc[p] # "down" => out[p] # None /\ tmp[p] # None
  /\ runs \in 0 .. MaxRuns /\ kills \in Nat /\ extra \in Nat

Init ==
  /\ complete = {}
  /\ published = [o \in Output |-> {}]
  /\ files = {}
  /\ name = [t \in Tmp |-> None]
  /\ rows = [t \in Tmp |-> {}]
  /\ rank = [t \in Tmp |-> 0]
  /\ pc = [p \in Pod |-> "down"]
  /\ out = [p \in Pod |-> None]
  /\ tmp = [p \in Pod |-> None]
  /\ source = [p \in Pod |-> None]
  /\ toRestore = [p \in Pod |-> {}]
  /\ written = [p \in Pod |-> {}]
  /\ runs = 0 /\ kills = 0 /\ extra = 0

\* The keys that a run for o has to do with.
Selected(o) == IF o = Base THEN Key ELSE {k \in Key : SubShard[k] = o}

(***************************************************************************)
(* The choice of the file to resume from.                                  *)
(***************************************************************************)
\* The temporary files of an output that are not empty.
Candidates(f) == {t \in files : name[t] = f /\ rank[t] > 0}

Newest(ts) == {t \in ts : \A u \in ts : rank[u] <= rank[t]}

\* Plausible mistake: the pattern without ".tmp." matches the finished output
\* of the whole shard, too.
ResumeSourceFinished(o) ==
  IF Candidates(OutputFile(o)) # {} THEN Newest(Candidates(OutputFile(o)))
  ELSE IF Base \in complete THEN {Base}
  ELSE IF Candidates(Base) # {} THEN Newest(Candidates(Base))
  ELSE {None}

\* The choice of resume_path, a set of one.
ResumeSource(o) ==
  IF Candidates(OutputFile(o)) # {} THEN Newest(Candidates(OutputFile(o)))
  ELSE IF Candidates(Base) # {} THEN Newest(Candidates(Base))
  ELSE {None}

Running(o) == \E p \in Pod : pc[p] # "down" /\ out[p] = o

\* Plausible mistake: a temporary file is taken for a run that is under way.
StartIfNoTmp(p, o, resume) ==
  /\ pc[p] = "down" /\ runs < MaxRuns
  /\ resume => OutputFile(o) \notin complete
  /\ \A t \in files : name[t] # OutputFile(o)
  /\ IF ~resume \/ Running(o)
     THEN extra < MaxExtra /\ extra' = extra + 1
     ELSE UNCHANGED extra
  /\ runs' = runs + 1
  /\ files' = files \cup {runs + 1}
  /\ name' = [name EXCEPT ![runs + 1] = OutputFile(o)]
  /\ out' = [out EXCEPT ![p] = o]
  /\ tmp' = [tmp EXCEPT ![p] = runs + 1]
  /\ \E s \in IF resume THEN ResumeSource(o) ELSE {None} :
       source' = [source EXCEPT ![p] = s]
  /\ pc' = [pc EXCEPT ![p] = "open"]
  /\ UNCHANGED <<outputVars, rows, rank, toRestore, written, kills>>

(***************************************************************************)
(* A run for o starts and makes its temporary file.  With resume it does   *)
(* nothing when the output exists.                                         *)
(***************************************************************************)
Start(p, o, resume) ==
  /\ pc[p] = "down" /\ runs < MaxRuns
  /\ resume => OutputFile(o) \notin complete
  /\ IF ~resume \/ Running(o)
     THEN extra < MaxExtra /\ extra' = extra + 1
     ELSE UNCHANGED extra
  /\ runs' = runs + 1
  /\ files' = files \cup {runs + 1}
  /\ name' = [name EXCEPT ![runs + 1] = OutputFile(o)]
  /\ out' = [out EXCEPT ![p] = o]
  /\ tmp' = [tmp EXCEPT ![p] = runs + 1]
  /\ \E s \in IF resume THEN ResumeSource(o) ELSE {None} :
       source' = [source EXCEPT ![p] = s]
  /\ pc' = [pc EXCEPT ![p] = "open"]
  /\ UNCHANGED <<outputVars, rows, rank, toRestore, written, kills>>

\* Plausible mistake: a part restores all rows of the file it resumes from.
OpenUnfiltered(p) ==
  /\ pc[p] = "open"
  /\ toRestore' = [toRestore EXCEPT ![p] =
                     IF source[p] \in files THEN rows[source[p]] ELSE {}]
  /\ pc' = [pc EXCEPT ![p] = "write"]
  /\ UNCHANGED <<outputVars, fileVars, out, tmp, source, written, bounds>>

(***************************************************************************)
(* The file to resume from is read.  Another pod may have removed it by    *)
(* now, which counts as a file without rows.                               *)
(***************************************************************************)
Open(p) ==
  /\ pc[p] = "open"
  /\ toRestore' = [toRestore EXCEPT ![p] =
                     IF source[p] \in files
                     THEN rows[source[p]] \cap Selected(out[p])
                     ELSE {}]
  /\ pc' = [pc EXCEPT ![p] = "write"]
  /\ UNCHANGED <<outputVars, fileVars, out, tmp, source, written, bounds>>

Restore(p, k) ==
  /\ pc[p] = "write" /\ k \in toRestore[p]
  /\ toRestore' = [toRestore EXCEPT ![p] = @ \ {k}]
  /\ written' = [written EXCEPT ![p] = @ \cup {k}]
  /\ UNCHANGED <<outputVars, fileVars, pc, out, tmp, source, bounds>>

MissingRows(p) == Selected(out[p]) \ written[p]

\* A row, of whatever status, is fetched and written.
FetchRow(p, k) ==
  /\ pc[p] = "write" /\ toRestore[p] = {}
  /\ k \in MissingRows(p)
  /\ written' = [written EXCEPT ![p] = @ \cup {k}]
  /\ UNCHANGED <<outputVars, fileVars, pc, out, tmp, source, toRestore, bounds>>

\* The ranks when the file t is written to.
Touched(t) ==
  [u \in Tmp |->
     IF u = t THEN Cardinality({v \in Tmp \ {t} : rank[v] > 0}) + 1
     ELSE IF 0 < rank[t] /\ rank[t] < rank[u] THEN rank[u] - 1
     ELSE rank[u]]

\* What was written reaches the file.
FlushTo(t, keys) ==
  /\ rows' = [rows EXCEPT ![t] = keys]
  /\ rank' = Touched(t)

\* The buffer is full, perhaps with no more than a part of a row in it.
Flush(p) ==
  /\ pc[p] = "write"
  /\ FlushTo(tmp[p], written[p])
  /\ UNCHANGED <<outputVars, files, name, podVars, bounds>>

\* All rows are there: the file is closed.
Close(p) ==
  /\ pc[p] = "write" /\ toRestore[p] = {} /\ MissingRows(p) = {}
  /\ FlushTo(tmp[p], written[p])
  /\ pc' = [pc EXCEPT ![p] = "replace"]
  /\ UNCHANGED <<outputVars, files, name, out, tmp, source, toRestore, written,
                 bounds>>

PodEnds(p) ==
  /\ pc' = [pc EXCEPT ![p] = "down"]
  /\ out' = [out EXCEPT ![p] = None]
  /\ tmp' = [tmp EXCEPT ![p] = None]
  /\ source' = [source EXCEPT ![p] = None]
  /\ toRestore' = [toRestore EXCEPT ![p] = {}]
  /\ written' = [written EXCEPT ![p] = {}]

Replace(p) ==
  /\ pc[p] = "replace" /\ tmp[p] \in files
  /\ complete' = complete \cup {OutputFile(out[p])}
  /\ published' = [published EXCEPT ![OutputFile(out[p])] = rows[tmp[p]]]
  /\ files' = files \ {tmp[p]}
  /\ pc' = [pc EXCEPT ![p] = "unlink"]
  /\ UNCHANGED <<name, rows, rank, out, tmp, source, toRestore, written, bounds>>

\* Another pod has resumed from this file, and removed it: FileNotFoundError.
ReplaceFails(p) ==
  /\ pc[p] = "replace" /\ tmp[p] \notin files
  /\ PodEnds(p)
  /\ UNCHANGED <<outputVars, fileVars, bounds>>

\* Plausible mistake: a part removes the shard's file that it resumed from.
DropsAnySource(p) == TRUE

\* should_keep_resume_source: only a file of the same output is removed.
DropsSource(p) == source[p] \in files /\ name[source[p]] = OutputFile(out[p])

Unlink(p) ==
  /\ pc[p] = "unlink"
  /\ files' = IF DropsSource(p) THEN files \ {source[p]} ELSE files
  /\ PodEnds(p)
  /\ UNCHANGED <<outputVars, name, rows, rank, bounds>>

\* The pod is killed; what has not reached the file is lost.
Kill(p) ==
  /\ pc[p] # "down" /\ kills < MaxKills
  /\ kills' = kills + 1
  /\ PodEnds(p)
  /\ UNCHANGED <<outputVars, fileVars, runs, extra>>

(***************************************************************************)
(* A fetch raises what fetch_articlemeta_row does not catch, as it does    *)
(* for an answer that is not UTF-8: the file is closed, and the run ends.  *)
(***************************************************************************)
FetchFails(p) ==
  /\ pc[p] = "write" /\ kills < MaxKills
  /\ toRestore[p] = {} /\ MissingRows(p) # {}
  /\ kills' = kills + 1
  /\ FlushTo(tmp[p], written[p])
  /\ PodEnds(p)
  /\ UNCHANGED <<outputVars, files, name, runs, extra>>

Work(p) ==
  \/ Open(p)
  \/ \E k \in Key : Restore(p, k) \/ FetchRow(p, k)
  \/ Close(p) \/ Replace(p) \/ ReplaceFails(p) \/ Unlink(p)

Next ==
  \E p \in Pod :
    \/ \E o \in Submitted, resume \in BOOLEAN : Start(p, o, resume)
    \/ Work(p) \/ Flush(p)
    \/ Kill(p) \/ FetchFails(p)

Spec == Init /\ [][Next]_vars

\* Requests have time limits, and outputs that are missing are submitted.
FairSpec ==
  /\ Spec
  /\ \A p \in Pod : WF_vars(Work(p))
  /\ \A o \in Submitted : WF_vars(\E p \in Pod : Start(p, o, TRUE))

(***************************************************************************)
(* Properties.                                                             *)
(***************************************************************************)

(***************************************************************************)
(* An output that exists has the rows of its own keys, and all of them,    *)
(* whatever its run restored, from whichever file, beside whichever pods:  *)
(* fetch_articlemeta.py takes its existence for completeness.              *)
(***************************************************************************)
OutputComplete == \A o \in complete : published[o] = Selected(o)

\* The rows of o that a later run or a reader can get at.
Retained(o) ==
  published[o] \cup UNION {rows[t] : t \in {u \in files : name[u] = o}}

(***************************************************************************)
(* A row that has reached a file is never lost again: temporary files go   *)
(* only when the output that they were made for has their rows, also when  *)
(* another pod or a part has resumed from them.                            *)
(***************************************************************************)
RowsRetained == [][\A o \in Output : Retained(o) \subseteq Retained(o)']_vars

\* With finitely many kills, all outputs get published.
EventuallyPublished == <>[](\A o \in Submitted : OutputFile(o) \in complete)

(***************************************************************************)
(* The inductive invariant of the proofs: files and pods have no rows but  *)
(* those of the output they are for, a pod has a file of its own, with     *)
(* nothing in it that the pod does not have, and it renames a full one.    *)
(***************************************************************************)
FilesOK ==
  /\ \A t \in Tmp : t > runs => t \notin files /\ rows[t] = {}
  /\ \A t \in Tmp : t <= runs =>
       name[t] \in Output /\ rows[t] \subseteq Selected(name[t])

OutputsOK == \A o \in Output : o \notin complete => published[o] = {}

PodOK(p) ==
  /\ pc[p] = "down" => toRestore[p] = {} /\ written[p] = {}
  /\ pc[p] # "down" =>
       /\ tmp[p] <= runs /\ name[tmp[p]] = OutputFile(out[p])
       /\ toRestore[p] \cup written[p] \subseteq Selected(out[p])
       /\ rows[tmp[p]] \subseteq written[p]
  /\ pc[p] = "replace" => rows[tmp[p]] = Selected(out[p])
  /\ pc[p] = "unlink" => OutputFile(out[p]) \in complete

OwnTmp ==
  \A p, q \in Pod :
    p # q /\ pc[p] # "down" /\ pc[q] # "down" => tmp[p] # tmp[q]

IInv ==
  /\ TypeOK
  /\ OutputComplete
  /\ FilesOK /\ OutputsOK /\ OwnTmp
  /\ \A p \in Pod : PodOK(p)

\* What the proofs assume, except those of the types.
SeveralShards == ~SingleShard
===============================================================================

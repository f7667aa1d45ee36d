------------------------- MODULE FetchArticleMetaProofs -------------------------
(***************************************************************************)
(* Proofs about FetchArticleMeta, for any keys and parts, any number of    *)
(* pods, kills and runs beside each other, with and without resumption,    *)
(* when the shard is one of several.                                       *)
(***************************************************************************)
EXTENDS FetchArticleMeta, FiniteSetTheorems, TLAPS

\* The constants' assumptions, and the type of the numbers of the files.
LEMMA TmpFacts ==
  /\ Tmp \subseteq Nat \ {0} /\ None \notin Tmp /\ None \notin Output
  /\ Base \in Output /\ Submitted \subseteq Output
  /\ MaxRuns \in Nat
BY BaseAssumption, SubmittedAssumption, BoundsAssumption, NoneAssumption
DEF Tmp, Output

\* newest_resume_tmp compares modification times: Touched keeps an order.
LEMMA TouchedType ==
  ASSUME TypeOK, NEW t \in Tmp
  PROVE  Touched(t) \in [Tmp -> Nat]
<1> DEFINE c == Cardinality({v \in Tmp \ {t} : rank[v] > 0})
<1>1. IsFiniteSet(Tmp)
  BY BoundsAssumption, FS_Interval DEF Tmp
<1>2. c \in Nat
  BY <1>1, FS_Subset, FS_CardinalityType
<1>3. \A u \in Tmp : rank[u] \in Nat
  BY DEF TypeOK
<1>4. \A u \in Tmp : 0 < rank[t] /\ rank[t] < rank[u] => rank[u] - 1 \in Nat
  BY <1>3
<1>5. Touched(t) =
        [u \in Tmp |-> IF u = t THEN c + 1
                       ELSE IF 0 < rank[t] /\ rank[t] < rank[u] THEN rank[u] - 1
                       ELSE rank[u]]
  BY DEF Touched
<1> HIDE DEF c
<1> QED
  BY <1>2, <1>3, <1>4, <1>5

\* What a run resumes from is a temporary file, or nothing.
LEMMA SourceType ==
  ASSUME TypeOK, NEW o \in Output
  PROVE  ResumeSource(o) \subseteq Tmp \cup {None}
BY TmpFacts DEF ResumeSource, Newest, Candidates, TypeOK

\* A new corpus: no output, no temporary file.
LEMMA InitInv == Init => IInv
<1> SUFFICES ASSUME Init PROVE IInv
  OBVIOUS
<1> USE TmpFacts DEF SeveralShards, OutputFile
<1>1. TypeOK
  BY DEF Init, TypeOK
<1>2. OutputComplete /\ OutputsOK
  BY DEF Init, OutputComplete, OutputsOK
<1>3. FilesOK
  BY DEF Init, FilesOK
<1>4. OwnTmp /\ \A p \in Pod : PodOK(p)
  BY DEF Init, OwnTmp, PodOK
<1> QED
  BY <1>1, <1>2, <1>3, <1>4 DEF IInv

(***************************************************************************)
(* A pod that ends, killed or not: the files are as they were, or some of  *)
(* them go, or its own file is closed with what it has written.            *)
(***************************************************************************)
LEMMA EndInv ==
  ASSUME SeveralShards, IInv, NEW p \in Pod, PodEnds(p), files' \subseteq files,
         \/ UNCHANGED <<rows, rank>>
         \/ pc[p] # "down" /\ FlushTo(tmp[p], written[p]),
         UNCHANGED <<outputVars, name, runs, extra>>, kills' \in Nat
  PROVE  IInv'
<1> USE TmpFacts DEF SeveralShards, OutputFile
<1>1. PodOK(p) /\ TypeOK
  BY DEF IInv
<1>2. /\ rows' \in [Tmp -> SUBSET Key] /\ rank' \in [Tmp -> Nat]
      /\ \A t \in Tmp :
           \/ rows'[t] = rows[t]
           \/ /\ pc[p] # "down" /\ t = tmp[p] /\ rows'[t] = written[p]
              /\ name[t] = out[p] /\ t <= runs
  <2>1. CASE UNCHANGED <<rows, rank>>
    BY <1>1, <2>1 DEF TypeOK
  <2>2. CASE pc[p] # "down" /\ FlushTo(tmp[p], written[p])
    <3>1. tmp[p] \in Tmp
      BY <1>1, <2>2 DEF TypeOK
    <3>2. rank' \in [Tmp -> Nat]
      BY <1>1, <2>2, <3>1, TouchedType DEF FlushTo
    <3>3. rows' \in [Tmp -> SUBSET Key]
      BY <1>1, <2>2 DEF FlushTo, TypeOK
    <3>4. \A t \in Tmp \ {tmp[p]} : rows'[t] = rows[t]
      BY <1>1, <2>2 DEF FlushTo, TypeOK
    <3>5. rows'[tmp[p]] = written[p] /\ name[tmp[p]] = out[p] /\ tmp[p] <= runs
      BY <1>1, <2>2, <3>1 DEF FlushTo, TypeOK, PodOK
    <3> QED
      BY <2>2, <3>2, <3>3, <3>4, <3>5
  <2> QED
    BY <2>1, <2>2
<1>3. TypeOK'
  BY <1>1, <1>2 DEF TypeOK, PodEnds, outputVars
<1>4. OutputComplete' /\ OutputsOK'
  BY DEF IInv, OutputComplete, OutputsOK, outputVars, Selected
<1>5. FilesOK'
  <2>1. \A t \in Tmp : t > runs => rows'[t] = rows[t]
    BY <1>1, <1>2 DEF TypeOK
  <2>2. \A t \in Tmp : t <= runs => rows'[t] \subseteq Selected(name[t])
    BY <1>1, <1>2 DEF IInv, FilesOK, PodOK, Selected
  <2> QED
    BY <2>1, <2>2 DEF IInv, FilesOK, Selected
<1>6. /\ pc'[p] = "down" /\ toRestore'[p] = {} /\ written'[p] = {}
      /\ \A q \in Pod \ {p} :
           /\ pc'[q] = pc[q] /\ out'[q] = out[q] /\ tmp'[q] = tmp[q]
           /\ toRestore'[q] = toRestore[q] /\ written'[q] = written[q]
  BY <1>1 DEF TypeOK, PodEnds
<1>7. OwnTmp'
  BY <1>6 DEF IInv, OwnTmp
<1>8. PodOK(p)'
  BY <1>6 DEF PodOK
<1>9. ASSUME NEW q \in Pod \ {p} PROVE PodOK(q)'
  <2>1. pc[q] # "down" => rows'[tmp[q]] = rows[tmp[q]]
    BY <1>1, <1>2 DEF IInv, OwnTmp, TypeOK
  <2> QED
    BY <1>6, <2>1 DEF IInv, PodOK, outputVars, Selected
<1> QED
  BY <1>3, <1>4, <1>5, <1>7, <1>8, <1>9 DEF IInv

\* A run makes a new file, which no other pod has (unique_tmp_path).
LEMMA StartInv ==
  ASSUME SeveralShards, IInv, NEW p \in Pod, NEW o \in Output, NEW resume \in BOOLEAN,
         Start(p, o, resume)
  PROVE  IInv'
<1> USE TmpFacts DEF SeveralShards, OutputFile
<1> DEFINE new == runs + 1
<1>1. new \in Tmp /\ runs \in Nat
  BY DEF IInv, TypeOK, Start, Tmp
<1>2. /\ pc'[p] = "open" /\ out'[p] = o /\ tmp'[p] = new
      /\ \A q \in Pod \ {p} : pc'[q] = pc[q] /\ out'[q] = out[q] /\ tmp'[q] = tmp[q]
      /\ name' = [name EXCEPT ![new] = o]
      /\ name'[new] = o
      /\ \A t \in Tmp \ {new} : name'[t] = name[t]
      /\ files' = files \cup {new} /\ runs' = new
      /\ UNCHANGED <<outputVars, rows, rank, toRestore, written, kills>>
      /\ toRestore[p] = {} /\ written[p] = {} /\ rows[new] = {}
  BY <1>1 DEF IInv, TypeOK, Start, PodOK, FilesOK
<1>3. TypeOK'
  <2>1. source' \in [Pod -> Tmp \cup {None}]
    <3>1. PICK s \in IF resume THEN ResumeSource(o) ELSE {None} :
                 source' = [source EXCEPT ![p] = s]
      BY DEF Start
    <3>2. s \in Tmp \cup {None}
      BY <3>1, SourceType DEF IInv
    <3> QED
      BY <3>1, <3>2 DEF IInv, TypeOK
  <2>2. /\ out' = [out EXCEPT ![p] = o] /\ tmp' = [tmp EXCEPT ![p] = new]
        /\ pc' = [pc EXCEPT ![p] = "open"] /\ extra' \in {extra, extra + 1}
        /\ runs' <= MaxRuns
    BY <1>1 DEF Start, Tmp
  <2> QED
    BY <1>1, <1>2, <2>1, <2>2 DEF IInv, TypeOK, outputVars
<1>4. OutputComplete' /\ OutputsOK'
  BY <1>2 DEF IInv, OutputComplete, OutputsOK, outputVars, Selected
<1>5. FilesOK'
  <2>1. \A t \in Tmp : t <= new => t <= runs \/ t = new
    BY <1>1
  <2> QED
    BY <1>1, <1>2, <2>1 DEF IInv, FilesOK, Selected
<1>6. \A q \in Pod : pc[q] # "down" => tmp[q] \in Tmp /\ tmp[q] <= runs
  BY DEF IInv, TypeOK, PodOK
<1>7. OwnTmp'
  <2>1. \A q \in Pod : pc[q] # "down" => tmp[q] # new
    BY <1>1, <1>6
  <2> QED
    BY <1>2, <2>1 DEF IInv, OwnTmp
<1>8. PodOK(p)'
  BY <1>1, <1>2 DEF PodOK, Selected
<1>9. ASSUME NEW q \in Pod \ {p} PROVE PodOK(q)'
  <2>1. q \in Pod
    OBVIOUS
  <2>2. pc[q] # "down" => tmp[q] \in Nat /\ tmp[q] <= runs
    BY <1>6, <2>1
  <2>3. pc[q] # "down" => tmp[q] # new /\ tmp[q] <= new
    BY <1>1, <2>2
  <2>4. pc[q] # "down" => name'[tmp[q]] = name[tmp[q]]
    BY <1>2, <1>6, <2>1, <2>3
  <2>5. PodOK(q)
    BY DEF IInv
  <2>6. /\ pc'[q] = pc[q] /\ out'[q] = out[q] /\ tmp'[q] = tmp[q]
        /\ toRestore'[q] = toRestore[q] /\ written'[q] = written[q]
        /\ rows' = rows /\ complete' = complete /\ runs' = new
    BY <1>2 DEF outputVars
  <2> HIDE DEF new
  <2> QED
    BY <2>3, <2>4, <2>5, <2>6 DEF PodOK, Selected
<1> QED
  BY <1>3, <1>4, <1>5, <1>7, <1>8, <1>9 DEF IInv

(***************************************************************************)
(* The steps of a running pod that change no file.                         *)
(***************************************************************************)
LEMMA MemoryInv ==
  ASSUME SeveralShards, IInv, NEW p \in Pod,
         Open(p) \/ \E k \in Key : Restore(p, k) \/ FetchRow(p, k)
  PROVE  IInv'
<1> USE TmpFacts DEF SeveralShards, OutputFile
<1> DEFINE Kept ==
      /\ UNCHANGED <<outputVars, fileVars, out, tmp, source, bounds>>
      /\ pc[p] \in {"open", "write"} /\ pc'[p] = "write"
      /\ toRestore'[p] \cup written'[p] \subseteq Selected(out[p])
      /\ written[p] \subseteq written'[p]
      /\ toRestore' \in [Pod -> SUBSET Key] /\ written' \in [Pod -> SUBSET Key]
      /\ pc' \in [Pod -> {"down", "open", "write", "replace", "unlink"}]
      /\ \A q \in Pod \ {p} : /\ pc'[q] = pc[q]
                              /\ toRestore'[q] = toRestore[q]
                              /\ written'[q] = written[q]
<1>1. Kept
  <2> PodOK(p) /\ TypeOK
    BY DEF IInv
  <2>1. CASE Open(p)
    <3>1. rows[source[p]] \cap Selected(out[p]) \subseteq Key
      BY DEF Selected
    <3> QED
      BY <2>1, <3>1 DEF Open, TypeOK, PodOK
  <2>2. ASSUME NEW k \in Key, Restore(p, k) PROVE Kept
    BY <2>2 DEF Restore, TypeOK, PodOK
  <2>3. ASSUME NEW k \in Key, FetchRow(p, k) PROVE Kept
    BY <2>3 DEF FetchRow, MissingRows, TypeOK, PodOK
  <2> QED
    BY <2>1, <2>2, <2>3
<1>2. TypeOK'
  BY <1>1 DEF IInv, TypeOK, outputVars, fileVars, bounds
<1>3. OutputComplete' /\ OutputsOK' /\ FilesOK'
  BY <1>1 DEF IInv, OutputComplete, OutputsOK, FilesOK, Selected, outputVars,
              fileVars, bounds
<1>4. OwnTmp'
  BY <1>1 DEF IInv, OwnTmp
<1>5. PodOK(p)'
  BY <1>1 DEF IInv, PodOK, Selected, fileVars, bounds
<1>6. ASSUME NEW q \in Pod \ {p} PROVE PodOK(q)'
  <2>1. PodOK(q)
    BY DEF IInv
  <2>2. /\ pc'[q] = pc[q]
        /\ toRestore'[q] = toRestore[q] /\ written'[q] = written[q]
        /\ UNCHANGED <<name, rows, complete, out, tmp, runs>>
    BY <1>1 DEF fileVars, outputVars, bounds
  <2> QED
    BY <2>1, <2>2 DEF PodOK, Selected
<1> QED
  BY <1>2, <1>3, <1>4, <1>5, <1>6 DEF IInv

(***************************************************************************)
(* What is written reaches the file of a pod, which has no other pod's     *)
(* rows in it.                                                             *)
(***************************************************************************)
LEMMA FlushInv ==
  ASSUME SeveralShards, IInv, NEW p \in Pod, pc[p] = "write", FlushTo(tmp[p], written[p]),
         UNCHANGED <<outputVars, files, name, podVars, bounds>>
  PROVE  IInv'
<1> USE TmpFacts DEF SeveralShards, OutputFile
<1>1. tmp[p] \in Tmp /\ PodOK(p) /\ TypeOK
  BY DEF IInv, TypeOK
<1>2. rank' \in [Tmp -> Nat]
  BY <1>1, TouchedType DEF FlushTo
<1>3. TypeOK'
  BY <1>1, <1>2
  DEF TypeOK, FlushTo, outputVars, podVars, bounds
<1>4. /\ rows'[tmp[p]] = written[p]
      /\ \A t \in Tmp \ {tmp[p]} : rows'[t] = rows[t]
      /\ tmp[p] <= runs
  BY <1>1 DEF FlushTo, TypeOK, PodOK
<1>5. OutputComplete' /\ OutputsOK'
  BY DEF IInv, OutputComplete, OutputsOK, Selected, outputVars
<1>6. FilesOK'
  BY <1>1, <1>4 DEF IInv, FilesOK, Selected, bounds, PodOK, TypeOK
<1>7. OwnTmp'
  BY DEF IInv, OwnTmp, podVars
<1>8. PodOK(p)'
  BY <1>1, <1>4 DEF PodOK, Selected, podVars, bounds
<1>9. ASSUME NEW q \in Pod \ {p} PROVE PodOK(q)'
  <2>1. pc[q] # "down" => rows'[tmp[q]] = rows[tmp[q]]
    BY <1>1, <1>4 DEF IInv, OwnTmp, TypeOK
  <2> QED
    BY <2>1 DEF IInv, PodOK, Selected, podVars, bounds, outputVars
<1> QED
  BY <1>3, <1>5, <1>6, <1>7, <1>8, <1>9 DEF IInv

\* A pod that closes its file has all rows of its output in it.
LEMMA CloseInv ==
  ASSUME SeveralShards, IInv, NEW p \in Pod, Close(p)
  PROVE  IInv'
<1> USE TmpFacts DEF SeveralShards, OutputFile
<1>1. tmp[p] \in Tmp /\ PodOK(p) /\ TypeOK
  BY DEF IInv, TypeOK, Close
<1>2. rank' \in [Tmp -> Nat]
  BY <1>1, TouchedType DEF FlushTo, Close
<1>3. TypeOK'
  BY <1>1, <1>2 DEF TypeOK, FlushTo, Close, outputVars, bounds
<1>4. /\ rows'[tmp[p]] = written[p]
      /\ \A t \in Tmp \ {tmp[p]} : rows'[t] = rows[t]
      /\ tmp[p] <= runs
      /\ pc'[p] = "replace"
      /\ \A q \in Pod \ {p} : pc'[q] = pc[q]
  BY <1>1 DEF FlushTo, TypeOK, PodOK, Close
<1>5. OutputComplete' /\ OutputsOK'
  BY DEF IInv, OutputComplete, OutputsOK, Selected, outputVars, Close
<1>6. FilesOK'
  BY <1>1, <1>4 DEF IInv, FilesOK, Selected, bounds, PodOK, TypeOK, Close
<1>7. OwnTmp'
  BY <1>1, <1>4 DEF IInv, OwnTmp, Close
<1>8. PodOK(p)'
  <2>1. written[p] = Selected(out[p])
    BY <1>1 DEF Close, PodOK, MissingRows
  <2>2. UNCHANGED <<name, out, tmp, toRestore, written, runs>>
    BY DEF Close, bounds
  <2> QED
    BY <1>1, <1>4, <2>1, <2>2 DEF PodOK, Selected, Close
<1>9. ASSUME NEW q \in Pod \ {p} PROVE PodOK(q)'
  <2>1. pc[q] # "down" => rows'[tmp[q]] = rows[tmp[q]]
    BY <1>1, <1>4 DEF IInv, OwnTmp, TypeOK, Close
  <2> QED
    BY <1>4, <2>1 DEF IInv, PodOK, Selected, bounds, outputVars, Close
<1> QED
  BY <1>3, <1>5, <1>6, <1>7, <1>8, <1>9 DEF IInv

\* tmp.replace(output): what is published is a full file.
LEMMA ReplaceInv ==
  ASSUME SeveralShards, IInv, NEW p \in Pod, Replace(p)
  PROVE  IInv'
<1> USE TmpFacts DEF SeveralShards, OutputFile
<1>1. tmp[p] \in Tmp /\ PodOK(p) /\ TypeOK /\ out[p] \in Output
  BY DEF IInv, TypeOK, Replace
<1>2. /\ rows[tmp[p]] = Selected(out[p])
      /\ pc[p] = "replace" /\ pc'[p] = "unlink"
      /\ \A q \in Pod \ {p} : pc'[q] = pc[q]
      /\ complete' = complete \cup {out[p]}
      /\ published'[out[p]] = rows[tmp[p]]
      /\ \A o \in Output \ {out[p]} : published'[o] = published[o]
      /\ files' \subseteq files
      /\ UNCHANGED <<name, rows, rank, out, tmp, source, toRestore, written, bounds>>
  BY <1>1 DEF Replace, PodOK, TypeOK
<1>3. TypeOK'
  BY <1>1, <1>2 DEF TypeOK, Replace, bounds
<1>4. OutputComplete' /\ OutputsOK'
  <2>1. \A o \in Output : Selected(o)' = Selected(o)
    BY DEF Selected
  <2>2. complete \subseteq Output
    BY <1>1 DEF TypeOK
  <2>3. ASSUME NEW o \in complete' PROVE published'[o] = Selected(o)
    <3>1. CASE o = out[p]
      BY <1>2, <3>1
    <3>2. CASE o # out[p]
      BY <1>2, <2>2, <3>2 DEF IInv, OutputComplete
    <3> QED
      BY <3>1, <3>2
  <2>4. ASSUME NEW o \in Output, o \notin complete' PROVE published'[o] = {}
    BY <1>2, <2>4 DEF IInv, OutputsOK
  <2>5. complete' \subseteq Output
    BY <1>1, <1>2, <2>2
  <2> QED
    BY <2>1, <2>3, <2>4, <2>5 DEF OutputComplete, OutputsOK
<1>5. FilesOK'
  BY <1>2 DEF IInv, FilesOK, Selected, bounds
<1>6. OwnTmp'
  BY <1>2 DEF IInv, OwnTmp
<1>7. PodOK(p)'
  BY <1>1, <1>2 DEF PodOK, Selected, bounds
<1>8. ASSUME NEW q \in Pod \ {p} PROVE PodOK(q)'
  <2>1. PodOK(q)
    BY DEF IInv
  <2>2. /\ pc'[q] = pc[q] /\ runs' = runs /\ complete \subseteq complete'
        /\ UNCHANGED <<name, rows, out, tmp, toRestore, written>>
    BY <1>2 DEF bounds
  <2> QED
    BY <2>1, <2>2 DEF PodOK, Selected
<1> QED
  BY <1>3, <1>4, <1>5, <1>6, <1>7, <1>8 DEF IInv

\* Every step keeps the invariant.
LEMMA NextInv ==
  ASSUME SeveralShards, IInv, [Next]_vars
  PROVE  IInv'
<1>1. ASSUME UNCHANGED vars PROVE IInv'
  <2> USE <1>1 DEF vars, outputVars, fileVars, podVars, bounds
  <2>1. TypeOK'
    BY DEF IInv, TypeOK
  <2>2. OutputComplete' /\ OutputsOK' /\ FilesOK'
    BY DEF IInv, OutputComplete, OutputsOK, FilesOK, Selected
  <2>3. OwnTmp' /\ \A p \in Pod : PodOK(p)'
    BY DEF IInv, OwnTmp, PodOK, Selected
  <2> QED
    BY <2>1, <2>2, <2>3 DEF IInv
<1>2. ASSUME NEW p \in Pod, NEW o \in Submitted, NEW resume \in BOOLEAN,
             Start(p, o, resume)
      PROVE  IInv'
  BY <1>2, StartInv, TmpFacts
<1>3. ASSUME NEW p \in Pod, Work(p) PROVE IInv'
  <2>1. CASE Open(p) \/ \E k \in Key : Restore(p, k) \/ FetchRow(p, k)
    BY <2>1, MemoryInv
  <2>2. CASE Close(p)
    BY <2>2, CloseInv
  <2>3. CASE Replace(p)
    BY <2>3, ReplaceInv
  <2>4. CASE ReplaceFails(p)
    BY <2>4, EndInv DEF IInv, TypeOK, ReplaceFails, fileVars, bounds
  <2>5. CASE Unlink(p)
    <3>1. files' \subseteq files
      BY <2>5 DEF Unlink
    <3> QED
      BY <2>5, <3>1, EndInv DEF IInv, TypeOK, Unlink, bounds
  <2> QED
    BY <1>3, <2>1, <2>2, <2>3, <2>4, <2>5 DEF Work
<1>4. ASSUME NEW p \in Pod, Flush(p) PROVE IInv'
  BY <1>4, FlushInv DEF Flush
<1>5. ASSUME NEW p \in Pod, Kill(p) PROVE IInv'
  <2>1. kills' \in Nat
    BY <1>5 DEF IInv, TypeOK, Kill
  <2> QED
    BY <1>5, <2>1, EndInv DEF Kill, fileVars
<1>6. ASSUME NEW p \in Pod, FetchFails(p) PROVE IInv'
  <2>1. kills' \in Nat
    BY <1>6 DEF IInv, TypeOK, FetchFails
  <2>2. pc[p] # "down" /\ FlushTo(tmp[p], written[p]) /\ files' = files
    BY <1>6 DEF FetchFails
  <2> QED
    BY <1>6, <2>1, <2>2, EndInv DEF FetchFails
<1> QED
  BY <1>1, <1>2, <1>3, <1>4, <1>5, <1>6 DEF Next

(***************************************************************************)
(* The inductive invariant of the ArticleMeta fetch.                       *)
(***************************************************************************)
THEOREM InvCorrect ==
  ASSUME SeveralShards
  PROVE  Spec => []IInv
<1>1. Init => IInv
  BY InitInv
<1>2. IInv /\ [Next]_vars => IInv'
  BY NextInv
<1> QED
  BY <1>1, <1>2, PTL DEF Spec

\* All variables keep their types.
THEOREM TypeCorrect ==
  ASSUME SeveralShards
  PROVE  Spec => []TypeOK
<1>1. IInv => TypeOK
  BY DEF IInv
<1> QED
  BY <1>1, InvCorrect, PTL

(***************************************************************************)
(* An output that exists is complete, for whatever shards and parts.       *)
(***************************************************************************)
THEOREM OutputsCorrect ==
  ASSUME SeveralShards
  PROVE  Spec => []OutputComplete
<1>1. IInv => OutputComplete
  BY DEF IInv
<1> QED
  BY <1>1, InvCorrect, PTL

(***************************************************************************)
(* Rows of an output are given up by a step only for the output itself.    *)
(***************************************************************************)
LEMMA Keeps ==
  ASSUME NEW o,
         published[o] \subseteq published'[o],
         \A t \in files : name[t] = o =>
           \/ t \in files' /\ name'[t] = o /\ rows[t] \subseteq rows'[t]
           \/ rows[t] \subseteq published'[o]
  PROVE  Retained(o) \subseteq Retained(o)'
BY DEF Retained

\* Each step keeps every row of every output.
LEMMA NextKeeps ==
  ASSUME SeveralShards, IInv, [Next]_vars, NEW o \in Output
  PROVE  Retained(o) \subseteq Retained(o)'
<1> USE TmpFacts DEF SeveralShards, OutputFile
<1> TypeOK /\ files \subseteq Tmp
  BY DEF IInv, TypeOK
<1>1. CASE UNCHANGED vars
  BY <1>1, Keeps DEF vars, outputVars, fileVars
<1>2. ASSUME NEW p \in Pod, NEW n \in Submitted, NEW resume \in BOOLEAN,
             Start(p, n, resume)
      PROVE  Retained(o) \subseteq Retained(o)'
  <2>1. runs + 1 \notin files
    BY <1>2 DEF IInv, TypeOK, FilesOK, Start, Tmp
  <2>2. /\ UNCHANGED <<outputVars, rows>>
        /\ files \subseteq files'
        /\ \A t \in files : name'[t] = name[t]
    BY <1>2, <2>1 DEF Start, TypeOK
  <2> QED
    BY <2>2, Keeps DEF outputVars
<1>3. ASSUME NEW p \in Pod, pc[p] # "down", FlushTo(tmp[p], written[p]),
             UNCHANGED <<outputVars, files, name>>
      PROVE  Retained(o) \subseteq Retained(o)'
  <2>1. \A t \in Tmp : rows[t] \subseteq rows'[t]
    BY <1>3 DEF IInv, PodOK, FlushTo, TypeOK
  <2> QED
    BY <1>3, <2>1, Keeps DEF outputVars
<1>4. ASSUME NEW p \in Pod, Replace(p) PROVE Retained(o) \subseteq Retained(o)'
  <2>1. PodOK(p) /\ out[p] \in Output /\ tmp[p] \in Tmp
    BY <1>4 DEF IInv, TypeOK, Replace
  <2>2. published'[out[p]] = Selected(out[p]) /\ name[tmp[p]] = out[p]
    BY <1>4, <2>1 DEF Replace, PodOK, TypeOK
  <2>3. published[out[p]] \subseteq Selected(out[p])
    BY <2>1 DEF IInv, OutputComplete, OutputsOK
  <2>4. rows[tmp[p]] \subseteq published'[out[p]]
    BY <1>4, <2>1, <2>2 DEF Replace, PodOK
  <2>5. o # out[p] => published'[o] = published[o]
    BY <1>4 DEF Replace, TypeOK
  <2>6. /\ \A t \in files : t # tmp[p] => t \in files'
        /\ UNCHANGED <<name, rows>>
    BY <1>4 DEF Replace
  <2> QED
    BY <2>2, <2>3, <2>4, <2>5, <2>6, Keeps
<1>5. ASSUME NEW p \in Pod, Unlink(p) PROVE Retained(o) \subseteq Retained(o)'
  <2>1. CASE DropsSource(p)
    <3>1. out[p] \in complete /\ name[source[p]] = out[p]
      BY <1>5, <2>1 DEF IInv, PodOK, Unlink, DropsSource
    <3>2. source[p] \in Tmp /\ source[p] <= runs
      <4>1. source[p] \in files
        BY <2>1 DEF DropsSource
      <4>2. source[p] \in Tmp /\ source[p] \in Nat
        BY <4>1
      <4>3. runs \in Nat
        BY DEF TypeOK
      <4>4. ~(source[p] > runs)
        BY <4>1 DEF IInv, FilesOK
      <4> QED
        BY <4>2, <4>3, <4>4
    <3>3. rows[source[p]] \subseteq published[out[p]]
      <4>1. rows[source[p]] \subseteq Selected(name[source[p]])
        BY <3>2 DEF IInv, FilesOK
      <4>2. published[out[p]] = Selected(out[p])
        BY <3>1 DEF IInv, OutputComplete
      <4> QED
        BY <3>1, <4>1, <4>2
    <3>4. /\ \A t \in files : t # source[p] => t \in files'
          /\ UNCHANGED <<outputVars, name, rows>>
      BY <1>5, <2>1 DEF Unlink
    <3> QED
      BY <3>1, <3>3, <3>4, Keeps DEF outputVars
  <2>2. CASE ~DropsSource(p)
    BY <1>5, <2>2, Keeps DEF Unlink, outputVars
  <2> QED
    BY <2>1, <2>2
<1>6. ASSUME UNCHANGED <<outputVars, fileVars>>
      PROVE  Retained(o) \subseteq Retained(o)'
  BY <1>6, Keeps DEF outputVars, fileVars
<1>7. ASSUME NEW p \in Pod, Work(p) \/ Flush(p) \/ Kill(p) \/ FetchFails(p)
      PROVE  Retained(o) \subseteq Retained(o)'
  <2>1. CASE Close(p) \/ Flush(p) \/ FetchFails(p)
    BY <1>3, <2>1 DEF Close, Flush, FetchFails
  <2>2. CASE Open(p) \/ ReplaceFails(p) \/ Kill(p)
    BY <1>6, <2>2 DEF Open, ReplaceFails, Kill
  <2>3. CASE \E k \in Key : Restore(p, k) \/ FetchRow(p, k)
    BY <1>6, <2>3 DEF Restore, FetchRow
  <2> QED
    BY <1>4, <1>5, <1>7, <2>1, <2>2, <2>3 DEF Work
<1> QED
  BY <1>1, <1>2, <1>7 DEF Next

(***************************************************************************)
(* No row that has reached a file is lost, whatever pods are killed and    *)
(* whichever files runs resume from and remove.                            *)
(***************************************************************************)
THEOREM RowsStay ==
  ASSUME SeveralShards
  PROVE  Spec => RowsRetained
<1>1. IInv /\ [Next]_vars =>
        [\A o \in Output : Retained(o) \subseteq Retained(o)']_vars
  BY NextKeeps
<1> QED
  BY <1>1, InvCorrect, PTL DEF Spec, RowsRetained
===============================================================================

-------------------------- MODULE RepairSubtarProofs --------------------------
(***************************************************************************)
(* Proofs about RepairSubtar, for any number of rows and of repairs.       *)
(* TypeCorrect holds for all options; the others are about repairs with    *)
(* row retries and the same cap (RepairsAlike), and CopyAlways about those *)
(* without a cap (RepairsAll).  TLC finds RepairAgrees violated without    *)
(* row retries and for changing caps, and CopyAlways for any cap.          *)
(***************************************************************************)
EXTENDS RepairSubtar, FiniteSetTheorems, TLAPS

USE NumRowsAssumption, RepairOptionsAssumption, NoneAssumption

(***************************************************************************)
(* Rows.                                                                   *)
(***************************************************************************)

\* A row's payload is a package number, and there when HasPayload says so.
LEMMA PayloadType ==
  ASSUME NEW row \in RepairRow
  PROVE  /\ Payload(row) \in Nat
         /\ HasPayload(row) <=> Payload(row) # NoPackage
         /\ row.blocked => Payload(row) = NoPackage
         /\ row # None
BY DEF RepairRow, Payload, HasPayload, NoPackage

\* Blocking a row changes its flag only (mark_retry_blocked).
LEMMA BlockedType ==
  ASSUME NEW row \in RepairRow
  PROVE  /\ [row EXCEPT !.blocked = TRUE] \in RepairRow
         /\ [row EXCEPT !.blocked = TRUE].status = row.status
         /\ [row EXCEPT !.blocked = TRUE].blocked
BY DEF RepairRow

\* What a fetch gives is a row (process_row).
LEMMA FetchType ==
  ASSUME TypeOK, NEW r \in Row, NEW status \in Status
  PROVE  /\ Fetch(r, status) \in RepairRow
         /\ Fetch(r, status).status = status
         /\ ~Fetch(r, status).blocked
<1>1. (IF Packaged(status) THEN fetched[r] + 1 ELSE NoPackage) \in Nat
  BY DEF TypeOK, NoPackage
<1> QED
  BY <1>1 DEF Fetch, RepairRow

(***************************************************************************)
(* Type correctness.                                                       *)
(***************************************************************************)
LEMMA TypeInit == Init => TypeOK
<1> SUFFICES ASSUME Init PROVE TypeOK
  OBVIOUS
<1>1. manifest \in [Row -> RepairRow]
  <2>1. Published \subseteq RepairRow
    BY DEF Published, RepairRow, NoPackage
  <2> QED
    BY <2>1 DEF Init
<1>2. tar \in [Row -> Nat]
  BY <1>1, PayloadType DEF Init
<1>3. 0 \in 0 .. NumRows
  OBVIOUS
<1> QED
  BY <1>1, <1>2, <1>3 DEF Init, TypeOK, NoPackage, Phase, WritingCache

\* The end of the process leaves types behind that are right.
LEMMA EndType ==
  ASSUME TypeOK, ProcessEnds, UNCHANGED <<pairVars, fetched>>,
         incomplete' \in BOOLEAN, UNCHANGED workDirVars, runs' \in Nat
  PROVE  TypeOK'
BY DEF TypeOK, ProcessEnds, pairVars, workDirVars, Phase, WritingCache

\* The types when a repair starts (repair_subtar up to its loop).
LEMMA StartType ==
  ASSUME TypeOK, NEW o \in RepairOptions, Start(o)
  PROVE  TypeOK'
<1>1. o \in RepairOptions /\ o # None /\ o.retries \in Nat
  OBVIOUS
<1>2. TargetRows(o) \subseteq Row
  BY DEF TargetRows
<1>3. outRows' \in [Row -> RepairRow \cup {None}]
  BY DEF TypeOK, Start
<1>4. attempts' \in [Row -> Nat]
  BY <1>1 DEF TypeOK, Start, Smaller
<1> QED
  BY <1>1, <1>2, <1>3, <1>4
  DEF TypeOK, Start, pairVars, workDirVars, Phase, WritingCache

\* The types when a result is taken up (finish_attempt).
LEMMA FetchStepType ==
  ASSUME TypeOK, NEW r \in Missing, NEW status \in Status,
         Requeue(r, status) \/ Block(r, status) \/ Accept(r, status)
  PROVE  TypeOK'
<1>1. r \in Row /\ r \in 0 .. NumRows
  BY DEF Missing, Row
<1>2. fetched' \in [Row -> Nat]
  BY <1>1 DEF TypeOK, Requeue, Block, Accept, Fetched
<1>3. CASE Requeue(r, status)
  BY <1>1, <1>2, <1>3 DEF TypeOK, Requeue, Fetched, pairVars, WritingCache
<1>4. CASE Block(r, status) \/ Accept(r, status)
  <2>1. result' \in RepairRow /\ result' # None
    BY <1>1, <1>4, FetchType, BlockedType DEF Block, Accept
  <2>2. /\ cursor' = r /\ pc' = "writePayload" /\ Fetched(r)
        /\ UNCHANGED <<attempts, retriesUsed>>
    BY <1>4 DEF Block, Accept
  <2> QED
    BY <1>1, <1>2, <2>1, <2>2 DEF TypeOK, Fetched, pairVars, WritingCache, Phase
<1> QED
  BY <1>3, <1>4

\* The packages of the new tar are package numbers.
LEMMA NewPackageType ==
  ASSUME TypeOK, Drained
  PROVE  [r \in Row |-> NewPackage(r)] \in [Row -> Nat]
BY DEF TypeOK, NewPackage, NoPackage

\* Every step of the repair keeps the types.
LEMMA TypeStep == TypeOK /\ [Next]_vars => TypeOK'
<1> SUFFICES ASSUME TypeOK, [Next]_vars
             PROVE  TypeOK'
  OBVIOUS
<1>1. ASSUME NEW o \in RepairOptions, StartNothing(o) PROVE TypeOK'
  BY <1>1 DEF StartNothing, TypeOK, pairVars, workDirVars, procVars, WritingCache
<1>2. ASSUME NEW o \in RepairOptions, Start(o) PROVE TypeOK'
  BY <1>2, StartType
<1>3. CASE FetchStep
  BY <1>3, FetchStepType DEF FetchStep
<1>4. CASE WriteRowPayload
  <2>1. cursor \in Row /\ result \in RepairRow
    BY <1>4 DEF WriteRowPayload, TypeOK, WritingCache
  <2>2. rowPayload' \in [Row -> Nat]
    BY <1>4, <2>1, PayloadType DEF WriteRowPayload, TypeOK
  <2> QED
    BY <1>4, <2>1, <2>2
    DEF WriteRowPayload, TypeOK, pairVars, WritingCache, Phase
<1>5. CASE WriteRowManifest
  BY <1>5 DEF WriteRowManifest, TypeOK, pairVars, WritingCache, Phase
<1>6. CASE DropRetryState
  <2>1. 0 \in 0 .. NumRows
    OBVIOUS
  <2>2. /\ retriesUsed' \in [Row -> Nat]
        /\ outRows' \in [Row -> RepairRow \cup {None}]
    BY <1>6 DEF DropRetryState, TypeOK
  <2> QED
    BY <1>6, <2>1, <2>2 DEF DropRetryState, TypeOK, pairVars, WritingCache, Phase
<1>7. CASE ReplaceTar
  BY <1>7, NewPackageType
  DEF ReplaceTar, Drained, Missing, TypeOK, workDirVars, WritingCache, Phase
<1>9. CASE ReplaceManifest
  BY <1>9 DEF ReplaceManifest, TypeOK, workDirVars, WritingCache, Phase
<1>10. CASE MarkDone
  BY <1>10 DEF MarkDone, TypeOK, pairVars, workDirVars, WritingCache, Phase
<1>11. ASSUME NEW r \in Row, CleanFile(r) PROVE TypeOK'
  <2>1. /\ rowManifest' \in [Row -> RepairRow \cup {None}]
        /\ rowPayload' \in [Row -> Nat]
        /\ retriesUsed' \in [Row -> Nat]
    BY <1>11 DEF CleanFile, TypeOK, NoPackage
  <2> QED
    BY <1>11, <2>1 DEF CleanFile, TypeOK, pairVars, procVars, WritingCache
<1>12. CASE Finish
  BY <1>12, EndType DEF Finish, TypeOK
<1>13. CASE Crash
  BY <1>13, EndType DEF Crash, TypeOK
<1>14. CASE FailRebuild
  BY <1>14, EndType DEF FailRebuild, TypeOK
<1>15. CASE UNCHANGED vars
  BY <1>15 DEF vars, TypeOK, pairVars, workDirVars, procVars, WritingCache
<1> QED
  BY <1>1, <1>2, <1>3, <1>4, <1>5, <1>6, <1>7, <1>9, <1>10, <1>11,
     <1>12, <1>13, <1>14, <1>15
  DEF Next, Begin, Step

\* Every variable of the repair keeps its type, for all options.
THEOREM TypeCorrect == Spec => []TypeOK
BY TypeInit, TypeStep, PTL DEF Spec

(***************************************************************************)
(* The rows a repair takes.                                                *)
(***************************************************************************)

\* They are targets, and depend on the cap and the manifest only.
LEMMA TargetRowsFacts ==
  ASSUME NEW o \in RepairOptions
  PROVE  /\ TargetRows(o) \subseteq Row
         /\ \A r \in TargetRows(o) : Target(manifest[r])
         /\ manifest' = manifest => TargetRows(o)' = TargetRows(o)
         /\ RepairsAll => TargetRows(o) = {r \in Row : Target(manifest[r])}
BY DEF TargetRows, Target, RepairsAll

\* With one cap for all, a row that one repair takes is taken by every other.
LEMMA SameRows ==
  ASSUME RepairsAlike, NEW o \in RepairOptions, NEW r \in TargetRows(o)
  PROVE  Chosen(r)
BY DEF RepairsAlike, Chosen, TargetRows

\* A row that is still a target is taken again when no other became one, since
\* not more targets are before it.
LEMMA ChosenKept ==
  ASSUME NEW r \in Row, Chosen(r), Target(manifest'[r]),
         \A s \in Row : Target(manifest'[s]) => Target(manifest[s])
  PROVE  Chosen(r)'
<1> SUFFICES ASSUME NEW o \in RepairOptions PROVE r \in TargetRows(o)'
  BY DEF Chosen
<1> DEFINE all == {s \in Row : Target(manifest[s])}
           left == {s \in Row : Target(manifest'[s])}
           before == {s \in all : s < r}
           after == {s \in left : s < r}
<1>1. r \in TargetRows(o) /\ r \in left
  BY DEF Chosen
<1>2. TargetRows(o)' = IF o.maxRows = 0 THEN left
                       ELSE {q \in left : Cardinality({s \in left : s < q}) < o.maxRows}
  BY DEF TargetRows, Target
<1>3. CASE o.maxRows = 0
  BY <1>1, <1>2, <1>3
<1>4. CASE o.maxRows # 0
  <2>1. Cardinality(before) < o.maxRows
    BY <1>1, <1>4 DEF TargetRows
  <2>2. IsFiniteSet(before)
    <3>1. IsFiniteSet(Row)
      <4>1. 0 \in Int /\ NumRows - 1 \in Int
        OBVIOUS
      <4> QED BY <4>1, FS_Interval DEF Row
    <3>2. before \subseteq Row
      OBVIOUS
    <3> HIDE DEF before
    <3> QED BY <3>1, <3>2, FS_Subset
  <2>3. after \subseteq before
    OBVIOUS
  <2>4. o.maxRows \in Nat
    OBVIOUS
  <2>5. Cardinality(after) < o.maxRows
    <3> HIDE DEF before, after
    <3>1. /\ IsFiniteSet(after)
          /\ Cardinality(after) <= Cardinality(before)
      BY <2>2, <2>3, FS_Subset
    <3>2. Cardinality(after) \in Nat /\ Cardinality(before) \in Nat
      BY <2>2, <3>1, FS_CardinalityType
    <3> QED BY <2>1, <2>4, <3>1, <3>2
  <2> QED BY <1>1, <1>2, <1>4, <2>5
<1> QED BY <1>3, <1>4

(***************************************************************************)
(* The inductive invariant.                                                *)
(***************************************************************************)
LEMMA InvInit == Init => IInv
<1> SUFFICES ASSUME Init PROVE IInv
  OBVIOUS
<1>1. \A r \in Row : manifest[r].blocked => Target(manifest[r])
  BY DEF Init, Published, Target
<1>2. \A r \in Row : rowManifest[r] = None /\ Agrees(r)
  BY DEF Init, Agrees
<1> QED
  BY <1>1, <1>2, TypeInit
  DEF IInv, Init, ManifestOK, CachesOK, MismatchHealable, MemoryOK, WriteOK,
      ReplaceOK, Working, WritingCache

\* Three parts of the invariant are about the files only.
LEMMA FilesKept ==
  ASSUME IInv, UNCHANGED <<pairVars, rowManifest, rowPayload>>
  PROVE  ManifestOK' /\ CachesOK' /\ MismatchHealable'
BY DEF IInv, pairVars, ManifestOK, CachesOK, MismatchHealable, Agrees, Readable,
       Chosen, TargetRows, Target

\* A process that ends, wherever it is, leaves files that are right.
LEMMA EndInv ==
  ASSUME IInv, TypeOK', ProcessEnds, UNCHANGED <<pairVars, workDirVars>>
  PROVE  IInv'
BY FilesKept
DEF IInv, ProcessEnds, workDirVars, MemoryOK, WriteOK, ReplaceOK, Working,
    WritingCache

\* A target without a readable cache has none: the repair starts from what is on disk.
LEMMA StartInv ==
  ASSUME IInv, TypeOK', NEW o \in RepairOptions, Start(o)
  PROVE  IInv'
<1>1. /\ TargetRows(o) \subseteq Row
      /\ \A r \in TargetRows(o) : Target(manifest[r])
  BY TargetRowsFacts
<1>2. \A r \in Row : Target(manifest[r]) /\ rowManifest[r] # None => Readable(r)
  BY DEF IInv, TypeOK, CachesOK, Readable, HasPayload
<1>3. UNCHANGED <<pairVars, rowManifest, rowPayload>> /\ pc' = "loop"
  BY DEF Start, workDirVars
<1>4. MemoryOK'
  <2>1. manifest' = manifest /\ rowManifest' = rowManifest
    BY <1>3 DEF pairVars
  <2>2. targets' = TargetRows(o) /\ TargetRows(opts)' = TargetRows(o)
    BY <2>1 DEF Start, TargetRows, Target
  <2>3. \A r \in Row :
          outRows'[r] = IF r \notin targets' THEN manifest[r]
                        ELSE IF Readable(r) THEN rowManifest[r] ELSE None
    BY DEF Start
  <2> QED
    BY <1>1, <1>2, <2>1, <2>2, <2>3 DEF MemoryOK
<1> QED
  BY <1>3, <1>4, FilesKept DEF IInv, WriteOK, ReplaceOK, WritingCache

\* A requeued row changes its count only.
LEMMA RequeueInv ==
  ASSUME IInv, TypeOK', NEW r \in Missing, NEW status \in Status,
         Requeue(r, status)
  PROVE  IInv'
<1>1. /\ pc = "loop"
      /\ UNCHANGED <<pairVars, rowManifest, rowPayload, pc, targets, outRows,
                     cursor, result, opts>>
  BY DEF Requeue, Fetched
<1>2. MemoryOK'
  BY <1>1 DEF IInv, MemoryOK, Working, pairVars, TargetRows, Target
<1> QED
  BY <1>1, <1>2, FilesKept DEF IInv, WriteOK, ReplaceOK, WritingCache

\* With row retries a retryable result is blocked before it is cached.
LEMMA ResultInv ==
  ASSUME IInv, TypeOK', RepairsAlike, NEW r \in Missing, NEW status \in Status,
         Block(r, status) \/ Accept(r, status)
  PROVE  IInv'
<1>1. /\ pc = "loop" /\ pc' = "writePayload" /\ cursor' = r
      /\ UNCHANGED <<pairVars, rowManifest, rowPayload, targets, outRows, opts>>
  BY DEF Block, Accept, Fetched
<1>2. r \in Row /\ outRows[r] = None
  BY DEF Missing
<1>3. opts.retries > 0
  BY <1>1 DEF IInv, TypeOK, RepairsAlike
<1>4. Settled(result')
  <2>1. CASE Block(r, status)
    BY <1>2, <2>1, FetchType, BlockedType
    DEF Block, Settled, Target, Retryable, IInv
  <2>2. CASE Accept(r, status)
    BY <1>2, <1>3, <2>2, FetchType
    DEF Accept, Settled, Target, Retryable, IInv
  <2> QED
    BY <2>1, <2>2
<1>5. MemoryOK'
  BY <1>1 DEF IInv, MemoryOK, Working, pairVars, TargetRows, Target
<1>6. WriteOK'
  BY <1>1, <1>2, <1>4 DEF WriteOK
<1> QED
  BY <1>1, <1>5, <1>6, FilesKept DEF IInv, ReplaceOK

\* The row whose cache is being written has no cache yet, and its published
\* package is right.
LEMMA CursorRow ==
  ASSUME IInv, RepairsAlike, WritingCache
  PROVE  /\ cursor \in targets /\ cursor \in Row
         /\ Target(manifest[cursor]) /\ Chosen(cursor)
         /\ pc # "dropRetryState" => rowManifest[cursor] = None /\ Agrees(cursor)
         /\ Working
<1>1. Working /\ cursor \in Row /\ outRows[cursor] = None
  BY DEF IInv, TypeOK, WriteOK, WritingCache, Working
<1>2. manifest[cursor] # None
  BY <1>1 DEF IInv, TypeOK
<1>3. cursor \in targets
  BY <1>1, <1>2 DEF IInv, MemoryOK
<1>4. cursor \in TargetRows(opts) /\ opts \in RepairOptions
  BY <1>1, <1>3 DEF IInv, TypeOK, MemoryOK, Working
<1>5. Target(manifest[cursor]) /\ Chosen(cursor)
  BY <1>4, TargetRowsFacts, SameRows
<1>6. pc # "dropRetryState" => rowManifest[cursor] = None
  BY <1>1, <1>3 DEF IInv, MemoryOK
<1> QED
  BY <1>1, <1>3, <1>5, <1>6 DEF IInv, MismatchHealable, Readable

\* A payload is written where no cache is that it could be paired with.
LEMMA WriteRowPayloadInv ==
  ASSUME IInv, TypeOK', RepairsAlike, WriteRowPayload
  PROVE  IInv'
<1>1. /\ pc = "writePayload" /\ pc' = "writeRowManifest"
      /\ WritingCache /\ WritingCache' /\ Working /\ Working'
      /\ UNCHANGED <<tar, manifest, rowManifest, opts, targets, outRows, cursor,
                     result>>
  BY DEF WriteRowPayload, WritingCache, Working, pairVars
<1>2. /\ rowPayload'[cursor] = Payload(result)
      /\ \A r \in Row : r # cursor => rowPayload'[r] = rowPayload[r]
  BY <1>1, CursorRow DEF WriteRowPayload, IInv, TypeOK
<1>3. rowManifest[cursor] = None /\ Agrees(cursor)
  BY <1>1, CursorRow
<1>4. CachesOK'
  BY <1>1, <1>2, <1>3 DEF IInv, CachesOK, Chosen, TargetRows, Target
<1>5. MismatchHealable'
  BY <1>1, <1>2, <1>3 DEF IInv, MismatchHealable, Agrees, Readable
<1>6. MemoryOK'
  BY <1>1 DEF IInv, MemoryOK, TargetRows, Target
<1>7. WriteOK'
  BY <1>1, <1>2 DEF IInv, WriteOK
<1> QED
  BY <1>1, <1>4, <1>5, <1>6, <1>7 DEF IInv, ManifestOK, ReplaceOK

\* A row manifest is written beside its own payload.
LEMMA WriteRowManifestInv ==
  ASSUME IInv, TypeOK', RepairsAlike, WriteRowManifest
  PROVE  IInv'
<1>1. /\ pc = "writeRowManifest" /\ pc' = "dropRetryState"
      /\ WritingCache /\ WritingCache' /\ Working /\ Working'
      /\ UNCHANGED <<tar, manifest, rowPayload, opts, targets, outRows, cursor,
                     result>>
  BY DEF WriteRowManifest, WritingCache, Working, pairVars
<1>2. /\ rowManifest'[cursor] = result
      /\ \A r \in Row : r # cursor => rowManifest'[r] = rowManifest[r]
  BY <1>1, CursorRow DEF WriteRowManifest, IInv, TypeOK
<1>3. rowManifest[cursor] = None /\ Agrees(cursor) /\ Chosen(cursor)
  BY <1>1, CursorRow
<1>4. Settled(result) /\ rowPayload[cursor] = Payload(result)
      /\ outRows[cursor] = None
  BY <1>1 DEF IInv, WriteOK
<1>5. CachesOK'
  <2>1. \A r \in Row : Chosen(r)' <=> Chosen(r)
    BY <1>1 DEF Chosen, TargetRows, Target
  <2> QED
    BY <1>1, <1>2, <1>3, <1>4, <2>1 DEF IInv, CachesOK, Payload
<1>6. MismatchHealable'
  BY <1>1, <1>2, <1>3 DEF IInv, MismatchHealable, Agrees, Readable
<1>7. MemoryOK'
  BY <1>1, <1>2, <1>4 DEF IInv, MemoryOK, TargetRows, Target
<1>8. WriteOK'
  BY <1>1, <1>2, <1>4 DEF WriteOK
<1> QED
  BY <1>1, <1>5, <1>6, <1>7, <1>8 DEF IInv, ManifestOK, ReplaceOK

\* The row that is taken into out_rows is the one that was cached.
LEMMA DropRetryStateInv ==
  ASSUME IInv, TypeOK', RepairsAlike, DropRetryState
  PROVE  IInv'
<1>1. /\ pc = "dropRetryState" /\ pc' = "loop"
      /\ WritingCache /\ Working /\ Working'
      /\ UNCHANGED <<pairVars, rowManifest, rowPayload, opts, targets>>
  BY DEF DropRetryState, WritingCache, Working
<1>2. cursor \in Row /\ cursor \in targets /\ rowManifest[cursor] = result
      /\ result # None
  BY <1>1, CursorRow DEF IInv, WriteOK, TypeOK
<1>3. /\ outRows'[cursor] = rowManifest[cursor]
      /\ \A r \in Row : r # cursor => outRows'[r] = outRows[r]
  BY <1>2 DEF DropRetryState, IInv, TypeOK
<1>4. MemoryOK'
  <2>1. TargetRows(opts)' = TargetRows(opts) /\ manifest' = manifest
    BY <1>1 DEF pairVars, TargetRows, Target
  <2>2. /\ targets = TargetRows(opts)
        /\ \A r \in Row \ targets : outRows[r] = manifest[r]
        /\ \A r \in targets : outRows[r] \in {None, rowManifest[r]}
        /\ \A r \in targets : outRows[r] = None /\ rowManifest[r] # None =>
             pc = "dropRetryState" /\ r = cursor
    BY <1>1 DEF IInv, MemoryOK
  <2>3. targets \subseteq Row
    BY DEF IInv, TypeOK
  <2> QED
    BY <1>1, <1>2, <1>3, <2>1, <2>2, <2>3 DEF MemoryOK
<1> QED
  BY <1>1, <1>4, FilesKept DEF IInv, WriteOK, ReplaceOK, WritingCache

\* The rows in memory that are not repaired are those of the manifest.
LEMMA RowsInMemory ==
  ASSUME IInv, Working, NEW r \in Row, outRows[r] # None
  PROVE  /\ r \in targets => /\ Target(manifest[r])
                             /\ outRows[r] = rowManifest[r]
         /\ r \notin targets => outRows[r] = manifest[r]
         /\ Target(manifest[r]) /\ rowManifest[r] # None => r \in targets
<1>1. opts \in RepairOptions /\ targets = TargetRows(opts)
  BY DEF IInv, TypeOK, MemoryOK, Working
<1>2. r \in targets => Target(manifest[r])
  BY <1>1, TargetRowsFacts
<1>3. Target(manifest[r]) /\ rowManifest[r] # None => r \in targets
  BY <1>1 DEF IInv, CachesOK, Chosen
<1> QED
  BY <1>2, <1>3 DEF IInv, MemoryOK

\* The new tar has what the rows in memory say, if nothing fails to be copied.
LEMMA NewPackages ==
  ASSUME IInv, Drained, CanCopy, NEW r \in Row
  PROVE  /\ outRows[r] # None /\ NewPackage(r) = Payload(outRows[r])
         /\ r \in targets => Target(manifest[r]) /\ outRows[r] = rowManifest[r]
         /\ r \notin targets => outRows[r] = manifest[r] /\ NewPackage(r) = tar[r]
<1>1. Working /\ outRows[r] # None
  BY DEF Drained, Missing, Working
<1>2. CASE r \in targets
  <2>1. Target(manifest[r]) /\ outRows[r] = rowManifest[r]
    BY <1>1, <1>2, RowsInMemory
  <2> QED
    BY <1>1, <1>2, <2>1 DEF IInv, CachesOK, NewPackage, Payload
<1>3. CASE r \notin targets
  <2>1. outRows[r] = manifest[r]
    BY <1>1, <1>3, RowsInMemory
  <2>2. tar[r] = Payload(manifest[r])
    <3>1. Target(manifest[r]) => rowManifest[r] = None
      BY <1>1, <1>3, RowsInMemory
    <3> QED
      BY <3>1 DEF IInv, MismatchHealable, Agrees, Readable
  <2>3. manifest[r].hash # NoPackage => tar[r] # NoPackage
    BY <1>3, <2>1 DEF CanCopy
  <2> QED
    BY <1>1, <1>3, <2>1, <2>2, <2>3 DEF NewPackage, Payload, HasPayload
<1> QED
  BY <1>2, <1>3

\* Without a cap only rows that are no targets are copied, and these are there.
LEMMA CopyPossible ==
  ASSUME IInv, RepairsAll, Drained
  PROVE  CanCopy
<1> SUFFICES ASSUME NEW r \in Row \ targets, outRows[r].hash # NoPackage
             PROVE  tar[r] # NoPackage
  BY DEF CanCopy
<1>1. Working /\ outRows[r] # None
  BY DEF Drained, Missing, Working
<1>2. opts \in RepairOptions /\ targets = TargetRows(opts)
  BY <1>1 DEF IInv, TypeOK, MemoryOK, Working
<1>3. ~Target(manifest[r]) /\ outRows[r] = manifest[r]
  BY <1>1, <1>2, TargetRowsFacts, RowsInMemory
<1>4. ~manifest[r].blocked /\ tar[r] = Payload(manifest[r])
  BY <1>3 DEF IInv, ManifestOK, MismatchHealable, Agrees
<1> QED
  BY <1>3, <1>4 DEF Payload, HasPayload

\* After the tar is replaced the rows that differ are targets with their caches.
LEMMA ReplaceTarInv ==
  ASSUME IInv, TypeOK', ReplaceTar
  PROVE  IInv'
<1>1. /\ Drained /\ CanCopy /\ pc = "loop" /\ pc' = "replaceManifest"
      /\ Working /\ Working' /\ ~WritingCache'
      /\ UNCHANGED <<manifest, rowManifest, rowPayload, opts, targets, outRows,
                     cursor>>
  BY DEF ReplaceTar, Drained, Working, WritingCache, workDirVars
<1>2. \A r \in Row : tar'[r] = Payload(outRows[r])
  BY <1>1, NewPackages DEF ReplaceTar
<1>3. MismatchHealable'
  <2> SUFFICES ASSUME NEW r \in Row, ~Agrees(r)'
               PROVE  /\ Target(manifest[r]) /\ Readable(r)
                      /\ tar'[r] = Payload(rowManifest[r])
    BY <1>1 DEF MismatchHealable, Readable
  <2>1. r \in targets
    <3> SUFFICES ASSUME r \notin targets PROVE FALSE
      OBVIOUS
    <3>1. tar'[r] = Payload(manifest[r])
      BY <1>1, <1>2, NewPackages
    <3> QED
      BY <1>1, <3>1 DEF Agrees
  <2>2. /\ Target(manifest[r]) /\ rowManifest[r] # None
        /\ tar'[r] = Payload(rowManifest[r])
    BY <1>1, <1>2, <2>1, NewPackages
  <2> QED
    BY <2>2 DEF IInv, CachesOK, Readable, HasPayload
<1>4. ReplaceOK'
  BY <1>1, <1>2, NewPackages DEF ReplaceOK
<1>5. MemoryOK'
  BY <1>1 DEF IInv, MemoryOK, TargetRows, Target
<1>6. ManifestOK' /\ CachesOK'
  BY <1>1 DEF IInv, ManifestOK, CachesOK, Chosen, TargetRows, Target
<1> QED
  BY <1>1, <1>3, <1>4, <1>5, <1>6 DEF IInv, WriteOK

\* After the manifest is replaced too the pair agrees on every row.
LEMMA ReplaceManifestInv ==
  ASSUME IInv, TypeOK', ReplaceManifest
  PROVE  IInv'
<1>1. /\ pc = "replaceManifest" /\ pc' = "markDone" /\ Working
      /\ ~Working' /\ ~WritingCache' /\ manifest' = outRows
      /\ UNCHANGED <<tar, rowManifest, rowPayload>>
  BY DEF ReplaceManifest, Working, WritingCache, workDirVars
<1>2. \A r \in Row : outRows[r] # None /\ tar[r] = Payload(outRows[r])
  BY <1>1 DEF IInv, ReplaceOK
<1>3. \A r \in Row : Agrees(r)'
  BY <1>1, <1>2 DEF Agrees
<1>4. ASSUME NEW r \in Row
      PROVE  \/ /\ outRows[r] = manifest[r]
                /\ Target(manifest[r]) => rowManifest[r] = None
             \/ /\ Target(manifest[r]) /\ outRows[r] = rowManifest[r]
                /\ Chosen(r) /\ Settled(rowManifest[r])
                /\ HasPayload(rowManifest[r]) => rowPayload[r] = rowManifest[r].hash
  <2>1. CASE r \in targets
    <3>1. Target(manifest[r]) /\ outRows[r] = rowManifest[r] /\ rowManifest[r] # None
      BY <1>1, <1>2, <2>1, RowsInMemory
    <3> QED
      BY <3>1 DEF IInv, CachesOK
  <2>2. CASE r \notin targets
    BY <1>1, <1>2, <2>2, RowsInMemory
  <2> QED
    BY <2>1, <2>2
<1>5. ManifestOK'
  BY <1>1, <1>4 DEF IInv, ManifestOK, Settled
<1>6. CachesOK'
  <2>1. \A s \in Row : Target(manifest'[s]) => Target(manifest[s])
    BY <1>1, <1>4
  <2> SUFFICES ASSUME NEW r \in Row, Target(manifest'[r]), rowManifest[r] # None
               PROVE  /\ Chosen(r)' /\ Settled(rowManifest[r])
                      /\ HasPayload(rowManifest[r]) =>
                           rowPayload[r] = rowManifest[r].hash
    BY <1>1 DEF CachesOK
  <2>2. /\ Chosen(r) /\ Settled(rowManifest[r])
        /\ HasPayload(rowManifest[r]) => rowPayload[r] = rowManifest[r].hash
    BY <1>1, <1>4, <2>1
  <2> QED
    BY <2>1, <2>2, ChosenKept
<1>7. MismatchHealable'
  BY <1>3 DEF MismatchHealable
<1>8. ReplaceOK'
  BY <1>1, <1>3, <1>4 DEF ReplaceOK, Settled, HasPayload
<1> QED
  BY <1>1, <1>5, <1>6, <1>7, <1>8 DEF IInv, MemoryOK, WriteOK

\* The done marker changes neither the pair nor the caches.
LEMMA MarkDoneInv ==
  ASSUME IInv, TypeOK', MarkDone
  PROVE  IInv'
<1>1. /\ pc = "markDone" /\ pc' = "clean" /\ ~Working' /\ ~WritingCache'
      /\ UNCHANGED <<pairVars, rowManifest, rowPayload>>
  BY DEF MarkDone, Working, WritingCache, workDirVars
<1>2. ReplaceOK'
  BY <1>1 DEF IInv, ReplaceOK, Agrees, pairVars
<1> QED
  BY <1>1, <1>2, FilesKept DEF IInv, MemoryOK, WriteOK

\* The caches of the targets that are left have no payload to lose.
LEMMA CleanInv ==
  ASSUME IInv, TypeOK', NEW s \in Row, CleanFile(s)
  PROVE  IInv'
<1>1. /\ pc = "clean" /\ pc' = "clean" /\ ~Working' /\ ~WritingCache'
      /\ UNCHANGED <<tar, manifest>>
  BY DEF CleanFile, Working, WritingCache, pairVars, procVars
<1>2. \A r \in Row : rowManifest'[r] \in {None, rowManifest[r]}
  BY DEF CleanFile, IInv, TypeOK
<1>3. ASSUME NEW r \in Row
      PROVE  /\ Agrees(r)'
             /\ Target(manifest'[r]) /\ rowManifest'[r] # None =>
                  /\ Chosen(r)' /\ Settled(rowManifest'[r])
                  /\ ~HasPayload(rowManifest'[r])
  <2>1. Chosen(r)' <=> Chosen(r)
    BY <1>1 DEF Chosen, TargetRows, Target
  <2> QED
    BY <1>1, <1>2, <2>1 DEF IInv, ReplaceOK, CachesOK, Agrees
<1>4. CachesOK' /\ MismatchHealable' /\ ReplaceOK'
  BY <1>1, <1>3 DEF CachesOK, MismatchHealable, ReplaceOK
<1>5. ManifestOK'
  BY <1>1 DEF IInv, ManifestOK
<1> QED
  BY <1>1, <1>4, <1>5 DEF IInv, MemoryOK, WriteOK

\* Every step of a repair keeps the invariant.
LEMMA InvStep == RepairsAlike /\ IInv /\ [Next]_vars => IInv'
<1> SUFFICES ASSUME RepairsAlike, IInv, [Next]_vars
             PROVE  IInv'
  OBVIOUS
<1>0. TypeOK'
  BY TypeStep DEF IInv
<1>1. ASSUME NEW o \in RepairOptions, StartNothing(o) PROVE IInv'
  <2>1. UNCHANGED <<pairVars, workDirVars, procVars>>
    BY <1>1 DEF StartNothing
  <2> QED
    BY <1>0, <2>1, FilesKept
    DEF pairVars, workDirVars, procVars, IInv, MemoryOK, WriteOK, ReplaceOK,
        Working, WritingCache, Agrees, TargetRows, Target
<1>2. ASSUME NEW o \in RepairOptions, Start(o) PROVE IInv'
  BY <1>0, <1>2, StartInv
<1>3. CASE FetchStep
  BY <1>0, <1>3, RequeueInv, ResultInv DEF FetchStep
<1>4. CASE WriteRowPayload
  BY <1>0, <1>4, WriteRowPayloadInv
<1>5. CASE WriteRowManifest
  BY <1>0, <1>5, WriteRowManifestInv
<1>6. CASE DropRetryState
  BY <1>0, <1>6, DropRetryStateInv
<1>7. CASE ReplaceTar
  BY <1>0, <1>7, ReplaceTarInv
<1>8. CASE ReplaceManifest
  BY <1>0, <1>8, ReplaceManifestInv
<1>9. CASE MarkDone
  BY <1>0, <1>9, MarkDoneInv
<1>10. ASSUME NEW r \in Row, CleanFile(r) PROVE IInv'
  BY <1>0, <1>10, CleanInv
<1>11. CASE Finish \/ Crash \/ FailRebuild
  BY <1>0, <1>11, EndInv DEF Finish, Crash, FailRebuild
<1>12. CASE UNCHANGED vars
  BY <1>0, <1>12, FilesKept
  DEF vars, pairVars, workDirVars, procVars, IInv, MemoryOK, WriteOK, ReplaceOK,
      Working, WritingCache, Agrees, TargetRows, Target
<1> QED
  BY <1>1, <1>2, <1>3, <1>4, <1>5, <1>6, <1>7, <1>8, <1>9, <1>10, <1>11, <1>12
  DEF Next, Begin, Step

\* Repairs with row retries and one cap keep the inductive invariant.
THEOREM InvCorrect == ASSUME RepairsAlike PROVE Spec => []IInv
<1>1. IInv /\ [Next]_vars => IInv'
  BY InvStep
<1> QED
  BY <1>1, InvInit, PTL DEF Spec

\* A repair that gets to its done marker leaves a pair of the same attempts.
THEOREM RepairAgreement == ASSUME RepairsAlike PROVE Spec => []RepairAgrees
<1>1. IInv => RepairAgrees
  BY DEF IInv, ReplaceOK, RepairAgrees
<1> QED
  BY <1>1, InvCorrect, PTL

\* A half replaced pair can always be completed from the caches.
THEOREM Healable == ASSUME RepairsAlike PROVE Spec => []MismatchHealable
<1>1. IInv => MismatchHealable
  BY DEF IInv
<1> QED
  BY <1>1, InvCorrect, PTL

\* Without --max-repair-rows no rebuild fails for a member that is not there.
THEOREM CopyAlways == ASSUME RepairsAll PROVE Spec => [](Drained => CanCopy)
<1>1. RepairsAlike
  BY DEF RepairsAll, RepairsAlike
<1>2. IInv => (Drained => CanCopy)
  BY CopyPossible
<1> QED
  BY <1>1, <1>2, InvCorrect, PTL

\* The rows that are not repaired keep their package and their manifest row.
THEOREM OthersStay == ASSUME RepairsAlike PROVE Spec => OthersKept
<1> DEFINE A == \A r \in Row :
       ~Target(manifest[r]) \/ (pc # "down" /\ r \notin targets) =>
         manifest'[r] = manifest[r] /\ tar'[r] = tar[r]
<1>1. IInv /\ [Next]_vars => [A]_vars
  <2> SUFFICES ASSUME IInv, Next PROVE A
    OBVIOUS
  <2>1. CASE ReplaceTar
    BY <2>1, NewPackages DEF ReplaceTar, Drained
  <2>2. CASE ReplaceManifest
    <3>1. /\ Working /\ manifest' = outRows /\ tar' = tar
          /\ \A r \in Row : outRows[r] # None
      BY <2>2 DEF ReplaceManifest, Working, IInv, ReplaceOK
    <3> QED
      BY <3>1, RowsInMemory
  <2>3. CASE ~ReplaceTar /\ ~ReplaceManifest
    <3>1. UNCHANGED pairVars
      BY <2>3
      DEF Next, Begin, Step, StartNothing, Start, FetchStep, Requeue, Block,
          Accept, Fetched, WriteRowPayload, WriteRowManifest, DropRetryState,
          MarkDone, CleanFile, Finish, Crash, FailRebuild
    <3> QED
      BY <3>1 DEF pairVars
  <2> QED
    BY <2>1, <2>2, <2>3
<1> QED
  BY <1>1, InvCorrect, PTL DEF Spec, OthersKept
===============================================================================

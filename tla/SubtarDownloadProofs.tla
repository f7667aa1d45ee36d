------------------------- MODULE SubtarDownloadProofs -------------------------
(***************************************************************************)
(* Proofs about SubtarDownload for any number of rows, workers, runs and   *)
(* any options.                                                            *)
(***************************************************************************)
EXTENDS SubtarDownload, TLAPS

(***************************************************************************)
(* The pure functions of RowOutcome have the types the variables need.     *)
(***************************************************************************)
LEMMA ProcessRowType ==
  ASSUME NEW status \in Status, NEW n \in Nat
  PROVE  ProcessRow(status, n) \in RowResult
BY DEF ProcessRow, RowResult, NoPackage

\* Blocking a result gives a result (mark_retry_blocked).
LEMMA BlockedType ==
  ASSUME NEW out \in RowResult, NEW n \in Nat, NEW history \in Seq(Status)
  PROVE  MarkRetryBlocked(out, n, history) \in RowResult
BY DEF MarkRetryBlocked, RowResult, NoPackage

\* Annotating a result gives a result (annotate_retry_success).
LEMMA AnnotatedType ==
  ASSUME NEW out \in RowResult, NEW n \in Nat, NEW history \in Seq(Status)
  PROVE  AnnotateRetrySuccess(out, n, history) \in RowResult
BY DEF AnnotateRetrySuccess, RowResult

\* What is cached of a result is a manifest row (write_row_cache).
LEMMA CacheRowType ==
  ASSUME NEW out \in RowResult
  PROVE  CacheRow(out) \in ManifestRow
BY DEF CacheRow, RowResult, ManifestRow

(***************************************************************************)
(* None is nothing else.                                                   *)
(***************************************************************************)
LEMMA NoneIsApart ==
  /\ \A row \in ManifestRow : row # None
  /\ \A out \in RowResult : out # None
  /\ \A state \in RetryState : state # None
  /\ \A o \in RunOptions : o # None
  /\ \A o \in OutcomeRecord : o # None
BY NoneAssumption

\* The initial states have the types.
LEMMA TypeInit == Init => TypeOK
<1> SUFFICES ASSUME Init PROVE TypeOK
  OBVIOUS
<1>1. histories \in [Row -> Seq(Status)]
  <2>1. <<>> \in Seq(Status)
    OBVIOUS
  <2> QED BY <2>1 DEF Init
<1>2. queue \in Seq(Row)
  BY DEF Init
<1>3. cursor \in 0 .. NumRows
  BY NumRowsAssumption DEF Init
<1> QED
  BY <1>1, <1>2, <1>3 DEF Init, TypeOK, Phase, WritingCache, NoPackage

\* Every step of the worker keeps the types.
LEMMA TypeNext == TypeOK /\ [Next]_vars => TypeOK'
<1> SUFFICES ASSUME TypeOK, [Next]_vars PROVE TypeOK'
  OBVIOUS
<1> USE NumRowsAssumption DEF WritingCache, Phase
<1>0. pc # "down" =>
        opts \in [retries : Nat, retryCached : BOOLEAN, force : BOOLEAN]
  BY RunOptionsAssumption DEF TypeOK
<1>1. ASSUME NEW o \in RunOptions, Start(o) PROVE TypeOK'
  <2>1. pc' \in {"skip", "scan"} /\ opts' = o /\ runs' = runs + 1
    BY <1>1 DEF Start
  <2>2. opts' \in RunOptions \cup {None} /\ (pc' # "down" => opts' # None)
    BY <2>1, NoneIsApart
  <2> QED
    BY <1>1, <2>1, <2>2 DEF TypeOK, Start, workDirVars, productVars, retryVars
<1>2. CASE ScanCached
  <2>1. cursor \in Row /\ rowManifest[cursor] \in ManifestRow
    BY <1>2 DEF TypeOK, ScanCached, Row, Readable
  <2>2. /\ outRows' \in [Row -> ManifestRow \cup {None}]
        /\ retryState' \in [Row -> RetryState \cup {None}]
    BY <1>2, <2>1 DEF TypeOK, ScanCached
  <2>3. cursor' \in 0 .. NumRows
    BY <1>2 DEF TypeOK, ScanCached
  <2> QED
    BY <1>2, <2>2, <2>3 DEF TypeOK, ScanCached, productVars, retryVars
<1>3. CASE ScanMissing
  <2>1. cursor \in Row /\ cursor' \in 0 .. NumRows
    BY <1>3 DEF TypeOK, ScanMissing, Row
  <2>2. queue' \in Seq(Row)
    BY <1>3, <2>1 DEF TypeOK, ScanMissing
  <2> QED
    BY <1>3, <2>1, <2>2 DEF TypeOK, ScanMissing, workDirVars, productVars
<1>4. CASE ScanRetried
  <2>1. cursor \in Row /\ rowManifest[cursor] \in ManifestRow
    BY <1>4 DEF TypeOK, ScanRetried, Row, RetriedAgain, Readable
  <2> DEFINE row == rowManifest[cursor]
             history == IF row.history = <<>> THEN <<row.status>>
                        ELSE row.history
             state == [used |-> Smaller(Len(history), opts.retries),
                       history |-> history]
  <2>3. history \in Seq(Status)
    BY <2>1 DEF ManifestRow
  <2>4. state \in RetryState
    <3> HIDE DEF history
    <3> QED BY <1>0, <1>4, <2>3 DEF RetryState, Smaller, ScanRetried
  <2>5. retryState' = [retryState EXCEPT ![cursor] = state]
    BY <1>4 DEF ScanRetried
  <2>6. retryState' \in [Row -> RetryState \cup {None}]
    <3> HIDE DEF state
    <3> QED BY <2>1, <2>4, <2>5 DEF TypeOK
  <2> QED
    BY <1>4, <2>1, <2>6 DEF TypeOK, ScanRetried, productVars, retryVars
<1>5. CASE DropRowManifest
  BY <1>5 DEF TypeOK, DropRowManifest, productVars, retryVars
<1>6. CASE DropRowPayload
  <2>1. rowPayload' \in [Row -> Nat]
    BY <1>6 DEF TypeOK, DropRowPayload, NoPackage
  <2>2. cursor \in Row
    BY <1>6 DEF TypeOK, DropRowPayload
  <2>3. cursor' \in 0 .. NumRows
    BY <1>6, <2>2 DEF DropRowPayload, Row
  <2>4. queue' \in Seq(Row)
    BY <1>6, <2>2 DEF TypeOK, DropRowPayload
  <2> QED
    BY <1>6, <2>1, <2>3, <2>4 DEF TypeOK, DropRowPayload, productVars
<1>7. CASE LoadRetryStates
  <2> DEFINE Loaded(r) == outRows[r] = None /\ retryState[r] # None
  <2>1. attempts' \in [Row -> Nat]
    <3>1. \A r \in Row : Loaded(r) =>
            Smaller(retryState[r].used, opts.retries) \in Nat
      BY <1>0, <1>7 DEF TypeOK, RetryState, Smaller, LoadRetryStates
    <3> QED BY <1>7, <3>1 DEF LoadRetryStates
  <2>2. histories' \in [Row -> Seq(Status)]
    <3>1. \A r \in Row : Loaded(r) => retryState[r].history \in Seq(Status)
      BY DEF TypeOK, RetryState
    <3>2. <<>> \in Seq(Status)
      OBVIOUS
    <3> QED BY <1>7, <3>1, <3>2 DEF LoadRetryStates
  <2> QED
    BY <1>7, <2>1, <2>2 DEF TypeOK, LoadRetryStates, workDirVars, productVars
<1>8. CASE FillPending
  <2>1. Head(queue) \in Row /\ Tail(queue) \in Seq(Row)
    BY <1>8 DEF TypeOK, FillPending
  <2> QED
    BY <1>8, <2>1 DEF TypeOK, FillPending, workDirVars, productVars
<1>9. ASSUME NEW r \in pending, NEW status \in Status,
             Requeue(r, status) \/ Block(r, status) \/ Accept(r, status)
      PROVE  TypeOK'
  <2> DEFINE out == ProcessRow(status, fetched[r] + 1)
             history == Append(histories[r], status)
  <2>1. /\ r \in Row
        /\ attempts[r] + 1 \in Nat
        /\ histories[r] \in Seq(Status)
        /\ history \in Seq(Status)
        /\ fetched[r] + 1 \in Nat
    BY DEF TypeOK
  <2>2. out \in RowResult
    BY <2>1, ProcessRowType
  <2>3. /\ fetched' \in [Row -> Nat]
        /\ pending' \in SUBSET Row
    BY <1>9, <2>1 DEF TypeOK, Requeue, Block, Accept
  <2>4. CASE Requeue(r, status)
    <3>1. [used |-> attempts[r] + 1, history |-> history] \in RetryState
      BY <2>1 DEF RetryState
    <3>2. retryState' \in [Row -> RetryState \cup {None}]
      BY <2>1, <2>4, <3>1 DEF TypeOK, Requeue
    <3>3. /\ histories' \in [Row -> Seq(Status)]
          /\ attempts' \in [Row -> Nat]
          /\ queue' \in Seq(Row)
      BY <2>1, <2>4 DEF TypeOK, Requeue
    <3> QED
      BY <2>3, <2>4, <3>2, <3>3 DEF TypeOK, Requeue, productVars
  <2>5. CASE Block(r, status)
    <3>1. result' = MarkRetryBlocked(out, attempts[r] + 1, history)
      BY <2>5 DEF Block
    <3>2. result' \in RowResult
      <4> HIDE DEF out, history
      <4> QED BY <2>1, <2>2, <3>1, BlockedType
    <3>3. result' # None
      BY <3>2, NoneIsApart
    <3>4. cursor' \in Row /\ cursor' \in 0 .. NumRows
      BY <2>1, <2>5 DEF Block, Row
    <3>5. histories' \in [Row -> Seq(Status)]
      BY <2>1, <2>5 DEF TypeOK, Block
    <3> QED
      BY <2>3, <2>5, <3>2, <3>3, <3>4, <3>5
      DEF TypeOK, Block, workDirVars, productVars
  <2>6. CASE Accept(r, status)
    <3>1. result' \in
            {out, AnnotateRetrySuccess(out, attempts[r] + 1, histories[r])}
      BY <2>6 DEF Accept
    <3>2. result' \in RowResult
      <4> HIDE DEF out
      <4> QED BY <2>1, <2>2, <3>1, AnnotatedType
    <3>3. result' # None
      BY <3>2, NoneIsApart
    <3>4. cursor' \in Row /\ cursor' \in 0 .. NumRows
      BY <2>1, <2>6 DEF Accept, Row
    <3>5. /\ pc' = "writePayload" /\ pc = "loop"
          /\ UNCHANGED <<workDirVars, productVars, incomplete, opts, outRows,
                         attempts, histories, queue, runs>>
      BY <2>6 DEF Accept
    <3> QED
      BY <2>3, <3>2, <3>3, <3>4, <3>5 DEF TypeOK, workDirVars, productVars
  <2> QED
    BY <1>9, <2>4, <2>5, <2>6
<1>10. CASE WriteRowPayload
  <2>1. result \in RowResult
    BY <1>10 DEF TypeOK, WriteRowPayload
  <2>2. rowPayload' \in [Row -> Nat]
    BY <1>10, <2>1 DEF TypeOK, WriteRowPayload, RowResult
  <2> QED
    BY <1>10, <2>2 DEF TypeOK, WriteRowPayload, productVars, retryVars
<1>11. CASE WriteRowManifest
  <2>1. CacheRow(result) \in ManifestRow
    BY <1>11, CacheRowType DEF TypeOK, WriteRowManifest
  <2>2. rowManifest' \in [Row -> ManifestRow \cup {None}]
    BY <1>11, <2>1 DEF TypeOK, WriteRowManifest
  <2> QED
    BY <1>11, <2>2 DEF TypeOK, WriteRowManifest, productVars, retryVars
<1>12. CASE DropRetryState
  <2>1. CacheRow(result) \in ManifestRow
    BY <1>12, CacheRowType DEF TypeOK, DropRetryState
  <2>2. /\ outRows' \in [Row -> ManifestRow \cup {None}]
        /\ retryState' \in [Row -> RetryState \cup {None}]
    BY <1>12, <2>1 DEF TypeOK, DropRetryState
  <2> QED
    BY <1>12, <2>2 DEF TypeOK, DropRetryState, productVars, retryVars
<1>13. CASE AssembleTar
  <2>1. tar' \in [Row -> Nat]
    BY <1>13 DEF TypeOK, AssembleTar, NoPackage
  <2> QED
    BY <1>13, <2>1 DEF TypeOK, AssembleTar, Drained, workDirVars, retryVars
<1>14. CASE WriteManifest
  BY <1>14 DEF TypeOK, WriteManifest, workDirVars, retryVars
<1>15. CASE MarkDone
  BY <1>15 DEF TypeOK, MarkDone, workDirVars, retryVars
<1>16. ASSUME NEW r \in Row, CleanFile(r) PROVE TypeOK'
  <2>1. /\ rowManifest' \in [Row -> ManifestRow \cup {None}]
        /\ rowPayload' \in [Row -> Nat]
        /\ retryState' \in [Row -> RetryState \cup {None}]
    <3>1. CASE /\ rowManifest' = [rowManifest EXCEPT ![r] = None]
               /\ UNCHANGED <<rowPayload, retryState>>
      BY <3>1 DEF TypeOK
    <3>2. CASE /\ rowPayload' = [rowPayload EXCEPT ![r] = NoPackage]
               /\ UNCHANGED <<rowManifest, retryState>>
      BY <3>2 DEF TypeOK, NoPackage
    <3>3. CASE /\ retryState' = [retryState EXCEPT ![r] = None]
               /\ UNCHANGED <<rowManifest, rowPayload>>
      BY <3>3 DEF TypeOK
    <3> QED
      BY <1>16, <3>1, <3>2, <3>3 DEF CleanFile
  <2>2. UNCHANGED <<productVars, incomplete, procVars, fetched, runs>>
    BY <1>16 DEF CleanFile
  <2> QED
    BY <2>1, <2>2 DEF TypeOK, productVars, procVars
<1>17. CASE Finish \/ Crash \/ Fail
  <2>1. ProcessEnds /\ UNCHANGED <<workDirVars, productVars, fetched, runs>>
    BY <1>17 DEF Finish, Crash, Fail
  <2>2. <<>> \in Seq(Status) /\ <<>> \in Seq(Row)
    OBVIOUS
  <2>3. histories' \in [Row -> Seq(Status)]
    BY <2>1, <2>2 DEF ProcessEnds
  <2>4. incomplete' \in BOOLEAN
    BY <1>17 DEF Finish, Crash, Fail, TypeOK
  <2> QED
    BY <2>1, <2>2, <2>3, <2>4 DEF TypeOK, ProcessEnds, workDirVars, productVars
<1>18. CASE UNCHANGED vars
  BY <1>18 DEF TypeOK, vars
<1> QED
  BY <1>1, <1>2, <1>3, <1>4, <1>5, <1>6, <1>7, <1>8, <1>9, <1>10, <1>11,
     <1>12, <1>13, <1>14, <1>15, <1>16, <1>17, <1>18
  DEF Next, Step, FetchStep

(***************************************************************************)
(* Type correctness: whatever the options, the kills and the failures, all *)
(* files and the memory of the worker have the shape the code relies on.   *)
(***************************************************************************)
THEOREM TypeCorrect == Spec => []TypeOK
BY TypeInit, TypeNext, PTL DEF Spec

(***************************************************************************)
(* The queue: what appending a row and taking the first one do to its      *)
(* elements, and that neither makes a row appear twice.                    *)
(***************************************************************************)
LEMMA AppendElements ==
  ASSUME NEW S, NEW seq \in Seq(S), NEW x \in S
  PROVE  /\ Elements(Append(seq, x)) = Elements(seq) \cup {x}
         /\ NoDuplicates(seq) /\ x \notin Elements(seq)
              => NoDuplicates(Append(seq, x))
<1> DEFINE longer == Append(seq, x)
<1>1. /\ Len(seq) \in Nat
      /\ DOMAIN seq = 1 .. Len(seq)
      /\ DOMAIN longer = 1 .. Len(seq) + 1
      /\ \A i \in 1 .. Len(seq) : longer[i] = seq[i]
      /\ longer[Len(seq) + 1] = x
  OBVIOUS
<1> HIDE DEF longer
<1>2. Elements(longer) = Elements(seq) \cup {x}
  BY <1>1 DEF Elements
<1>3. ASSUME NoDuplicates(seq), x \notin Elements(seq)
      PROVE  NoDuplicates(longer)
  BY <1>1, <1>3 DEF NoDuplicates, Elements
<1> QED
  BY <1>2, <1>3 DEF longer

\* What is left of a queue when its head is taken.
LEMMA TailElements ==
  ASSUME NEW S, NEW seq \in Seq(S), seq # <<>>, NoDuplicates(seq)
  PROVE  /\ Head(seq) \in Elements(seq)
         /\ Elements(Tail(seq)) = Elements(seq) \ {Head(seq)}
         /\ NoDuplicates(Tail(seq))
<1> DEFINE rest == Tail(seq)
<1>1. /\ Len(seq) \in Nat \ {0}
      /\ DOMAIN seq = 1 .. Len(seq)
      /\ DOMAIN rest = 1 .. Len(seq) - 1
      /\ \A i \in 1 .. Len(seq) - 1 : rest[i] = seq[i + 1]
      /\ Head(seq) = seq[1]
  OBVIOUS
<1> HIDE DEF rest
<1>2. Head(seq) \in Elements(seq)
  BY <1>1 DEF Elements
<1>3. Elements(rest) = Elements(seq) \ {Head(seq)}
  <2>1. ASSUME NEW e \in Elements(seq), e # Head(seq)
        PROVE  e \in Elements(rest)
    <3>1. PICK i \in DOMAIN seq : e = seq[i]
      BY <2>1 DEF Elements
    <3>2. i - 1 \in 1 .. Len(seq) - 1 /\ rest[i - 1] = seq[i]
      BY <1>1, <2>1, <3>1
    <3> QED BY <1>1, <3>1, <3>2 DEF Elements
  <2>2. ASSUME NEW e \in Elements(rest)
        PROVE  e \in Elements(seq) /\ e # Head(seq)
    <3>1. PICK i \in DOMAIN rest : e = rest[i]
      BY <2>2 DEF Elements
    <3>2. i + 1 \in DOMAIN seq /\ i + 1 # 1 /\ e = seq[i + 1]
      BY <1>1, <3>1
    <3> QED BY <1>1, <3>2 DEF Elements, NoDuplicates
  <2> QED BY <2>1, <2>2
<1>4. NoDuplicates(rest)
  BY <1>1 DEF NoDuplicates
<1> QED
  BY <1>2, <1>3, <1>4 DEF rest

(***************************************************************************)
(* The functions of RowOutcome keep hash, payload and status in step.      *)
(***************************************************************************)
LEMMA ProcessRowSound ==
  ASSUME NEW status \in Status, NEW n \in Nat \ {0}
  PROVE  /\ SoundResult(ProcessRow(status, n))
         /\ ~ProcessRow(status, n).blocked
BY DEF SoundResult, WellFormed, CacheRow, ProcessRow, NoPackage

\* A blocked result has no payload and keeps what else it says.
LEMMA BlockedSound ==
  ASSUME NEW out \in RowResult, SoundResult(out),
         NEW n \in Nat, NEW history \in Seq(Status)
  PROVE  SoundResult(MarkRetryBlocked(out, n, history))
BY DEF SoundResult, WellFormed, CacheRow, MarkRetryBlocked, RowResult, NoPackage

\* An annotated result has the payload it had.
LEMMA AnnotatedSound ==
  ASSUME NEW out \in RowResult, SoundResult(out),
         NEW n \in Nat, NEW history \in Seq(Status)
  PROVE  SoundResult(AnnotateRetrySuccess(out, n, history))
BY DEF SoundResult, WellFormed, CacheRow, AnnotateRetrySuccess, RowResult,
       NoPackage

\* The initial states satisfy the invariant.
LEMMA InvInit == Init => IInv
<1> SUFFICES ASSUME Init PROVE IInv
  OBVIOUS
<1>1. TypeOK
  BY TypeInit
<1>2. CachesOK /\ DownOK
  BY DEF Init, CachesOK, DownOK
<1>3. QueueOK
  BY DEF Init, QueueOK, NoDuplicates, Elements
<1>4. ScanOK /\ LoopOK /\ WriteOK /\ ProductOK
  BY DEF Init, ScanOK, LoopOK, WriteOK, ProductOK, Scanning, WritingCache,
         Assembling
<1> QED
  BY <1>1, <1>2, <1>3, <1>4 DEF IInv

(***************************************************************************)
(* The invariant is inductive.  Under each action there is one step per    *)
(* conjunct; those about a phase that the action does not lead to hold     *)
(* because of the new value of pc alone.                                   *)
(***************************************************************************)
LEMMA InvNext == NoForce /\ IInv /\ [Next]_vars => IInv'
<1> SUFFICES ASSUME NoForce, IInv, [Next]_vars PROVE IInv'
  OBVIOUS
<1>1. TypeOK /\ TypeOK'
  BY TypeNext DEF IInv
<1>2. /\ CachesOK /\ QueueOK
      /\ DownOK /\ ScanOK /\ LoopOK /\ WriteOK
      /\ ProductOK
  BY DEF IInv
<1> USE NumRowsAssumption
<1>3. ASSUME NEW o \in RunOptions, Start(o) PROVE IInv'
  <2>1. CachesOK'
    BY <1>1, <1>2, <1>3
    DEF TypeOK, CachesOK, Start, NoForce, workDirVars, productVars, retryVars
  <2>2. QueueOK'
    BY <1>1, <1>2, <1>3
    DEF TypeOK, QueueOK, Start, NoForce, workDirVars, productVars, retryVars
  <2>3. DownOK'
    BY <1>1, <1>2, <1>3
    DEF TypeOK, DownOK, Start, NoForce, workDirVars, productVars, retryVars
  <2>4. ScanOK'
    <3>1. /\ cursor' = 0 /\ queue' = <<>> /\ pending' = {} /\ result' = None
          /\ pc' \in {"scan", "skip"}
          /\ \A r \in Row : outRows'[r] = None /\ ~(r < 0)
      BY <1>2, <1>3 DEF DownOK, Start, Row, retryVars
    <3>2. Elements(queue') = {}
      BY <3>1 DEF Elements
    <3> QED
      BY <3>1, <3>2 DEF ScanOK, Scanning
  <2>5. LoopOK'
    BY <1>1, <1>2, <1>3
    DEF TypeOK, LoopOK, WritingCache, Start, NoForce, workDirVars,
        productVars, retryVars
  <2>6. WriteOK'
    BY <1>1, <1>2, <1>3
    DEF TypeOK, WriteOK, WritingCache, Start, NoForce, workDirVars,
        productVars, retryVars
  <2>7. ProductOK'
    BY <1>1, <1>2, <1>3
    DEF TypeOK, ProductOK, ProductAgrees, Assembling, Start, NoForce,
        workDirVars, productVars, retryVars
  <2> QED
    BY <1>1, <2>1, <2>2, <2>3, <2>4, <2>5, <2>6, <2>7 DEF IInv
<1>4. CASE ScanCached
  <2>1. CachesOK'
    BY <1>1, <1>2, <1>4
    DEF TypeOK, CachesOK, ScanCached, productVars, retryVars
  <2>2. QueueOK'
    BY <1>1, <1>2, <1>4
    DEF TypeOK, QueueOK, ScanCached, productVars, retryVars
  <2>3. DownOK'
    BY <1>1, <1>2, <1>4 DEF TypeOK, DownOK, ScanCached, productVars, retryVars
  <2>4. ScanOK'
    <3>1. /\ cursor \in Row /\ cursor' = cursor + 1
          /\ \A r \in Row : r < cursor' <=> r < cursor \/ r = cursor
      BY <1>1, <1>4 DEF TypeOK, ScanCached, Row
    <3>2. /\ outRows' = [outRows EXCEPT ![cursor] = rowManifest[cursor]]
          /\ rowManifest[cursor] # None
          /\ ~(cursor < cursor)
      BY <1>1, <1>4 DEF TypeOK, ScanCached, Readable
    <3>3. \A r \in Row : outRows'[r] = IF r = cursor THEN rowManifest[cursor]
                                      ELSE outRows[r]
      BY <1>1, <3>1, <3>2 DEF TypeOK
    <3>4. /\ pc = "scan"
          /\ UNCHANGED <<pc, queue, pending, result, rowManifest>>
      BY <1>4 DEF ScanCached, retryVars
    <3>5. Elements(queue') = {r \in Row : r < cursor' /\ outRows'[r] = None}
      BY <1>2, <3>1, <3>2, <3>3, <3>4 DEF ScanOK, Scanning
    <3>6. \A r \in Row :
            outRows'[r] = IF r < cursor' THEN rowManifest'[r] ELSE None
      BY <1>2, <3>1, <3>3, <3>4 DEF ScanOK, Scanning
    <3> QED
      BY <1>2, <3>4, <3>5, <3>6 DEF ScanOK, Scanning
  <2>5. LoopOK'
    BY <1>1, <1>2, <1>4
    DEF TypeOK, LoopOK, WritingCache, ScanCached, productVars, retryVars
  <2>6. WriteOK'
    BY <1>1, <1>2, <1>4
    DEF TypeOK, WriteOK, WritingCache, ScanCached, productVars, retryVars
  <2>7. ProductOK'
    BY <1>1, <1>2, <1>4
    DEF TypeOK, ProductOK, ProductAgrees, Assembling, ScanCached, productVars,
        retryVars
  <2> QED
    BY <1>1, <2>1, <2>2, <2>3, <2>4, <2>5, <2>6, <2>7 DEF IInv
<1>5. CASE ScanMissing
  <2>1. CachesOK'
    BY <1>1, <1>2, <1>5
    DEF TypeOK, CachesOK, ScanMissing, workDirVars, productVars
  <2>2. QueueOK'
    <3>1. cursor \in Row /\ ~(cursor < cursor)
      BY <1>1, <1>5 DEF TypeOK, ScanMissing, Row
    <3>2. cursor \notin Elements(queue) /\ pending' = {}
      BY <1>2, <1>5, <3>1 DEF ScanOK, Scanning, ScanMissing
    <3> QED
      BY <1>1, <1>2, <1>5, <3>1, <3>2, AppendElements
      DEF TypeOK, QueueOK, ScanMissing
  <2>3. DownOK'
    BY <1>1, <1>2, <1>5
    DEF TypeOK, DownOK, ScanMissing, workDirVars, productVars
  <2>4. ScanOK'
    <3>1. /\ cursor \in Row /\ cursor' = cursor + 1
          /\ \A r \in Row : r < cursor' <=> r < cursor \/ r = cursor
          /\ ~(cursor < cursor)
      BY <1>1, <1>5 DEF TypeOK, ScanMissing, Row
    <3>2. rowManifest[cursor] = None
      BY <1>2, <1>5, <3>1
      DEF ScanMissing, Readable, CachesOK, ProductOK, WellFormed
    <3>3. Elements(queue') = Elements(queue) \cup {cursor}
      BY <1>1, <1>5, <3>1, AppendElements DEF TypeOK, ScanMissing
    <3> QED
      BY <1>2, <1>5, <3>1, <3>2, <3>3
      DEF ScanOK, Scanning, ScanMissing, workDirVars
  <2>5. LoopOK'
    BY <1>1, <1>2, <1>5
    DEF TypeOK, LoopOK, WritingCache, ScanMissing, workDirVars, productVars
  <2>6. WriteOK'
    BY <1>1, <1>2, <1>5
    DEF TypeOK, WriteOK, WritingCache, ScanMissing, workDirVars, productVars
  <2>7. ProductOK'
    BY <1>1, <1>2, <1>5
    DEF TypeOK, ProductOK, ProductAgrees, Assembling, ScanMissing,
        workDirVars, productVars
  <2> QED
    BY <1>1, <2>1, <2>2, <2>3, <2>4, <2>5, <2>6, <2>7 DEF IInv
<1>6. CASE ScanRetried
  <2>1. CachesOK'
    BY <1>1, <1>2, <1>6
    DEF TypeOK, CachesOK, ScanRetried, productVars, retryVars
  <2>2. QueueOK'
    BY <1>1, <1>2, <1>6
    DEF TypeOK, QueueOK, ScanRetried, productVars, retryVars
  <2>3. DownOK'
    BY <1>1, <1>2, <1>6
    DEF TypeOK, DownOK, ScanRetried, productVars, retryVars
  <2>4. ScanOK'
    BY <1>2, <1>6
    DEF ScanOK, Scanning, ScanRetried, RetriedAgain, Readable, RetryableRow,
        retryVars
  <2>5. LoopOK'
    BY <1>1, <1>2, <1>6
    DEF TypeOK, LoopOK, WritingCache, ScanRetried, productVars, retryVars
  <2>6. WriteOK'
    BY <1>1, <1>2, <1>6
    DEF TypeOK, WriteOK, WritingCache, ScanRetried, productVars, retryVars
  <2>7. ProductOK'
    BY <1>1, <1>2, <1>6
    DEF TypeOK, ProductOK, ProductAgrees, Assembling, ScanRetried,
        productVars, retryVars
  <2> QED
    BY <1>1, <2>1, <2>2, <2>3, <2>4, <2>5, <2>6, <2>7 DEF IInv
<1>7. CASE DropRowManifest
  <2>1. CachesOK'
    BY <1>1, <1>2, <1>7
    DEF TypeOK, CachesOK, DropRowManifest, productVars, retryVars
  <2>2. QueueOK'
    BY <1>1, <1>2, <1>7
    DEF TypeOK, QueueOK, DropRowManifest, productVars, retryVars
  <2>3. DownOK'
    BY <1>1, <1>2, <1>7
    DEF TypeOK, DownOK, DropRowManifest, productVars, retryVars
  <2>4. ScanOK'
    BY <1>1, <1>2, <1>7
    DEF TypeOK, ScanOK, Scanning, DropRowManifest, productVars, retryVars
  <2>5. LoopOK'
    BY <1>1, <1>2, <1>7
    DEF TypeOK, LoopOK, WritingCache, DropRowManifest, productVars, retryVars
  <2>6. WriteOK'
    BY <1>1, <1>2, <1>7
    DEF TypeOK, WriteOK, WritingCache, DropRowManifest, productVars, retryVars
  <2>7. ProductOK'
    BY <1>1, <1>2, <1>7
    DEF TypeOK, ProductOK, ProductAgrees, Assembling, DropRowManifest,
        productVars, retryVars
  <2> QED
    BY <1>1, <2>1, <2>2, <2>3, <2>4, <2>5, <2>6, <2>7 DEF IInv
<1>8. CASE DropRowPayload
  <2>1. CachesOK'
    BY <1>1, <1>2, <1>8
    DEF TypeOK, CachesOK, ScanOK, Scanning, DropRowPayload, productVars
  <2>2. QueueOK'
    <3>1. cursor \in Row /\ ~(cursor < cursor)
      BY <1>1, <1>8 DEF TypeOK, DropRowPayload, Row
    <3>2. cursor \notin Elements(queue) /\ pending' = {}
      BY <1>2, <1>8, <3>1 DEF ScanOK, Scanning, DropRowPayload
    <3> QED
      BY <1>1, <1>2, <1>8, <3>1, <3>2, AppendElements
      DEF TypeOK, QueueOK, DropRowPayload
  <2>3. DownOK'
    BY <1>1, <1>2, <1>8 DEF TypeOK, DownOK, DropRowPayload, productVars
  <2>4. ScanOK'
    <3>1. /\ cursor \in Row /\ cursor' = cursor + 1
          /\ \A r \in Row : r < cursor' <=> r < cursor \/ r = cursor
          /\ ~(cursor < cursor)
      BY <1>1, <1>8 DEF TypeOK, DropRowPayload, Row
    <3>2. rowManifest[cursor] = None
      BY <1>2, <1>8 DEF DropRowPayload, ScanOK, Scanning
    <3>3. Elements(queue') = Elements(queue) \cup {cursor}
      BY <1>1, <1>8, <3>1, AppendElements DEF TypeOK, DropRowPayload
    <3> QED
      BY <1>2, <1>8, <3>1, <3>2, <3>3 DEF ScanOK, Scanning, DropRowPayload
  <2>5. LoopOK'
    BY <1>1, <1>2, <1>8
    DEF TypeOK, LoopOK, WritingCache, DropRowPayload, productVars
  <2>6. WriteOK'
    BY <1>1, <1>2, <1>8
    DEF TypeOK, WriteOK, WritingCache, DropRowPayload, productVars
  <2>7. ProductOK'
    BY <1>1, <1>2, <1>8
    DEF TypeOK, ProductOK, ProductAgrees, Assembling, DropRowPayload,
        productVars
  <2> QED
    BY <1>1, <2>1, <2>2, <2>3, <2>4, <2>5, <2>6, <2>7 DEF IInv
<1>9. CASE LoadRetryStates
  <2>1. CachesOK'
    BY <1>1, <1>2, <1>9
    DEF TypeOK, CachesOK, LoadRetryStates, workDirVars, productVars
  <2>2. QueueOK'
    BY <1>1, <1>2, <1>9
    DEF TypeOK, QueueOK, LoadRetryStates, workDirVars, productVars
  <2>3. DownOK'
    BY <1>1, <1>2, <1>9
    DEF TypeOK, DownOK, LoadRetryStates, workDirVars, productVars
  <2>4. ScanOK'
    BY <1>1, <1>2, <1>9
    DEF TypeOK, ScanOK, Scanning, LoadRetryStates, workDirVars, productVars
  <2>5. LoopOK'
    <3>1. \A r \in Row : r < cursor
      BY <1>9 DEF LoadRetryStates, Row
    <3>2. \A r \in Row : outRows[r] = rowManifest[r]
      BY <1>2, <1>9, <3>1 DEF ScanOK, Scanning, LoadRetryStates
    <3>3. outRows = rowManifest
      BY <1>1, <3>2 DEF TypeOK
    <3>4. Elements(queue) \cup pending = {r \in Row : outRows[r] = None}
      BY <1>2, <1>9, <3>1 DEF ScanOK, Scanning, LoadRetryStates
    <3> QED
      BY <1>9, <3>3, <3>4 DEF LoopOK, WritingCache, LoadRetryStates, workDirVars
  <2>6. WriteOK'
    BY <1>1, <1>2, <1>9
    DEF TypeOK, WriteOK, WritingCache, LoadRetryStates, workDirVars,
        productVars
  <2>7. ProductOK'
    BY <1>1, <1>2, <1>9
    DEF TypeOK, ProductOK, ProductAgrees, Assembling, LoadRetryStates,
        workDirVars, productVars
  <2> QED
    BY <1>1, <2>1, <2>2, <2>3, <2>4, <2>5, <2>6, <2>7 DEF IInv
<1>10. CASE FillPending
  <2>1. CachesOK'
    BY <1>1, <1>2, <1>10
    DEF TypeOK, CachesOK, FillPending, workDirVars, productVars
  <2>2. QueueOK'
    <3>1. /\ Head(queue) \in Elements(queue)
          /\ Elements(queue') = Elements(queue) \ {Head(queue)}
          /\ NoDuplicates(queue')
      BY <1>1, <1>2, <1>10, TailElements DEF TypeOK, QueueOK, FillPending
    <3> QED
      BY <1>2, <1>10, <3>1 DEF QueueOK, FillPending
  <2>3. DownOK'
    BY <1>1, <1>2, <1>10
    DEF TypeOK, DownOK, FillPending, workDirVars, productVars
  <2>4. ScanOK'
    BY <1>1, <1>2, <1>10
    DEF TypeOK, ScanOK, Scanning, FillPending, workDirVars, productVars
  <2>5. LoopOK'
    <3>1. /\ Head(queue) \in Elements(queue)
          /\ Elements(queue') = Elements(queue) \ {Head(queue)}
      BY <1>1, <1>2, <1>10, TailElements DEF TypeOK, QueueOK, FillPending
    <3>2. Elements(queue') \cup pending' = Elements(queue) \cup pending
      BY <1>10, <3>1 DEF FillPending
    <3> QED
      BY <1>2, <1>10, <3>2 DEF LoopOK, WritingCache, FillPending, workDirVars
  <2>6. WriteOK'
    BY <1>1, <1>2, <1>10
    DEF TypeOK, WriteOK, WritingCache, FillPending, workDirVars, productVars
  <2>7. ProductOK'
    BY <1>1, <1>2, <1>10
    DEF TypeOK, ProductOK, ProductAgrees, Assembling, FillPending,
        workDirVars, productVars
  <2> QED
    BY <1>1, <2>1, <2>2, <2>3, <2>4, <2>5, <2>6, <2>7 DEF IInv
<1>11. CASE WriteRowPayload
  <2>1. CachesOK'
    BY <1>1, <1>2, <1>11
    DEF TypeOK, CachesOK, WriteOK, WritingCache, WriteRowPayload, productVars
  <2>2. QueueOK'
    BY <1>1, <1>2, <1>11
    DEF TypeOK, QueueOK, WriteRowPayload, productVars, retryVars
  <2>3. DownOK'
    BY <1>1, <1>2, <1>11
    DEF TypeOK, DownOK, WriteRowPayload, productVars, retryVars
  <2>4. ScanOK'
    BY <1>1, <1>2, <1>11
    DEF TypeOK, ScanOK, Scanning, WriteRowPayload, productVars, retryVars
  <2>5. LoopOK'
    BY <1>1, <1>2, <1>11
    DEF TypeOK, LoopOK, WritingCache, WriteRowPayload, productVars, retryVars
  <2>6. WriteOK'
    BY <1>1, <1>2, <1>11
    DEF TypeOK, WriteOK, WritingCache, WriteRowPayload, productVars, retryVars
  <2>7. ProductOK'
    BY <1>1, <1>2, <1>11
    DEF TypeOK, ProductOK, ProductAgrees, Assembling, WriteRowPayload,
        productVars, retryVars
  <2> QED
    BY <1>1, <2>1, <2>2, <2>3, <2>4, <2>5, <2>6, <2>7 DEF IInv
<1>12. CASE WriteRowManifest
  <2>1. CachesOK'
    <3>1. /\ WellFormed(CacheRow(result))
          /\ CacheRow(result).payload =>
               rowPayload[cursor] = CacheRow(result).hash
      BY <1>2, <1>12
      DEF WriteOK, WritingCache, WriteRowManifest, SoundResult, CacheRow,
          NoPackage
    <3>2. ~done /\ cursor \in Row
      BY <1>1, <1>2, <1>12 DEF TypeOK, ProductOK, WritingCache, WriteRowManifest
    <3> QED
      BY <1>1, <1>2, <1>12, <3>1, <3>2
      DEF TypeOK, CachesOK, WriteRowManifest, productVars
  <2>2. QueueOK'
    BY <1>1, <1>2, <1>12
    DEF TypeOK, QueueOK, WriteRowManifest, productVars, retryVars
  <2>3. DownOK'
    BY <1>1, <1>2, <1>12
    DEF TypeOK, DownOK, WriteRowManifest, productVars, retryVars
  <2>4. ScanOK'
    BY <1>1, <1>2, <1>12
    DEF TypeOK, ScanOK, Scanning, WriteRowManifest, productVars, retryVars
  <2>5. LoopOK'
    BY <1>1, <1>2, <1>12
    DEF TypeOK, LoopOK, WritingCache, WriteRowManifest, productVars, retryVars
  <2>6. WriteOK'
    BY <1>1, <1>2, <1>12
    DEF TypeOK, WriteOK, WritingCache, WriteRowManifest, productVars,
        retryVars
  <2>7. ProductOK'
    BY <1>1, <1>2, <1>12
    DEF TypeOK, ProductOK, ProductAgrees, Assembling, WriteRowManifest,
        productVars, retryVars
  <2> QED
    BY <1>1, <2>1, <2>2, <2>3, <2>4, <2>5, <2>6, <2>7 DEF IInv
<1>13. CASE DropRetryState
  <2>1. CachesOK'
    BY <1>1, <1>2, <1>13
    DEF TypeOK, CachesOK, DropRetryState, productVars, retryVars
  <2>2. QueueOK'
    BY <1>1, <1>2, <1>13
    DEF TypeOK, QueueOK, DropRetryState, productVars, retryVars
  <2>3. DownOK'
    BY <1>1, <1>2, <1>13
    DEF TypeOK, DownOK, DropRetryState, productVars, retryVars
  <2>4. ScanOK'
    BY <1>1, <1>2, <1>13
    DEF TypeOK, ScanOK, Scanning, DropRetryState, productVars, retryVars
  <2>5. LoopOK'
    <3>1. cursor \in Row /\ CacheRow(result) # None
      BY <1>1, <1>13, CacheRowType, NoneIsApart
      DEF TypeOK, WritingCache, DropRetryState
    <3>2. \A r \in Row : outRows'[r] = rowManifest[r]
      BY <1>1, <1>2, <1>13, <3>1
      DEF TypeOK, LoopOK, WriteOK, WritingCache, DropRetryState
    <3>3. outRows' = rowManifest'
      BY <1>1, <1>13, <3>2 DEF TypeOK, DropRetryState
    <3>4. Elements(queue') \cup pending' = {r \in Row : outRows'[r] = None}
      BY <1>1, <1>2, <1>13, <3>1
      DEF TypeOK, LoopOK, WritingCache, DropRetryState, retryVars
    <3> QED
      BY <1>13, <3>3, <3>4 DEF LoopOK, WritingCache, DropRetryState
  <2>6. WriteOK'
    BY <1>1, <1>2, <1>13
    DEF TypeOK, WriteOK, WritingCache, DropRetryState, productVars, retryVars
  <2>7. ProductOK'
    BY <1>1, <1>2, <1>13
    DEF TypeOK, ProductOK, ProductAgrees, Assembling, DropRetryState,
        productVars, retryVars
  <2> QED
    BY <1>1, <2>1, <2>2, <2>3, <2>4, <2>5, <2>6, <2>7 DEF IInv
<1>14. CASE AssembleTar
  <2>1. CachesOK'
    BY <1>1, <1>2, <1>14
    DEF TypeOK, CachesOK, AssembleTar, workDirVars, retryVars
  <2>2. QueueOK'
    BY <1>1, <1>2, <1>14
    DEF TypeOK, QueueOK, AssembleTar, workDirVars, retryVars
  <2>3. DownOK'
    BY <1>1, <1>2, <1>14
    DEF TypeOK, DownOK, AssembleTar, workDirVars, retryVars
  <2>4. ScanOK'
    BY <1>1, <1>2, <1>14
    DEF TypeOK, ScanOK, Scanning, AssembleTar, workDirVars, retryVars
  <2>5. LoopOK'
    BY <1>1, <1>2, <1>14
    DEF TypeOK, LoopOK, WritingCache, AssembleTar, workDirVars, retryVars
  <2>6. WriteOK'
    BY <1>1, <1>2, <1>14
    DEF TypeOK, WriteOK, WritingCache, AssembleTar, workDirVars, retryVars
  <2>7. ProductOK'
    <3>1. outRows = rowManifest /\ ~done
      BY <1>2, <1>14 DEF LoopOK, ProductOK, AssembleTar, Drained
    <3>2. \A r \in Row : outRows[r].payload => rowPayload[r] = outRows[r].hash
      BY <1>2, <1>14, <3>1 DEF CachesOK, AssembleTar
    <3>3. \A r \in Row : tar'[r] = IF outRows[r].payload THEN outRows[r].hash
                                  ELSE NoPackage
      BY <1>14, <3>2 DEF AssembleTar, PackagedRows
    <3>4. /\ pc' = "writeManifest"
          /\ \A r \in Row : outRows[r] # None
          /\ UNCHANGED <<outRows, rowManifest, done>>
      BY <1>14 DEF AssembleTar, workDirVars
    <3> QED
      BY <3>1, <3>3, <3>4 DEF ProductOK, Assembling
  <2> QED
    BY <1>1, <2>1, <2>2, <2>3, <2>4, <2>5, <2>6, <2>7 DEF IInv
<1>15. CASE WriteManifest
  <2>1. CachesOK'
    BY <1>1, <1>2, <1>15
    DEF TypeOK, CachesOK, WriteManifest, workDirVars, retryVars
  <2>2. QueueOK'
    BY <1>1, <1>2, <1>15
    DEF TypeOK, QueueOK, WriteManifest, workDirVars, retryVars
  <2>3. DownOK'
    BY <1>1, <1>2, <1>15
    DEF TypeOK, DownOK, WriteManifest, workDirVars, retryVars
  <2>4. ScanOK'
    BY <1>1, <1>2, <1>15
    DEF TypeOK, ScanOK, Scanning, WriteManifest, workDirVars, retryVars
  <2>5. LoopOK'
    BY <1>1, <1>2, <1>15
    DEF TypeOK, LoopOK, WritingCache, WriteManifest, workDirVars, retryVars
  <2>6. WriteOK'
    BY <1>1, <1>2, <1>15
    DEF TypeOK, WriteOK, WritingCache, WriteManifest, workDirVars, retryVars
  <2>7. ProductOK'
    BY <1>1, <1>2, <1>15
    DEF TypeOK, ProductOK, ProductAgrees, Assembling, WriteManifest,
        workDirVars, retryVars
  <2> QED
    BY <1>1, <2>1, <2>2, <2>3, <2>4, <2>5, <2>6, <2>7 DEF IInv
<1>16. CASE MarkDone
  <2>1. CachesOK'
    BY <1>1, <1>2, <1>16
    DEF TypeOK, CachesOK, MarkDone, workDirVars, retryVars
  <2>2. QueueOK'
    BY <1>1, <1>2, <1>16 DEF TypeOK, QueueOK, MarkDone, workDirVars, retryVars
  <2>3. DownOK'
    BY <1>1, <1>2, <1>16 DEF TypeOK, DownOK, MarkDone, workDirVars, retryVars
  <2>4. ScanOK'
    BY <1>1, <1>2, <1>16
    DEF TypeOK, ScanOK, Scanning, MarkDone, workDirVars, retryVars
  <2>5. LoopOK'
    BY <1>1, <1>2, <1>16
    DEF TypeOK, LoopOK, WritingCache, MarkDone, workDirVars, retryVars
  <2>6. WriteOK'
    BY <1>1, <1>2, <1>16
    DEF TypeOK, WriteOK, WritingCache, MarkDone, workDirVars, retryVars
  <2>7. ProductOK'
    <3>1. /\ manifest = outRows /\ outRows = rowManifest
          /\ ProductAgrees
      BY <1>2, <1>16 DEF ProductOK, ProductAgrees, Assembling, MarkDone
    <3>2. \A r \in Row : WellFormed(manifest[r])
      BY <1>2, <1>16, <3>1 DEF CachesOK, ProductAgrees
    <3>3. pc' = "clean" /\ done' = TRUE /\ UNCHANGED <<manifest, tar>>
      BY <1>16 DEF MarkDone
    <3> QED
      BY <3>1, <3>2, <3>3 DEF ProductOK, ProductAgrees, Assembling
  <2> QED
    BY <1>1, <2>1, <2>2, <2>3, <2>4, <2>5, <2>6, <2>7 DEF IInv
<1>17. ASSUME NEW r \in pending, NEW status \in Status, Requeue(r, status)
      PROVE  IInv'
  <2>1. CachesOK'
    BY <1>1, <1>2, <1>17 DEF TypeOK, CachesOK, Requeue, productVars
  <2>2. QueueOK'
    <3>1. r \in Row /\ r \notin Elements(queue)
      BY <1>1, <1>2 DEF TypeOK, QueueOK
    <3> QED
      BY <1>1, <1>2, <1>17, <3>1, AppendElements DEF TypeOK, QueueOK, Requeue
  <2>3. DownOK'
    BY <1>1, <1>2, <1>17 DEF TypeOK, DownOK, Requeue, productVars
  <2>4. ScanOK'
    BY <1>1, <1>2, <1>17 DEF TypeOK, ScanOK, Scanning, Requeue, productVars
  <2>5. LoopOK'
    <3>1. Elements(queue') = Elements(queue) \cup {r}
      BY <1>1, <1>17, AppendElements DEF TypeOK, Requeue
    <3>2. Elements(queue') \cup pending' = Elements(queue) \cup pending
      BY <1>17, <3>1 DEF Requeue
    <3> QED
      BY <1>2, <1>17, <3>2 DEF LoopOK, WritingCache, Requeue
  <2>6. WriteOK'
    BY <1>1, <1>2, <1>17
    DEF TypeOK, WriteOK, WritingCache, Requeue, productVars
  <2>7. ProductOK'
    BY <1>1, <1>2, <1>17
    DEF TypeOK, ProductOK, ProductAgrees, Assembling, Requeue, productVars
  <2> QED
    BY <1>1, <2>1, <2>2, <2>3, <2>4, <2>5, <2>6, <2>7 DEF IInv
<1>18. ASSUME NEW r \in pending, NEW status \in Status, Block(r, status)
      PROVE  IInv'
  <2>1. CachesOK'
    BY <1>1, <1>2, <1>18 DEF TypeOK, CachesOK, Block, workDirVars, productVars
  <2>2. QueueOK'
    BY <1>1, <1>2, <1>18 DEF TypeOK, QueueOK, Block, workDirVars, productVars
  <2>3. DownOK'
    BY <1>1, <1>2, <1>18 DEF TypeOK, DownOK, Block, workDirVars, productVars
  <2>4. ScanOK'
    BY <1>1, <1>2, <1>18
    DEF TypeOK, ScanOK, Scanning, Block, workDirVars, productVars
  <2>5. LoopOK'
    <3>1. r \in Row /\ r \notin Elements(queue)
      BY <1>1, <1>2 DEF TypeOK, QueueOK
    <3>2. /\ pc = "loop" /\ pc' = "writePayload" /\ cursor' = r
          /\ pending' = pending \ {r}
          /\ UNCHANGED <<outRows, rowManifest, queue>>
      BY <1>18 DEF Block, workDirVars
    <3> QED
      BY <1>2, <3>1, <3>2 DEF LoopOK, WritingCache
  <2>6. WriteOK'
    <3> DEFINE out == ProcessRow(status, fetched[r] + 1)
    <3>0. /\ r \in Row
          /\ fetched[r] \in Nat /\ attempts[r] \in Nat
          /\ histories[r] \in Seq(Status)
      BY <1>1 DEF TypeOK
    <3>1. /\ r \in Row
          /\ fetched[r] + 1 \in Nat \ {0}
          /\ attempts[r] + 1 \in Nat
          /\ histories[r] \in Seq(Status)
          /\ Append(histories[r], status) \in Seq(Status)
      BY <3>0
    <3>2. out \in RowResult /\ SoundResult(out)
      BY <3>1, ProcessRowType, ProcessRowSound
    <3>3. SoundResult(result')
      <4>1. result' = MarkRetryBlocked(out, attempts[r] + 1,
                                       Append(histories[r], status))
        BY <1>18 DEF Block
      <4> HIDE DEF out
      <4> QED BY <3>1, <3>2, <4>1, BlockedSound
    <3>4. rowManifest[r] = None
      BY <1>2, <1>18, <3>1 DEF LoopOK, Block
    <3>5. /\ pc' = "writePayload" /\ cursor' = r
          /\ UNCHANGED rowManifest
      BY <1>18 DEF Block, workDirVars
    <3> QED
      BY <3>3, <3>4, <3>5 DEF WriteOK, WritingCache
  <2>7. ProductOK'
    BY <1>1, <1>2, <1>18
    DEF TypeOK, ProductOK, ProductAgrees, Assembling, Block, workDirVars,
        productVars
  <2> QED
    BY <1>1, <2>1, <2>2, <2>3, <2>4, <2>5, <2>6, <2>7 DEF IInv
<1>19. ASSUME NEW r \in pending, NEW status \in Status, Accept(r, status)
      PROVE  IInv'
  <2>1. CachesOK'
    BY <1>1, <1>2, <1>19
    DEF TypeOK, CachesOK, Accept, workDirVars, productVars
  <2>2. QueueOK'
    BY <1>1, <1>2, <1>19 DEF TypeOK, QueueOK, Accept, workDirVars, productVars
  <2>3. DownOK'
    BY <1>1, <1>2, <1>19 DEF TypeOK, DownOK, Accept, workDirVars, productVars
  <2>4. ScanOK'
    BY <1>1, <1>2, <1>19
    DEF TypeOK, ScanOK, Scanning, Accept, workDirVars, productVars
  <2>5. LoopOK'
    <3>1. r \in Row /\ r \notin Elements(queue)
      BY <1>1, <1>2 DEF TypeOK, QueueOK
    <3>2. /\ pc = "loop" /\ pc' = "writePayload" /\ cursor' = r
          /\ pending' = pending \ {r}
          /\ UNCHANGED <<outRows, rowManifest, queue>>
      BY <1>19 DEF Accept, workDirVars
    <3> QED
      BY <1>2, <3>1, <3>2 DEF LoopOK, WritingCache
  <2>6. WriteOK'
    <3> DEFINE out == ProcessRow(status, fetched[r] + 1)
    <3>0. /\ r \in Row
          /\ fetched[r] \in Nat /\ attempts[r] \in Nat
          /\ histories[r] \in Seq(Status)
      BY <1>1 DEF TypeOK
    <3>1. /\ r \in Row
          /\ fetched[r] + 1 \in Nat \ {0}
          /\ attempts[r] + 1 \in Nat
          /\ histories[r] \in Seq(Status)
          /\ Append(histories[r], status) \in Seq(Status)
      BY <3>0
    <3>2. out \in RowResult /\ SoundResult(out)
      BY <3>1, ProcessRowType, ProcessRowSound
    <3>3. SoundResult(result')
      <4>1. result' \in
              {out, AnnotateRetrySuccess(out, attempts[r] + 1, histories[r])}
        BY <1>19 DEF Accept
      <4> HIDE DEF out
      <4> QED BY <3>1, <3>2, <4>1, AnnotatedSound
    <3>4. rowManifest[r] = None
      BY <1>2, <1>19, <3>1 DEF LoopOK, Accept
    <3>5. /\ pc' = "writePayload" /\ cursor' = r
          /\ UNCHANGED rowManifest
      BY <1>19 DEF Accept, workDirVars
    <3> QED
      BY <3>3, <3>4, <3>5 DEF WriteOK, WritingCache
  <2>7. ProductOK'
    BY <1>1, <1>2, <1>19
    DEF TypeOK, ProductOK, ProductAgrees, Assembling, Accept, workDirVars,
        productVars
  <2> QED
    BY <1>1, <2>1, <2>2, <2>3, <2>4, <2>5, <2>6, <2>7 DEF IInv
<1>20. ASSUME NEW r \in Row, CleanFile(r) PROVE IInv'
  <2>1. CachesOK'
    <3>1. done /\ done' = done
      BY <1>2, <1>20 DEF ProductOK, CleanFile, productVars
    <3>2. \A s \in Row :
            /\ rowManifest'[s] \in {rowManifest[s], None}
            /\ rowPayload'[s] \in {rowPayload[s], NoPackage}
      BY <1>1, <1>20 DEF TypeOK, CleanFile
    <3> QED
      BY <1>2, <3>1, <3>2 DEF CachesOK
  <2>2. QueueOK'
    BY <1>1, <1>2, <1>20 DEF TypeOK, QueueOK, CleanFile, productVars, procVars
  <2>3. DownOK'
    BY <1>1, <1>2, <1>20 DEF TypeOK, DownOK, CleanFile, productVars, procVars
  <2>4. ScanOK'
    BY <1>1, <1>2, <1>20
    DEF TypeOK, ScanOK, Scanning, CleanFile, productVars, procVars
  <2>5. LoopOK'
    BY <1>1, <1>2, <1>20
    DEF TypeOK, LoopOK, WritingCache, CleanFile, productVars, procVars
  <2>6. WriteOK'
    BY <1>1, <1>2, <1>20
    DEF TypeOK, WriteOK, WritingCache, CleanFile, productVars, procVars
  <2>7. ProductOK'
    BY <1>1, <1>2, <1>20
    DEF TypeOK, ProductOK, ProductAgrees, Assembling, CleanFile, productVars,
        procVars
  <2> QED
    BY <1>1, <2>1, <2>2, <2>3, <2>4, <2>5, <2>6, <2>7 DEF IInv
<1>21. CASE Finish \/ Crash \/ Fail
  <2>1. CachesOK'
    BY <1>1, <1>2, <1>21
    DEF TypeOK, CachesOK, Finish, Crash, Fail, ProcessEnds, workDirVars,
        productVars
  <2>2. QueueOK'
    <3>1. queue' = <<>> /\ pending' = {}
      BY <1>21 DEF Finish, Crash, Fail, ProcessEnds
    <3> QED
      BY <3>1 DEF QueueOK, NoDuplicates, Elements
  <2>3. DownOK'
    BY <1>1, <1>2, <1>21
    DEF TypeOK, DownOK, Finish, Crash, Fail, ProcessEnds, workDirVars,
        productVars
  <2>4. ScanOK'
    BY <1>1, <1>2, <1>21
    DEF TypeOK, ScanOK, Scanning, Finish, Crash, Fail, ProcessEnds,
        workDirVars, productVars
  <2>5. LoopOK'
    BY <1>1, <1>2, <1>21
    DEF TypeOK, LoopOK, WritingCache, Finish, Crash, Fail, ProcessEnds,
        workDirVars, productVars
  <2>6. WriteOK'
    BY <1>1, <1>2, <1>21
    DEF TypeOK, WriteOK, WritingCache, Finish, Crash, Fail, ProcessEnds,
        workDirVars, productVars
  <2>7. ProductOK'
    BY <1>1, <1>2, <1>21
    DEF TypeOK, ProductOK, ProductAgrees, Assembling, Finish, Crash, Fail,
        ProcessEnds, workDirVars, productVars
  <2> QED
    BY <1>1, <2>1, <2>2, <2>3, <2>4, <2>5, <2>6, <2>7 DEF IInv
<1>22. CASE UNCHANGED vars
  BY <1>1, <1>2, <1>22
  DEF vars, IInv, TypeOK, CachesOK, QueueOK, DownOK, ScanOK, LoopOK, WriteOK,
      ProductOK, ProductAgrees, Scanning, WritingCache, Assembling
<1> QED
  BY <1>3, <1>4, <1>5, <1>6, <1>7, <1>8, <1>9, <1>10, <1>11, <1>12, <1>13,
     <1>14, <1>15, <1>16, <1>17, <1>18, <1>19, <1>20, <1>21, <1>22
  DEF Next, Step, FetchStep

(***************************************************************************)
(* Without --force the invariant holds in every reachable state.           *)
(***************************************************************************)
THEOREM InvCorrect ==
  ASSUME NoForce
  PROVE  Spec => []IInv
<1>1. IInv /\ [Next]_vars => IInv'
  BY InvNext
<1> QED
  BY <1>1, InvInit, PTL DEF Spec

(***************************************************************************)
(* A row cache that survives a kill never pairs a manifest with the        *)
(* payload of another attempt.                                             *)
(***************************************************************************)
THEOREM CacheAgreement ==
  ASSUME NoForce
  PROVE  Spec => []CacheAgrees
<1>1. IInv => CacheAgrees
  BY DEF IInv, TypeOK, CachesOK, CacheAgrees
<1> QED
  BY <1>1, InvCorrect, PTL

(***************************************************************************)
(* Whoever finds the done marker finds a tar and a manifest that agree on  *)
(* every row.                                                              *)
(***************************************************************************)
THEOREM DoneAgreement ==
  ASSUME NoForce
  PROVE  Spec => []DoneAgrees
<1>1. IInv => DoneAgrees
  BY DEF IInv, ProductOK, DoneAgrees
<1> QED
  BY <1>1, InvCorrect, PTL

(***************************************************************************)
(* The check for missing rows in assemble_subtar never raises, and every   *)
(* payload it opens is there.                                              *)
(***************************************************************************)
THEOREM AssemblyComplete ==
  ASSUME NoForce
  PROVE  Spec => []NothingMissing
<1>1. ASSUME IInv PROVE NothingMissing
  <2>1. SUFFICES ASSUME Drained, NEW r \in Row
                 PROVE  /\ outRows[r] # None
                        /\ outRows[r].payload => rowPayload[r] # NoPackage
    BY DEF NothingMissing
  <2>2. Elements(queue) \cup pending = {}
    BY <2>1 DEF Drained, Elements
  <2>3. outRows[r] # None /\ outRows[r] = rowManifest[r] /\ ~done
    BY <1>1, <2>1, <2>2 DEF IInv, LoopOK, ProductOK, Drained
  <2> QED
    BY <1>1, <2>3 DEF IInv, CachesOK, WellFormed
<1> QED
  BY <1>1, InvCorrect, PTL

(***************************************************************************)
(* A published subtar never changes again.                                 *)
(***************************************************************************)
THEOREM PublishedStays ==
  ASSUME NoForce
  PROVE  Spec => PublishedUnchanged
<1>1. ASSUME IInv, done, [Next]_vars PROVE UNCHANGED productVars
  <2>1. pc \in {"down", "clean", "skip"}
    BY <1>1 DEF IInv, ProductOK
  <2> QED
    BY <1>1, <2>1
    DEF Next, Step, FetchStep, vars, productVars, Start, ScanCached,
        ScanMissing, ScanRetried, DropRowManifest, DropRowPayload,
        LoadRetryStates, FillPending, Requeue, Block, Accept, WriteRowPayload,
        WriteRowManifest, DropRetryState, AssembleTar, Drained, WriteManifest,
        MarkDone, CleanFile, Finish, Crash, Fail
<1>2. IInv /\ [Next]_vars => [done => UNCHANGED productVars]_vars
  BY <1>1
<1> QED
  BY <1>2, InvCorrect, PTL DEF Spec, PublishedUnchanged

(***************************************************************************)
(* A row with a final outcome keeps its cache and is never fetched again,  *)
(* nor is a published row.                                                 *)
(***************************************************************************)
THEOREM FinalKept ==
  ASSUME NoForce
  PROVE  Spec => FinalNotRefetched
<1>1. ASSUME IInv, [Next]_vars, NEW r \in Row, fetched'[r] # fetched[r]
      PROVE  ~Final(r) /\ ~done
  <2>1. PICK s \in pending, status \in Status :
          Requeue(s, status) \/ Block(s, status) \/ Accept(s, status)
    BY <1>1
    DEF Next, Step, FetchStep, vars, Start, ScanCached, ScanMissing,
        ScanRetried, DropRowManifest, DropRowPayload, LoadRetryStates,
        FillPending, WriteRowPayload, WriteRowManifest, DropRetryState,
        AssembleTar, WriteManifest, MarkDone, CleanFile, Finish, Crash, Fail
  <2>2. s = r /\ pc = "loop"
    BY <1>1, <2>1 DEF IInv, TypeOK, Requeue, Block, Accept
  <2>3. rowManifest[r] = None /\ ~done
    BY <1>1, <2>1, <2>2 DEF IInv, LoopOK, ProductOK
  <2> QED
    BY <2>3 DEF Final, Readable
<1>2. ASSUME IInv, [Next]_vars, NEW r \in Row, Final(r), ~done
      PROVE  rowManifest'[r] = rowManifest[r] /\ rowPayload'[r] = rowPayload[r]
  <2>1. /\ rowManifest[r] # None
        /\ ~RetryableRow(rowManifest[r])
        /\ rowManifest \in [Row -> ManifestRow \cup {None}]
        /\ rowPayload \in [Row -> Nat]
        /\ pc \notin {"clean", "skip"}
    BY <1>2 DEF Final, Readable, IInv, TypeOK, ProductOK
  <2>2. CASE DropRowManifest
    BY <1>2, <2>1, <2>2 DEF IInv, ScanOK, Scanning, DropRowManifest
  <2>3. CASE DropRowPayload
    BY <1>2, <2>1, <2>3 DEF IInv, ScanOK, Scanning, DropRowPayload
  <2>4. CASE WriteRowPayload
    BY <1>2, <2>1, <2>4 DEF IInv, WriteOK, WritingCache, WriteRowPayload
  <2>5. CASE WriteRowManifest
    BY <1>2, <2>1, <2>5 DEF IInv, WriteOK, WritingCache, WriteRowManifest
  <2>6. CASE UNCHANGED <<rowManifest, rowPayload>>
    BY <2>6
  <2>7. \/ DropRowManifest \/ DropRowPayload
        \/ WriteRowPayload \/ WriteRowManifest
        \/ UNCHANGED <<rowManifest, rowPayload>>
    BY <1>2, <2>1
    DEF Next, Step, FetchStep, vars, workDirVars, Start, ScanCached,
        ScanMissing, ScanRetried, LoadRetryStates, FillPending, Requeue, Block,
        Accept, DropRetryState, AssembleTar, WriteManifest, MarkDone, CleanFile,
        Finish, Crash, Fail
  <2> QED
    BY <2>2, <2>3, <2>4, <2>5, <2>6, <2>7
<1>3. IInv /\ [Next]_vars =>
        [\A r \in Row :
           /\ fetched'[r] # fetched[r] => ~Final(r) /\ ~done
           /\ Final(r) /\ ~done => /\ rowManifest'[r] = rowManifest[r]
                                  /\ rowPayload'[r] = rowPayload[r]]_vars
  BY <1>1, <1>2
<1> QED
  BY <1>3, InvCorrect, PTL DEF Spec, FinalNotRefetched

(***************************************************************************)
(* Refinement.  Under the invariant the outcome of a row is what its row   *)
(* manifest says, or once the subtar is done its manifest row: the files   *)
(* with the packages always agree.                                         *)
(***************************************************************************)
Says(row) ==
  IF row = None THEN None
  ELSE OutcomeOf(row, IF row.payload THEN row.hash ELSE NoPackage)

Rows == IF done THEN manifest ELSE rowManifest

\* What the files keep of a row is what its manifest row says.
LEMMA KeptIsSaid == IInv => \A r \in Row : KeptOutcome(r) = Says(Rows[r])
<1> SUFFICES ASSUME IInv, NEW r \in Row
             PROVE  KeptOutcome(r) = Says(Rows[r])
  OBVIOUS
<1>1. CASE done
  BY <1>1 DEF IInv, ProductOK, ProductAgrees, KeptOutcome, Says, Rows
<1>2. CASE ~done
  BY <1>2
  DEF IInv, CachesOK, WellFormed, KeptOutcome, Readable, Says, Rows
<1> QED
  BY <1>1, <1>2 DEF IInv, TypeOK

\* The same after a step.
LEMMA KeptIsSaidNext ==
  IInv' => \A r \in Row : KeptOutcome(r)' = Says(Rows'[r])
<1>1. (IInv => \A r \in Row : KeptOutcome(r) = Says(Rows[r]))'
  BY KeptIsSaid, PTL
<1> QED
  BY <1>1 DEF Says

\* What a row says is an outcome of the abstract specification.
LEMMA SaidIsOutcome ==
  ASSUME NEW row \in ManifestRow, WellFormed(row)
  PROVE  /\ Says(row) \in Outcome
         /\ Says(row) # None
         /\ RetryableRow(row) => RetryableRow(Says(row))
<1>1. row # None
  BY NoneIsApart
<1>2. Says(row) = OutcomeOf(row, IF row.payload THEN row.hash ELSE NoPackage)
  BY <1>1 DEF Says
<1>3. Says(row) \in OutcomeRecord
  BY <1>2 DEF OutcomeOf, OutcomeRecord, ManifestRow, NoPackage
<1>4. Says(row) \in Outcome
  BY <1>2, <1>3 DEF Outcome, OutcomeOf, WellFormed, NoPackage
<1>5. Says(row) # None
  BY <1>3, NoneIsApart
<1> QED
  BY <1>2, <1>4, <1>5 DEF RetryableRow, OutcomeOf

\* The abstract specification has the same outcomes.
LEMMA SameOutcomes ==
  /\ Result!Outcome = Outcome
  /\ \A o \in Outcome : Result!RetryableRow(o) <=> RetryableRow(o)
BY DEF Result!Outcome, Outcome, Result!OutcomeRecord, OutcomeRecord,
       Result!Status, Status, Result!Packaged, Packaged, Result!NoPackage,
       NoPackage, Result!RetryableRow, RetryableRow, Result!RetryableStatus,
       RetryableStatus

\* The worker's initial states are the abstract specification's.
LEMMA ImplementsInit == Init => Result!Init
BY DEF Init, Result!Init, KeptOutcome, Readable

\* A step that leaves the rows alone leaves the outcomes alone.
LEMMA SameRowsSameOutcome ==
  ASSUME IInv, IInv', UNCHANGED <<Rows, done>>
  PROVE  UNCHANGED Result!resultVars
BY KeptIsSaid, KeptIsSaidNext DEF Result!resultVars

\* Steps that change the outcome of one row, or publish.
Changes == WriteRowManifest \/ DropRowManifest \/ MarkDone

\* Steps that record, retract and publish nothing stutter.
LEMMA OtherStepsStutter ==
  ASSUME IInv, [Next]_vars, ~Changes
  PROVE  UNCHANGED <<Rows, done>>
<1>1. CASE done
  <2>1. pc \in {"down", "clean", "skip"}
    BY <1>1 DEF IInv, ProductOK
  <2>2. UNCHANGED productVars
    BY <1>1, <2>1
    DEF Next, Step, FetchStep, vars, productVars, Start, ScanCached,
        ScanMissing, ScanRetried, DropRowManifest, DropRowPayload,
        LoadRetryStates, FillPending, Requeue, Block, Accept, WriteRowPayload,
        WriteRowManifest, DropRetryState, AssembleTar, Drained, WriteManifest,
        MarkDone, CleanFile, Finish, Crash, Fail
  <2> QED
    BY <1>1, <2>2 DEF Rows, productVars
<1>2. CASE ~done
  <2>1. pc \notin {"clean", "skip"}
    BY <1>2 DEF IInv, ProductOK
  <2>2. UNCHANGED <<rowManifest, done>>
    BY <1>2, <2>1
    DEF Next, Step, FetchStep, vars, productVars, workDirVars, Start,
        ScanCached, ScanMissing, ScanRetried, DropRowPayload, LoadRetryStates,
        FillPending, Requeue, Block, Accept, WriteRowPayload, DropRetryState,
        AssembleTar, WriteManifest, CleanFile, Finish, Crash, Fail, Changes
  <2> QED
    BY <1>2, <2>2 DEF Rows
<1> QED
  BY <1>1, <1>2

\* Every step of the worker is an abstract step or stutters.
LEMMA ImplementsNext ==
  ASSUME IInv, IInv', [Next]_vars
  PROVE  [Result!Next]_(Result!resultVars)
<1> DEFINE kept == [r \in Row |-> KeptOutcome(r)]
<1>1. /\ \A r \in Row : kept[r] = Says(Rows[r])
      /\ \A r \in Row : kept'[r] = Says(Rows'[r])
  BY KeptIsSaid, KeptIsSaidNext
<1>2. CASE WriteRowManifest
  <2>1. /\ ~done /\ UNCHANGED done /\ cursor \in Row
        /\ rowManifest[cursor] = None
    BY <1>2
    DEF IInv, TypeOK, ProductOK, WriteOK, WritingCache, WriteRowManifest,
        productVars
  <2>2. rowManifest' = [rowManifest EXCEPT ![cursor] = CacheRow(result)]
    BY <1>2 DEF WriteRowManifest
  <2>3. CacheRow(result) \in ManifestRow /\ WellFormed(CacheRow(result))
    BY <1>2, CacheRowType
    DEF IInv, TypeOK, WriteOK, WritingCache, SoundResult, WriteRowManifest
  <2>4. kept[cursor] = None /\ kept'[cursor] = Says(CacheRow(result))
    BY <1>1, <2>1, <2>2 DEF IInv, TypeOK, Rows, Says
  <2>5. kept'[cursor] \in Outcome
    BY <2>3, <2>4, SaidIsOutcome
  <2>6. kept' = [kept EXCEPT ![cursor] = kept'[cursor]]
    BY <1>1, <2>1, <2>2 DEF IInv, TypeOK, Rows
  <2>7. Result!Record(cursor)
    BY <2>1, <2>4, <2>5, <2>6, SameOutcomes DEF Result!Record
  <2> QED
    BY <2>1, <2>7 DEF Result!Next
<1>3. CASE DropRowManifest
  <2>1. /\ ~done /\ UNCHANGED done /\ cursor \in Row
        /\ rowManifest[cursor] # None /\ RetryableRow(rowManifest[cursor])
        /\ rowManifest[cursor] \in ManifestRow
        /\ WellFormed(rowManifest[cursor])
    BY <1>3
    DEF IInv, TypeOK, ProductOK, CachesOK, ScanOK, Scanning, DropRowManifest,
        productVars
  <2>2. rowManifest' = [rowManifest EXCEPT ![cursor] = None]
    BY <1>3 DEF DropRowManifest
  <2>3. kept[cursor] = Says(rowManifest[cursor])
    BY <1>1, <2>1 DEF Rows
  <2>4. kept[cursor] # None /\ Result!RetryableRow(kept[cursor])
    BY <2>1, <2>3, SaidIsOutcome, SameOutcomes
  <2>5. kept' = [kept EXCEPT ![cursor] = None]
    BY <1>1, <2>1, <2>2 DEF IInv, TypeOK, Rows, Says
  <2>6. Result!Retract(cursor)
    BY <2>1, <2>4, <2>5 DEF Result!Retract
  <2> QED
    BY <2>1, <2>6 DEF Result!Next
<1>4. CASE MarkDone
  <2>1. /\ ~done /\ done' /\ Rows' = Rows
        /\ \A r \in Row : /\ rowManifest[r] # None
                          /\ rowManifest[r] \in ManifestRow
                          /\ WellFormed(rowManifest[r])
    BY <1>4
    DEF IInv, TypeOK, ProductOK, CachesOK, Assembling, MarkDone, Rows
  <2>2. \A r \in Row : kept[r] # None
    BY <1>1, <2>1, SaidIsOutcome DEF Rows
  <2>3. kept' = kept
    BY <1>1, <2>1
  <2>4. Result!Publish
    BY <2>1, <2>2, <2>3 DEF Result!Publish
  <2> QED
    BY <2>4 DEF Result!Next
<1>5. CASE ~Changes
  <2>1. UNCHANGED <<Rows, done>>
    BY <1>5, OtherStepsStutter
  <2> QED
    BY <2>1, SameRowsSameOutcome
<1> QED
  BY <1>2, <1>3, <1>4, <1>5 DEF Changes

(***************************************************************************)
(* With all its kills, failures and restarts the worker implements the     *)
(* one-shot publication of recorded outcomes.                              *)
(***************************************************************************)
THEOREM Refinement ==
  ASSUME NoForce
  PROVE  Spec => ImplementsResult
<1>1. IInv /\ IInv' /\ [Next]_vars => [Result!Next]_(Result!resultVars)
  BY ImplementsNext
<1> QED
  BY <1>1, ImplementsInit, InvCorrect, PTL
  DEF Spec, ImplementsResult, Result!Spec

(***************************************************************************)
(* The account a row gives of its attempts.  What finish_attempt writes is *)
(* accounted for: a failure that is blocked, ...                           *)
(***************************************************************************)
LEMMA BlockedAccounted ==
  ASSUME NEW status \in Status, NEW n \in Nat, NEW history \in Seq(Status)
  PROVE  LET row == CacheRow(MarkRetryBlocked(ProcessRow(status, n), Len(history) + 1,
                                              Append(history, status)))
         IN Accounted(row) /\ ~RetryableRow(row)
<1> DEFINE longer == Append(history, status)
           row == CacheRow(MarkRetryBlocked(ProcessRow(status, n), Len(history) + 1, longer))
<1>1. Len(longer) = Len(history) + 1 /\ longer[Len(history) + 1] = status
  OBVIOUS
<1> HIDE DEF longer
<1>2. /\ row.blocked /\ row.status = status
      /\ row.attempts = Len(history) + 1 /\ row.history = longer
  BY DEF CacheRow, MarkRetryBlocked, ProcessRow
<1> HIDE DEF row
<1>3. Accounted(row) /\ ~RetryableRow(row)
  BY <1>1, <1>2 DEF Accounted, AccountIsRight, RetryableRow
<1> QED BY <1>3 DEF row, longer

\* ... a success after failures, ...
LEMMA AnnotatedAccounted ==
  ASSUME NEW status \in Status, ~RetryableStatus(status), NEW n \in Nat,
         NEW history \in Seq(Status), history # <<>>
  PROVE  LET row == CacheRow(AnnotateRetrySuccess(ProcessRow(status, n),
                                                  Len(history) + 1, history))
         IN Accounted(row) /\ ~RetryableRow(row)
<1> DEFINE row == CacheRow(AnnotateRetrySuccess(ProcessRow(status, n),
                                                Len(history) + 1, history))
<1>1. /\ ~row.blocked /\ row.status = status
      /\ row.attempts = Len(history) + 1 /\ row.history = history
  BY DEF CacheRow, AnnotateRetrySuccess, ProcessRow
<1> HIDE DEF row
<1>2. Accounted(row) /\ ~RetryableRow(row)
  BY <1>1 DEF Accounted, AccountIsRight, RetryableRow
<1> QED BY <1>2 DEF row

\* ... and the result of a first attempt.
LEMMA PlainAccounted ==
  ASSUME NEW status \in Status, NEW n \in Nat
  PROVE  /\ Accounted(CacheRow(ProcessRow(status, n)))
         /\ RetryableRow(CacheRow(ProcessRow(status, n))) => RetryableStatus(status)
BY DEF CacheRow, ProcessRow, Accounted, AccountIsRight, RetryableRow

\* The options of a run that goes on.
LEMMA OptsFacts ==
  ASSUME TypeOK, pc # "down"
  PROVE  opts \in RunOptions /\ opts.retries \in Nat
BY RunOptionsAssumption DEF TypeOK

\* A result that is taken up belongs to a row that is to be fetched.
LEMMA PendingToFetch ==
  ASSUME IInv, pc = "loop", NEW r \in pending
  PROVE  r \in Row /\ r \in ToFetch /\ rowManifest[r] = None /\ ~done
BY DEF IInv, TypeOK, LoopOK, ProductOK, ToFetch, WritingCache

\* What finish_attempt takes up as a last result is accounted for, and may
\* be retried only by a run that has no row retries.
LEMMA ResultAccounted ==
  ASSUME IInv, LoopAccounted, NEW r \in pending, NEW status \in Status,
         Block(r, status) \/ Accept(r, status)
  PROVE  /\ Accounted(CacheRow(result'))
         /\ RetryableRow(CacheRow(result')) => opts.retries = 0
<1>1. pc = "loop" /\ r \in Row /\ r \in ToFetch
  BY PendingToFetch DEF Block, Accept
<1>2. /\ opts.retries \in Nat /\ attempts[r] \in Nat /\ fetched[r] + 1 \in Nat
      /\ histories[r] \in Seq(Status)
  <2>1. TypeOK /\ pc # "down"
    BY <1>1 DEF IInv
  <2>2. opts.retries \in Nat
    BY <2>1, OptsFacts
  <2> QED BY <1>1, <2>1, <2>2 DEF TypeOK
<1>3. IF opts.retries = 0 THEN attempts[r] = 0
      ELSE attempts[r] = Len(histories[r]) /\ attempts[r] <= opts.retries
  BY <1>1 DEF LoopAccounted
<1>4. CASE Block(r, status)
  <2>1. result' = MarkRetryBlocked(ProcessRow(status, fetched[r] + 1), attempts[r] + 1,
                                   Append(histories[r], status))
    BY <1>4 DEF Block
  <2>2. attempts[r] = Len(histories[r])
    BY <1>2, <1>3, <1>4 DEF Block, Retryable
  <2> QED
    BY <1>2, <2>1, <2>2, BlockedAccounted
<1>5. CASE Accept(r, status)
  <2>1. result' = IF attempts[r] > 0
                  THEN AnnotateRetrySuccess(ProcessRow(status, fetched[r] + 1),
                                            attempts[r] + 1, histories[r])
                  ELSE ProcessRow(status, fetched[r] + 1)
    BY <1>5 DEF Accept
  <2>2. ~(opts.retries > 0 /\ RetryableStatus(status))
    BY <1>5 DEF Accept, Retryable
  <2>3. CASE attempts[r] > 0
    <3>1. attempts[r] = Len(histories[r]) /\ opts.retries > 0 /\ histories[r] # <<>>
      BY <1>2, <1>3, <2>3
    <3>2. result' = AnnotateRetrySuccess(ProcessRow(status, fetched[r] + 1),
                                         Len(histories[r]) + 1, histories[r])
      BY <2>1, <2>3, <3>1
    <3> QED BY <1>2, <2>2, <3>1, <3>2, AnnotatedAccounted
  <2>4. CASE ~(attempts[r] > 0)
    <3>1. result' = ProcessRow(status, fetched[r] + 1)
      BY <2>1, <2>4
    <3> QED BY <1>2, <2>2, <3>1, PlainAccounted
  <2> QED BY <2>3, <2>4
<1> QED BY <1>4, <1>5

LEMMA AccountsInit == Init => AccountsOK
<1> SUFFICES ASSUME Init PROVE AccountsOK
  OBVIOUS
<1>1. pc = "down"
  BY DEF Init
<1> QED
  BY <1>1 DEF Init, AccountsOK, RowsAccounted, StatesAccounted, LoopAccounted,
              ToFetch, WritingCache

\* A row is written, taken over, published or forgotten, and never changed.
LEMMA RowsAccountedNext ==
  ASSUME IInv, AccountsOK, [Next]_vars
  PROVE  RowsAccounted'
<1>1. /\ \A r \in Row :
           /\ rowManifest[r] # None => Accounted(rowManifest[r])
           /\ outRows[r] # None => Accounted(outRows[r])
           /\ manifest[r] # None => Accounted(manifest[r])
      /\ WritingCache => Accounted(CacheRow(result))
  BY DEF AccountsOK, RowsAccounted
<1>2. /\ rowManifest \in [Row -> ManifestRow \cup {None}]
      /\ outRows \in [Row -> ManifestRow \cup {None}]
      /\ manifest \in [Row -> ManifestRow \cup {None}]
      /\ WritingCache => cursor \in Row
  BY DEF IInv, TypeOK
<1>3. CASE ScanCached
  <2>1. UNCHANGED <<rowManifest, manifest>> /\ cursor \in Row /\ ~WritingCache'
        /\ outRows' = [outRows EXCEPT ![cursor] = rowManifest[cursor]]
    BY <1>3, NumRowsAssumption DEF IInv, TypeOK, ScanCached, productVars, WritingCache, Row
  <2> QED BY <1>1, <1>2, <2>1 DEF RowsAccounted
<1>4. CASE DropRowManifest
  <2>1. UNCHANGED <<outRows, manifest>> /\ ~WritingCache'
        /\ rowManifest' = [rowManifest EXCEPT ![cursor] = None]
    BY <1>4 DEF DropRowManifest, productVars, WritingCache
  <2> QED BY <1>1, <1>2, <2>1 DEF RowsAccounted
<1>5. ASSUME NEW r \in pending, NEW status \in Status,
             Block(r, status) \/ Accept(r, status)
      PROVE  RowsAccounted'
  <2>1. UNCHANGED <<rowManifest, outRows, manifest>>
    BY <1>5 DEF Block, Accept, workDirVars, productVars
  <2>2. Accounted(CacheRow(result'))
    BY <1>5, ResultAccounted DEF AccountsOK
  <2> QED BY <1>1, <2>1, <2>2 DEF RowsAccounted
<1>6. CASE WriteRowPayload
  <2>1. UNCHANGED <<rowManifest, outRows, manifest, result>> /\ WritingCache
    BY <1>6 DEF WriteRowPayload, productVars, WritingCache
  <2> QED BY <1>1, <2>1 DEF RowsAccounted
<1>7. CASE WriteRowManifest
  <2>1. UNCHANGED <<outRows, manifest, result>> /\ WritingCache
        /\ rowManifest' = [rowManifest EXCEPT ![cursor] = CacheRow(result)]
    BY <1>7 DEF WriteRowManifest, productVars, WritingCache
  <2> QED BY <1>1, <1>2, <2>1 DEF RowsAccounted
<1>8. CASE DropRetryState
  <2>1. UNCHANGED <<rowManifest, manifest>> /\ WritingCache /\ ~WritingCache'
        /\ outRows' = [outRows EXCEPT ![cursor] = CacheRow(result)]
    BY <1>8 DEF DropRetryState, productVars, WritingCache
  <2> QED BY <1>1, <1>2, <2>1 DEF RowsAccounted
<1>9. CASE WriteManifest
  <2>1. UNCHANGED <<rowManifest, outRows>> /\ manifest' = outRows /\ ~WritingCache'
    BY <1>9 DEF WriteManifest, workDirVars, WritingCache
  <2> QED BY <1>1, <2>1 DEF RowsAccounted
<1>10. ASSUME NEW r \in Row, CleanFile(r) PROVE RowsAccounted'
  <2>1. UNCHANGED <<outRows, manifest>> /\ ~WritingCache'
        /\ rowManifest' \in {rowManifest, [rowManifest EXCEPT ![r] = None]}
    BY <1>10 DEF CleanFile, productVars, procVars, WritingCache
  <2> QED BY <1>1, <1>2, <2>1 DEF RowsAccounted
<1>11. CASE Finish \/ Crash \/ Fail
  <2>1. UNCHANGED <<rowManifest, manifest>> /\ ~WritingCache'
        /\ \A r \in Row : outRows'[r] = None
    BY <1>11 DEF Finish, Crash, Fail, ProcessEnds, workDirVars, productVars, WritingCache
  <2> QED BY <1>1, <2>1 DEF RowsAccounted
<1>12. CASE /\ UNCHANGED <<rowManifest, outRows, manifest, result>>
            /\ WritingCache' => WritingCache
  BY <1>1, <1>12 DEF RowsAccounted
<1>13. \/ ScanCached \/ DropRowManifest
       \/ \E r \in pending, status \in Status : Block(r, status) \/ Accept(r, status)
       \/ WriteRowPayload \/ WriteRowManifest \/ DropRetryState \/ WriteManifest
       \/ \E r \in Row : CleanFile(r)
       \/ Finish \/ Crash \/ Fail
       \/ /\ UNCHANGED <<rowManifest, outRows, manifest, result>>
          /\ WritingCache' => WritingCache
  BY DEF Next, Step, FetchStep, vars, workDirVars, productVars, Start, ScanMissing,
         ScanRetried, DropRowPayload, LoadRetryStates, FillPending, Requeue,
         AssembleTar, Drained, MarkDone, WritingCache
<1> QED
  BY <1>3, <1>4, <1>5, <1>6, <1>7, <1>8, <1>9, <1>10, <1>11, <1>12, <1>13

\* A retry state is written with the history of the row, and counts it.
LEMMA StatesAccountedNext ==
  ASSUME RetriesAgree, IInv, AccountsOK, [Next]_vars
  PROVE  StatesAccounted'
<1> DEFINE Sound(state) ==
      /\ state.used = Len(state.history)
      /\ \A o \in RunOptions : o.retries > 0 => state.used <= o.retries
<1>1. \A r \in Row : retryState[r] # None => Sound(retryState[r])
  BY DEF AccountsOK, StatesAccounted
<1>2. retryState \in [Row -> RetryState \cup {None}]
  BY DEF IInv, TypeOK
<1>3. \A o \in RunOptions : o.retries \in Nat
  BY RunOptionsAssumption
<1>4. SUFFICES \A r \in Row : retryState'[r] # None => Sound(retryState'[r])
  BY DEF StatesAccounted
<1>5. CASE ScanRetried
  <2> DEFINE row == rowManifest[cursor]
             history == IF row.history = <<>> THEN <<row.status>> ELSE row.history
             state == [used |-> Smaller(Len(history), opts.retries), history |-> history]
  <2>1. /\ cursor \in Row /\ row # None /\ row \in ManifestRow
        /\ RetryableRow(row) /\ opts \in RunOptions /\ opts.retries > 0
    <3>1. pc = "scan" /\ cursor < NumRows /\ RetriedAgain(cursor)
      BY <1>5 DEF ScanRetried
    <3>2. cursor \in Row
      BY <3>1, NumRowsAssumption DEF IInv, TypeOK, Row
    <3>3. opts \in RunOptions
      BY <3>1, OptsFacts DEF IInv
    <3> QED BY <1>2, <3>1, <3>2, <3>3 DEF IInv, TypeOK, RetriedAgain, Readable
  <2>2. row.history = <<>>
    BY <2>1 DEF AccountsOK, RowsAccounted, Accounted
  <2>3. history = <<row.status>> /\ Len(history) = 1
    BY <2>2
  <2>4. retryState' = [retryState EXCEPT ![cursor] = state]
    BY <1>5 DEF ScanRetried
  <2> HIDE DEF row, history
  <2>5. state.used = 1 /\ state.history = history
    BY <1>3, <2>1, <2>3 DEF Smaller
  <2> HIDE DEF state
  <2>6. Sound(state)
    BY <1>3, <2>3, <2>5
  <2> HIDE DEF Sound
  <2> QED BY <1>1, <1>2, <2>1, <2>4, <2>6
<1>6. ASSUME NEW r \in pending, NEW status \in Status, Requeue(r, status)
      PROVE  \A s \in Row : retryState'[s] # None => Sound(retryState'[s])
  <2> DEFINE history == Append(histories[r], status)
             state == [used |-> attempts[r] + 1, history |-> history]
  <2>1. r \in Row /\ r \in ToFetch /\ opts \in RunOptions /\ opts.retries > 0
    <3>1. pc = "loop" /\ opts.retries > 0
      BY <1>6 DEF Requeue, Retryable
    <3> QED BY <3>1, PendingToFetch, OptsFacts DEF IInv
  <2>2. /\ attempts[r] \in Nat /\ histories[r] \in Seq(Status)
        /\ attempts[r] = Len(histories[r]) /\ attempts[r] < opts.retries
    <3>1. attempts[r] \in Nat /\ histories[r] \in Seq(Status)
      BY <2>1 DEF IInv, TypeOK
    <3>2. attempts[r] < opts.retries
      BY <1>6 DEF Requeue, RetryLeft
    <3>3. opts.retries # 0
      BY <1>3, <2>1
    <3>4. attempts[r] = Len(histories[r])
      BY <2>1, <3>3 DEF AccountsOK, LoopAccounted
    <3> QED BY <3>1, <3>2, <3>4
  <2>3. Len(history) = Len(histories[r]) + 1
    BY <2>2
  <2>4. retryState' = [retryState EXCEPT ![r] = state]
    BY <1>6 DEF Requeue
  <2> HIDE DEF history
  <2>5. state.used = attempts[r] + 1 /\ state.history = history
    OBVIOUS
  <2> HIDE DEF state
  <2>6. \A o \in RunOptions : o.retries > 0 => o.retries = opts.retries
    BY <2>1 DEF RetriesAgree
  <2>7. Sound(state)
    BY <1>3, <2>1, <2>2, <2>3, <2>5, <2>6
  <2> HIDE DEF Sound
  <2> QED BY <1>1, <1>2, <2>1, <2>4, <2>7
<1>7. CASE ScanCached \/ DropRetryState
  <2>1. retryState' = [retryState EXCEPT ![cursor] = None]
    BY <1>7 DEF ScanCached, DropRetryState
  <2> HIDE DEF Sound
  <2> QED BY <1>1, <1>2, <2>1
<1>8. ASSUME NEW r \in Row, CleanFile(r)
      PROVE  \A s \in Row : retryState'[s] # None => Sound(retryState'[s])
  <2>1. retryState' \in {retryState, [retryState EXCEPT ![r] = None]}
    BY <1>8 DEF CleanFile
  <2> HIDE DEF Sound
  <2> QED BY <1>1, <1>2, <2>1
<1>9. CASE UNCHANGED retryState
  BY <1>1, <1>9
<1>10. \/ ScanRetried \/ ScanCached \/ DropRetryState
       \/ \E r \in pending, status \in Status : Requeue(r, status)
       \/ \E r \in Row : CleanFile(r)
       \/ UNCHANGED retryState
  BY DEF Next, Step, FetchStep, vars, workDirVars, Start, ScanMissing,
         DropRowManifest, DropRowPayload, LoadRetryStates, FillPending, Block,
         Accept, WriteRowPayload, WriteRowManifest, AssembleTar, WriteManifest,
         MarkDone, Finish, Crash, Fail
<1> QED
  BY <1>5, <1>6, <1>7, <1>8, <1>9, <1>10

\* The retries of a row are counted on from what the retry state says.
LEMMA LoopAccountedNext ==
  ASSUME RetriesAgree, IInv, AccountsOK, [Next]_vars
  PROVE  LoopAccounted'
<1> DEFINE Sound(r) ==
      IF opts.retries = 0 THEN attempts[r] = 0
      ELSE attempts[r] = Len(histories[r]) /\ attempts[r] <= opts.retries
<1>1. \A r \in ToFetch : Sound(r)
  BY DEF AccountsOK, LoopAccounted
<1>2. /\ attempts \in [Row -> Nat] /\ histories \in [Row -> Seq(Status)]
      /\ pending \subseteq Row /\ ToFetch \subseteq Row
  BY DEF IInv, TypeOK, ToFetch
<1>3. CASE LoadRetryStates
  <2> DEFINE Loaded(r) == outRows[r] = None /\ retryState[r] # None
  <2>1. opts \in RunOptions /\ opts.retries \in Nat /\ UNCHANGED opts
    BY <1>3, OptsFacts DEF IInv, LoadRetryStates
  <2>2. ASSUME NEW r \in Row
        PROVE  IF opts.retries = 0 THEN attempts'[r] = 0
               ELSE attempts'[r] = Len(histories'[r]) /\ attempts'[r] <= opts.retries
    <3>1. /\ attempts'[r] = IF Loaded(r) THEN Smaller(retryState[r].used, opts.retries) ELSE 0
          /\ histories'[r] = IF Loaded(r) THEN retryState[r].history ELSE <<>>
      BY <1>3 DEF LoadRetryStates
    <3>2. CASE Loaded(r)
      <4>1. /\ retryState[r].used = Len(retryState[r].history)
            /\ opts.retries > 0 => retryState[r].used <= opts.retries
            /\ retryState[r].used \in Nat
        BY <2>1, <3>2 DEF AccountsOK, StatesAccounted, IInv, TypeOK, RetryState
      <4> QED BY <2>1, <3>1, <3>2, <4>1 DEF Smaller
    <3>3. CASE ~Loaded(r)
      <4>1. attempts'[r] = 0 /\ histories'[r] = <<>>
        BY <3>1, <3>3
      <4> QED BY <2>1, <4>1
    <3> QED BY <3>2, <3>3
  <2> QED BY <2>1, <2>2 DEF LoopAccounted, ToFetch
<1>4. ASSUME NEW r \in pending, NEW status \in Status, Requeue(r, status)
      PROVE  LoopAccounted'
  <2>1. /\ r \in Row /\ r \in ToFetch /\ opts.retries \in Nat /\ opts.retries > 0
        /\ pc = "loop"
    <3>1. pc = "loop" /\ opts.retries > 0
      BY <1>4 DEF Requeue, Retryable
    <3> QED BY <3>1, PendingToFetch, OptsFacts DEF IInv
  <2>2. /\ UNCHANGED <<pc, opts, outRows, cursor>>
        /\ attempts' = [attempts EXCEPT ![r] = attempts[r] + 1]
        /\ histories' = [histories EXCEPT ![r] = Append(histories[r], status)]
        /\ attempts[r] < opts.retries
    BY <1>4 DEF Requeue, RetryLeft
  <2>3. ToFetch' = ToFetch
    BY <2>2 DEF ToFetch, WritingCache
  <2>4. ASSUME NEW s \in ToFetch
        PROVE  attempts'[s] = Len(histories'[s]) /\ attempts'[s] <= opts.retries
    <3>1. Sound(s) /\ opts.retries # 0
      BY <1>1, <2>1
    <3>2. CASE s = r
      <4>1. attempts'[s] = attempts[r] + 1 /\ histories'[s] = Append(histories[r], status)
        BY <1>2, <2>1, <2>2, <3>2
      <4>2. Len(Append(histories[r], status)) = Len(histories[r]) + 1
        BY <1>2, <2>1
      <4>3. attempts[r] = Len(histories[r]) /\ attempts[r] \in Nat
        BY <1>2, <2>1, <3>1, <3>2
      <4> QED BY <2>1, <2>2, <4>1, <4>2, <4>3
    <3>3. CASE s # r
      <4>1. attempts'[s] = attempts[s] /\ histories'[s] = histories[s]
        BY <1>2, <2>2, <3>3
      <4> QED BY <3>1, <4>1
    <3> QED BY <3>2, <3>3
  <2> QED BY <2>1, <2>2, <2>3, <2>4 DEF LoopAccounted
<1>5. ASSUME NEW r \in pending, NEW status \in Status,
             Block(r, status) \/ Accept(r, status)
      PROVE  LoopAccounted'
  <2>1. /\ pc = "loop" /\ pc' = "writePayload" /\ cursor' = r
        /\ UNCHANGED <<opts, outRows, attempts>>
        /\ histories' \in {histories,
                           [histories EXCEPT ![r] = Append(histories[r], status)]}
    BY <1>5 DEF Block, Accept
  <2>2. \A s \in ToFetch' : s \in ToFetch /\ s # r
    BY <2>1 DEF ToFetch, WritingCache
  <2>3. \A s \in ToFetch' : histories'[s] = histories[s]
    BY <1>2, <2>1, <2>2
  <2> QED BY <1>1, <2>1, <2>2, <2>3 DEF LoopAccounted
<1>6. CASE DropRetryState
  <2>1. /\ UNCHANGED <<opts, attempts, histories>> /\ WritingCache /\ pc' = "loop"
        /\ outRows' = [outRows EXCEPT ![cursor] = CacheRow(result)]
        /\ cursor \in Row /\ outRows \in [Row -> ManifestRow \cup {None}]
        /\ CacheRow(result) # None
    BY <1>6, CacheRowType, NoneIsApart
    DEF DropRetryState, retryVars, WritingCache, IInv, TypeOK
  <2>2. \A s \in ToFetch' : s \in ToFetch
    BY <2>1 DEF ToFetch, WritingCache
  <2> QED BY <1>1, <2>1, <2>2 DEF LoopAccounted
<1>7. CASE WriteRowPayload \/ WriteRowManifest
  <2>1. /\ UNCHANGED <<opts, attempts, histories, outRows, cursor>>
        /\ WritingCache /\ WritingCache' /\ pc # "loop"
    BY <1>7 DEF WriteRowPayload, WriteRowManifest, retryVars, WritingCache
  <2>2. \A s \in ToFetch' : s \in ToFetch
    BY <2>1 DEF ToFetch
  <2> QED BY <1>1, <2>1, <2>2 DEF LoopAccounted
<1>8. CASE UNCHANGED <<pc, opts, attempts, histories, outRows, cursor>>
  <2>1. ToFetch' = ToFetch
    BY <1>8 DEF ToFetch, WritingCache
  <2> QED BY <1>1, <1>8, <2>1 DEF LoopAccounted
<1>9. CASE pc' # "loop" /\ ~WritingCache'
  BY <1>9 DEF LoopAccounted, ToFetch
<1>10. \/ LoadRetryStates \/ DropRetryState \/ WriteRowPayload \/ WriteRowManifest
       \/ \E r \in pending, status \in Status :
            Requeue(r, status) \/ Block(r, status) \/ Accept(r, status)
       \/ UNCHANGED <<pc, opts, attempts, histories, outRows, cursor>>
       \/ pc' # "loop" /\ ~WritingCache'
  BY DEF Next, Step, FetchStep, vars, procVars, retryVars, Start, ScanCached,
         ScanMissing, ScanRetried, DropRowManifest, DropRowPayload, FillPending,
         AssembleTar, WriteManifest, MarkDone, CleanFile, Finish, Crash, Fail,
         ProcessEnds, WritingCache
<1> QED
  BY <1>3, <1>4, <1>5, <1>6, <1>7, <1>8, <1>9, <1>10

(***************************************************************************)
(* row_attempts counts what retry_history lists, over all the runs a row   *)
(* has taken, whatever was killed between two of its attempts.             *)
(***************************************************************************)
THEOREM HistoriesCorrect ==
  ASSUME NoForce, RetriesAgree
  PROVE  Spec => []HistoryAccounts
<1>1. AccountsOK => HistoryAccounts
  BY DEF AccountsOK, RowsAccounted, Accounted, HistoryAccounts
<1>2. IInv /\ AccountsOK /\ [Next]_vars => AccountsOK'
  BY RowsAccountedNext, StatesAccountedNext, LoopAccountedNext DEF AccountsOK
<1> QED
  BY <1>1, <1>2, AccountsInit, InvCorrect, PTL DEF Spec

(***************************************************************************)
(* The budget of a row.                                                    *)
(***************************************************************************)
LEMMA BudgetInit == Init => BudgetOK
<1> SUFFICES ASSUME Init PROVE BudgetOK
  OBVIOUS
<1>1. pc = "down" /\ runs = 0 /\ \A r \in Row : fetched[r] = 0 /\ retryState[r] = None
  BY DEF Init
<1>2. CachedFinal
  BY <1>1 DEF Init, CachedFinal, WritingCache
<1>3. UsedOK /\ FetchedOK /\ FetchesBounded
  BY <1>1 DEF UsedOK, FetchedOK, FetchesBounded, WritingCache, Used, Unsaved
<1> QED BY <1>2, <1>3 DEF BudgetOK

\* A result that could be retried is only accepted without row retries.
LEMMA ResultFinal ==
  ASSUME NEW r, NEW status \in Status, opts.retries \in Nat,
         Block(r, status) \/ Accept(r, status)
  PROVE  RetryableRow(CacheRow(result')) => opts.retries = 0
<1> DEFINE out == ProcessRow(status, fetched[r] + 1)
<1>1. CASE Block(r, status)
  <2>1. result' = MarkRetryBlocked(out, attempts[r] + 1, Append(histories[r], status))
    BY <1>1 DEF Block
  <2>2. CacheRow(result').blocked
    BY <2>1 DEF CacheRow, MarkRetryBlocked, ProcessRow
  <2> QED BY <2>2 DEF RetryableRow
<1>2. CASE Accept(r, status)
  <2>1. result' \in {out, AnnotateRetrySuccess(out, attempts[r] + 1, histories[r])}
    BY <1>2 DEF Accept
  <2>2. CacheRow(result').status = status
    <3>1. CacheRow(out).status = status
      BY DEF CacheRow, ProcessRow
    <3>2. CacheRow(AnnotateRetrySuccess(out, attempts[r] + 1, histories[r])).status = status
      BY DEF CacheRow, AnnotateRetrySuccess, ProcessRow
    <3> QED BY <2>1, <3>1, <3>2
  <2>3. ~(opts.retries > 0 /\ RetryableStatus(status))
    BY <1>2 DEF Accept, Retryable
  <2> QED BY <2>2, <2>3 DEF RetryableRow
<1> QED BY <1>1, <1>2

\* No row is cached that a run would fetch again.
LEMMA CachedFinalNext ==
  ASSUME AllOrNoneRetry, IInv, BudgetOK, [Next]_vars
  PROVE  CachedFinal' /\ ~ScanRetried /\ ~DropRowManifest /\ ~DropRowPayload
<1>1. /\ pc \notin {"dropManifest", "dropPayload"}
      /\ WritingCache /\ RetryableRow(CacheRow(result)) => WithoutRetries
      /\ \A r \in Row :
           rowManifest[r] # None /\ RetryableRow(rowManifest[r]) => WithoutRetries
  BY DEF BudgetOK, CachedFinal
<1>2. /\ rowManifest \in [Row -> ManifestRow \cup {None}]
      /\ WritingCache => cursor \in Row
      /\ \A o \in RunOptions : o.retries \in Nat
  BY RunOptionsAssumption DEF IInv, TypeOK
<1>3. ~ScanRetried
  <2>1. SUFFICES ASSUME ScanRetried PROVE FALSE
    OBVIOUS
  <2>2. /\ pc = "scan" /\ cursor < NumRows /\ rowManifest[cursor] # None
        /\ RetryableRow(rowManifest[cursor]) /\ opts.retries > 0
    BY <2>1 DEF ScanRetried, RetriedAgain, Readable
  <2>3. cursor \in Row /\ opts \in RunOptions
    BY <2>2, NumRowsAssumption, OptsFacts DEF IInv, TypeOK, Row
  <2> QED BY <1>1, <2>2, <2>3 DEF WithoutRetries
<1>4. ~DropRowManifest /\ ~DropRowPayload
  BY <1>1 DEF DropRowManifest, DropRowPayload
<1> SUFFICES CachedFinal'
  BY <1>3, <1>4
<1>5. ASSUME NEW r \in pending, NEW status \in Status,
             Block(r, status) \/ Accept(r, status)
      PROVE  CachedFinal'
  <2>1. UNCHANGED <<rowManifest, opts>> /\ pc = "loop" /\ pc' = "writePayload"
    BY <1>5 DEF Block, Accept, workDirVars
  <2>2. opts.retries \in Nat
    BY <2>1, OptsFacts DEF IInv
  <2>3. RetryableRow(CacheRow(result')) => opts.retries = 0
    BY <1>5, <2>2, ResultFinal
  <2>4. opts.retries = 0 => WithoutRetries
    BY <1>2, <2>1, OptsFacts DEF AllOrNoneRetry, IInv
  <2> QED BY <1>1, <2>1, <2>3, <2>4 DEF CachedFinal
<1>6. CASE WriteRowPayload
  <2>1. UNCHANGED <<rowManifest, result>> /\ WritingCache /\ pc' = "writeRowManifest"
    BY <1>6 DEF WriteRowPayload, WritingCache
  <2> QED BY <1>1, <2>1 DEF CachedFinal
<1>7. CASE WriteRowManifest
  <2>1. /\ UNCHANGED result /\ WritingCache /\ pc' = "dropRetryState"
        /\ rowManifest' = [rowManifest EXCEPT ![cursor] = CacheRow(result)]
    BY <1>7 DEF WriteRowManifest, WritingCache
  <2> QED BY <1>1, <1>2, <2>1 DEF CachedFinal
<1>8. ASSUME NEW r \in Row, CleanFile(r) PROVE CachedFinal'
  <2>1. pc \in {"clean", "skip"} /\ UNCHANGED pc
        /\ rowManifest' \in {rowManifest, [rowManifest EXCEPT ![r] = None]}
    BY <1>8 DEF CleanFile, procVars
  <2> QED BY <1>1, <1>2, <2>1 DEF CachedFinal, WritingCache
<1>9. CASE /\ UNCHANGED rowManifest
           /\ pc' \notin {"dropManifest", "dropPayload"}
           /\ ~WritingCache' \/ (WritingCache /\ UNCHANGED result)
  BY <1>1, <1>9 DEF CachedFinal
<1>10. \/ WriteRowPayload \/ WriteRowManifest
       \/ \E r \in pending, status \in Status : Block(r, status) \/ Accept(r, status)
       \/ \E r \in Row : CleanFile(r)
       \/ /\ UNCHANGED rowManifest
          /\ pc' \notin {"dropManifest", "dropPayload"}
          /\ ~WritingCache' \/ (WritingCache /\ UNCHANGED result)
  BY <1>1, <1>3, <1>4
  DEF Next, Step, FetchStep, vars, workDirVars, Start, ScanCached, ScanMissing,
      LoadRetryStates, FillPending, Requeue, DropRetryState, AssembleTar, Drained,
      WriteManifest, MarkDone, Finish, Crash, Fail, ProcessEnds, WritingCache
<1> QED
  BY <1>3, <1>4, <1>5, <1>6, <1>7, <1>8, <1>9, <1>10

\* A row that is put back has used up exactly what its retry state said.
LEMMA RequeueUses ==
  ASSUME IInv, BudgetOK, NEW r \in pending, NEW status \in Status, Requeue(r, status)
  PROVE  /\ pc = "loop" /\ r \in Row /\ rowManifest[r] = None /\ ~done
         /\ opts \in RunOptions /\ opts.retries \in Nat
         /\ attempts[r] \in Nat /\ attempts[r] = Used(r) /\ attempts[r] < opts.retries
         /\ retryState' = [retryState EXCEPT ![r] =
                            [used |-> attempts[r] + 1,
                             history |-> Append(histories[r], status)]]
         /\ Used(r)' = attempts[r] + 1
         /\ \A s \in Row \ {r} : retryState'[s] = retryState[s]
<1>1. pc = "loop" /\ attempts[r] < opts.retries
  BY DEF Requeue, RetryLeft
<1>2. r \in Row /\ outRows[r] = None /\ rowManifest[r] = None /\ ~done
  BY <1>1, PendingToFetch DEF ToFetch
<1>3. /\ opts \in RunOptions /\ opts.retries \in Nat /\ attempts[r] \in Nat
      /\ retryState \in [Row -> RetryState \cup {None}]
  BY <1>1, <1>2, OptsFacts DEF IInv, TypeOK
<1>4. Used(r) \in Nat
  BY <1>2, <1>3 DEF Used, RetryState
<1>5. attempts[r] = Smaller(Used(r), opts.retries)
  BY <1>1, <1>2 DEF BudgetOK, UsedOK
<1>6. attempts[r] = Used(r)
  BY <1>1, <1>3, <1>4, <1>5 DEF Smaller
<1> DEFINE state == [used |-> attempts[r] + 1, history |-> Append(histories[r], status)]
<1>7. retryState' = [retryState EXCEPT ![r] = state]
  BY DEF Requeue
<1>8. state.used = attempts[r] + 1 /\ state # None
  <2>1. histories[r] \in Seq(Status)
    BY <1>2 DEF IInv, TypeOK
  <2>2. Append(histories[r], status) \in Seq(Status)
    BY <2>1
  <2>3. state \in RetryState
    BY <1>3, <2>2 DEF RetryState
  <2> QED BY <2>3, NoneIsApart
<1>9. Used(r)' = attempts[r] + 1
  <2>1. retryState'[r] = state
    BY <1>2, <1>3, <1>7
  <2> HIDE DEF state
  <2> QED BY <1>8, <2>1 DEF Used
<1>10. \A s \in Row \ {r} : retryState'[s] = retryState[s]
  <2> HIDE DEF state
  <2> QED BY <1>3, <1>7
<1> QED
  BY <1>1, <1>2, <1>3, <1>6, <1>7, <1>9, <1>10

\* No run uses up more retries than it may, and none starts anew.
LEMMA UsedNext ==
  ASSUME AllOrNoneRetry, IInv, BudgetOK, [Next]_vars
  PROVE  UsedOK'
<1> DEFINE InRun == pc = "loop" \/ WritingCache
<1>1. \A r \in Row :
        /\ retryState[r] # None => \E o \in RunOptions : retryState[r].used <= o.retries
        /\ InRun /\ outRows[r] = None => attempts[r] = Smaller(Used(r), opts.retries)
  BY DEF BudgetOK, UsedOK
<1>2. /\ retryState \in [Row -> RetryState \cup {None}]
      /\ outRows \in [Row -> ManifestRow \cup {None}]
      /\ attempts \in [Row -> Nat]
      /\ WritingCache => cursor \in Row
  BY DEF IInv, TypeOK
<1>3. ~ScanRetried /\ ~DropRowManifest /\ ~DropRowPayload
  BY CachedFinalNext
<1>4. SUFFICES
        \A r \in Row :
          /\ retryState'[r] # None =>
               \E o \in RunOptions : retryState'[r].used <= o.retries
          /\ InRun' /\ outRows'[r] = None => attempts'[r] = Smaller(Used(r)', opts'.retries)
  BY DEF UsedOK
<1>5. CASE LoadRetryStates
  <2>1. UNCHANGED <<retryState, opts, outRows>> /\ pc = "scan"
    BY <1>5 DEF LoadRetryStates, workDirVars
  <2>2. opts.retries \in Nat
    BY <2>1, OptsFacts DEF IInv
  <2>3. ASSUME NEW r \in Row, outRows[r] = None
        PROVE  attempts'[r] = Smaller(Used(r), opts.retries)
    <3>1. attempts'[r] = IF retryState[r] # None
                         THEN Smaller(retryState[r].used, opts.retries) ELSE 0
      BY <1>5, <2>3 DEF LoadRetryStates
    <3> QED BY <2>2, <3>1 DEF Used, Smaller
  <2>4. \A r \in Row : Used(r)' = Used(r)
    BY <2>1 DEF Used
  <2> QED BY <1>1, <2>1, <2>3, <2>4
<1>6. ASSUME NEW r \in pending, NEW status \in Status, Requeue(r, status)
      PROVE  UsedOK'
  <2>1. /\ pc = "loop" /\ r \in Row /\ opts \in RunOptions /\ opts.retries \in Nat
        /\ attempts[r] \in Nat /\ attempts[r] < opts.retries
        /\ Used(r)' = attempts[r] + 1
        /\ \A s \in Row \ {r} : retryState'[s] = retryState[s]
    BY <1>6, RequeueUses
  <2>2. UNCHANGED <<pc, opts, outRows>> /\ attempts' = [attempts EXCEPT ![r] = attempts[r] + 1]
    BY <1>6 DEF Requeue
  <2>3. ASSUME NEW s \in Row, s # r
        PROVE  /\ retryState'[s] # None =>
                    \E o \in RunOptions : retryState'[s].used <= o.retries
               /\ outRows'[s] = None => attempts'[s] = Smaller(Used(s)', opts'.retries)
    <3>1. retryState'[s] = retryState[s] /\ attempts'[s] = attempts[s]
      BY <1>2, <2>1, <2>2, <2>3
    <3>2. Used(s)' = Used(s)
      BY <3>1 DEF Used
    <3> QED BY <1>1, <2>1, <2>2, <3>1, <3>2
  <2>4. /\ retryState'[r] # None =>
             \E o \in RunOptions : retryState'[r].used <= o.retries
        /\ attempts'[r] = Smaller(Used(r)', opts'.retries)
    <3>1. attempts'[r] = attempts[r] + 1 /\ attempts[r] + 1 <= opts.retries
      BY <1>2, <2>1, <2>2
    <3>2. retryState'[r] # None => retryState'[r].used = attempts[r] + 1
      BY <2>1 DEF Used
    <3>3. attempts[r] + 1 = Smaller(Used(r)', opts'.retries)
      BY <2>1, <2>2, <3>1 DEF Smaller
    <3> QED BY <2>1, <3>1, <3>2, <3>3
  <2> QED BY <2>3, <2>4 DEF UsedOK
<1>7. CASE ScanCached
  <2>1. ~InRun' /\ retryState' = [retryState EXCEPT ![cursor] = None]
    BY <1>7 DEF ScanCached, WritingCache
  <2> QED BY <1>1, <1>2, <2>1
<1>8. CASE DropRetryState
  <2>1. /\ UNCHANGED <<opts, attempts>> /\ WritingCache /\ cursor \in Row
        /\ retryState' = [retryState EXCEPT ![cursor] = None]
        /\ outRows' = [outRows EXCEPT ![cursor] = CacheRow(result)]
        /\ CacheRow(result) # None
    BY <1>8, CacheRowType, NoneIsApart
    DEF DropRetryState, retryVars, WritingCache, IInv, TypeOK
  <2>2. ASSUME NEW s \in Row, s # cursor
        PROVE  retryState'[s] = retryState[s] /\ outRows'[s] = outRows[s] /\ Used(s)' = Used(s)
    BY <1>2, <2>1, <2>2 DEF Used
  <2>3. retryState'[cursor] = None /\ outRows'[cursor] # None
    BY <1>2, <2>1
  <2> QED BY <1>1, <2>1, <2>2, <2>3
<1>9. ASSUME NEW r \in Row, CleanFile(r) PROVE UsedOK'
  <2>1. /\ pc' \in {"clean", "skip"}
        /\ retryState' \in {retryState, [retryState EXCEPT ![r] = None]}
    BY <1>9 DEF CleanFile, procVars
  <2>2. ~InRun'
    BY <2>1 DEF WritingCache
  <2> QED BY <1>1, <1>2, <2>1, <2>2 DEF UsedOK
<1>10. CASE /\ UNCHANGED retryState
            /\ ~InRun' \/ (InRun /\ UNCHANGED <<outRows, attempts, opts>>)
  <2>1. \A r \in Row : Used(r)' = Used(r)
    BY <1>10 DEF Used
  <2> QED BY <1>1, <1>10, <2>1
<1>11. \/ LoadRetryStates \/ ScanCached \/ DropRetryState
       \/ \E r \in pending, status \in Status : Requeue(r, status)
       \/ \E r \in Row : CleanFile(r)
       \/ /\ UNCHANGED retryState
          /\ ~InRun' \/ (InRun /\ UNCHANGED <<outRows, attempts, opts>>)
  BY <1>3
  DEF Next, Step, FetchStep, vars, workDirVars, retryVars, Start, ScanMissing,
      FillPending, Block, Accept, WriteRowPayload, WriteRowManifest, AssembleTar,
      Drained, WriteManifest, MarkDone, Finish, Crash, Fail, ProcessEnds, WritingCache
<1> QED
  BY <1>5, <1>6, <1>7, <1>8, <1>9, <1>10, <1>11 DEF UsedOK

\* What was fetched of a row is in its retry state, but for one result of
\* each run; that of the present run may not have been taken up yet.
LEMMA FetchedNext ==
  ASSUME NoForce, AllOrNoneRetry, IInv, BudgetOK, [Next]_vars
  PROVE  FetchedOK'
<1> DEFINE Bound(r) == Used(r) + (IF Unsaved(r) THEN runs ELSE runs - 1)
<1>1. \A r \in Row : ~done /\ rowManifest[r] = None => fetched[r] <= Bound(r)
  BY DEF BudgetOK, FetchedOK
<1>2. /\ retryState \in [Row -> RetryState \cup {None}]
      /\ rowManifest \in [Row -> ManifestRow \cup {None}]
      /\ fetched \in [Row -> Nat] /\ runs \in Nat
      /\ WritingCache => cursor \in Row
      /\ \A r \in Row : Used(r) \in Nat
  BY DEF IInv, TypeOK, Used, RetryState
<1>3. ~ScanRetried /\ ~DropRowManifest /\ ~DropRowPayload
  BY CachedFinalNext
<1>4. ASSUME NEW r \in Row, ~done', rowManifest'[r] = None,
             ~done, rowManifest[r] = None, fetched'[r] = fetched[r],
             retryState'[r] = retryState[r], runs' = runs, Unsaved(r) => Unsaved(r)'
      PROVE  fetched'[r] <= Bound(r)'
  <2>1. Used(r)' = Used(r)
    BY <1>4 DEF Used
  <2>2. fetched[r] <= Bound(r) /\ Used(r) \in Nat
    BY <1>1, <1>2, <1>4
  <2> HIDE DEF Unsaved
  <2> QED BY <1>2, <1>4, <2>1, <2>2
<1>5. ASSUME NEW o \in RunOptions, Start(o) PROVE FetchedOK'
  <2>1. /\ pc = "down" /\ runs' = runs + 1 /\ UNCHANGED <<done, rowManifest, retryState, fetched>>
        /\ pc' \in {"skip", "scan"}
    BY <1>5 DEF Start, workDirVars, productVars
  <2>2. \A r \in Row : Used(r)' = Used(r) /\ Unsaved(r) /\ ~Unsaved(r)'
    BY <2>1 DEF Used, Unsaved, WritingCache
  <2> QED BY <1>1, <1>2, <2>1, <2>2 DEF FetchedOK
<1>6. CASE ScanCached
  <2>1. /\ UNCHANGED <<done, rowManifest, fetched, runs, pc>> /\ pc = "scan"
        /\ retryState' = [retryState EXCEPT ![cursor] = None]
        /\ rowManifest[cursor] # None
    BY <1>6 DEF ScanCached, productVars, Readable
  <2>2. \A r \in Row : rowManifest[r] = None => retryState'[r] = retryState[r]
    BY <1>2, <2>1
  <2>3. \A r \in Row : ~Unsaved(r)
    BY <2>1 DEF Unsaved, WritingCache
  <2> QED BY <1>4, <2>1, <2>2, <2>3 DEF FetchedOK
<1>7. ASSUME NEW r \in pending, NEW status \in Status, Requeue(r, status)
      PROVE  FetchedOK'
  <2>1. /\ pc = "loop" /\ r \in Row /\ rowManifest[r] = None /\ ~done
        /\ attempts[r] \in Nat /\ attempts[r] = Used(r) /\ Used(r)' = attempts[r] + 1
        /\ \A s \in Row \ {r} : retryState'[s] = retryState[s]
    BY <1>7, RequeueUses
  <2>2. UNCHANGED <<done, rowManifest, runs, pc>>
        /\ fetched' = [fetched EXCEPT ![r] = fetched[r] + 1]
    BY <1>7 DEF Requeue, productVars
  <2>3. \A s \in Row : ~Unsaved(s) /\ ~Unsaved(s)'
    BY <2>1, <2>2 DEF Unsaved, WritingCache
  <2>4. fetched'[r] <= Bound(r)'
    <3>1. fetched[r] <= Used(r) + (runs - 1)
      BY <1>1, <2>1, <2>3
    <3>2. fetched'[r] = fetched[r] + 1 /\ fetched[r] \in Nat
      BY <1>2, <2>1, <2>2
    <3>3. fetched'[r] <= Used(r)' + (runs - 1)
      BY <1>2, <2>1, <3>1, <3>2
    <3> QED BY <2>1, <2>2, <2>3, <3>3
  <2>5. ASSUME NEW s \in Row, s # r, ~done, rowManifest[s] = None
        PROVE  fetched'[s] <= Bound(s)'
    <3>1. fetched'[s] = fetched[s] /\ retryState'[s] = retryState[s]
      BY <1>2, <2>1, <2>2, <2>5
    <3> HIDE DEF Bound
    <3> QED BY <1>4, <2>2, <2>3, <2>5, <3>1
  <2> QED BY <2>2, <2>4, <2>5 DEF FetchedOK
<1>8. ASSUME NEW r \in pending, NEW status \in Status,
             Block(r, status) \/ Accept(r, status)
      PROVE  FetchedOK'
  <2>1. /\ pc = "loop" /\ pc' = "writePayload" /\ cursor' = r
        /\ UNCHANGED <<done, rowManifest, retryState, runs>>
        /\ fetched' = [fetched EXCEPT ![r] = fetched[r] + 1]
    BY <1>8 DEF Block, Accept, workDirVars, productVars
  <2>2. r \in Row /\ rowManifest[r] = None /\ ~done
    BY <2>1, PendingToFetch
  <2>3. (\A s \in Row : ~Unsaved(s)) /\ Unsaved(r)'
    BY <2>1 DEF Unsaved, WritingCache
  <2>4. fetched'[r] <= Bound(r)'
    <3>1. fetched[r] <= Used(r) + (runs - 1)
      BY <1>1, <2>2, <2>3
    <3>2. fetched'[r] = fetched[r] + 1 /\ fetched[r] \in Nat /\ Used(r) \in Nat
      BY <1>2, <2>1, <2>2
    <3>3. Used(r)' = Used(r)
      BY <2>1 DEF Used
    <3>4. fetched'[r] <= Used(r)' + runs
      BY <1>2, <3>1, <3>2, <3>3
    <3> QED BY <2>1, <2>3, <3>4
  <2>5. ASSUME NEW s \in Row, s # r, ~done, rowManifest[s] = None
        PROVE  fetched'[s] <= Bound(s)'
    <3>1. fetched'[s] = fetched[s] /\ retryState'[s] = retryState[s]
      BY <1>2, <2>1, <2>5
    <3> HIDE DEF Bound
    <3> QED BY <1>4, <2>1, <2>3, <2>5, <3>1
  <2> QED BY <2>1, <2>4, <2>5 DEF FetchedOK
<1>9. CASE WriteRowManifest
  <2>1. /\ UNCHANGED <<done, retryState, fetched, runs, cursor>> /\ WritingCache /\ WritingCache'
        /\ rowManifest' = [rowManifest EXCEPT ![cursor] = CacheRow(result)]
        /\ CacheRow(result) # None /\ pc # "down"
    BY <1>9, CacheRowType, NoneIsApart
    DEF WriteRowManifest, productVars, WritingCache, IInv, TypeOK
  <2>2. \A r \in Row : rowManifest'[r] = None => rowManifest[r] = None
    BY <1>2, <2>1
  <2>3. \A r \in Row : Unsaved(r) => Unsaved(r)'
    BY <2>1 DEF Unsaved
  <2> QED BY <1>4, <2>1, <2>2, <2>3 DEF FetchedOK
<1>10. CASE DropRetryState
  <2>1. /\ UNCHANGED <<done, rowManifest, fetched, runs>> /\ cursor \in Row
        /\ pc = "dropRetryState" /\ WritingCache
        /\ retryState' = [retryState EXCEPT ![cursor] = None]
    BY <1>10 DEF DropRetryState, productVars, WritingCache, IInv, TypeOK
  <2>2. rowManifest[cursor] # None
    <3>1. rowManifest[cursor] = CacheRow(result) /\ result \in RowResult
      BY <2>1 DEF IInv, WriteOK, TypeOK
    <3> QED BY <3>1, CacheRowType, NoneIsApart
  <2>3. \A r \in Row : rowManifest[r] = None => retryState'[r] = retryState[r] /\ ~Unsaved(r)
    BY <1>2, <2>1, <2>2 DEF Unsaved
  <2> QED BY <1>4, <2>1, <2>3 DEF FetchedOK
<1>11. ASSUME NEW r \in Row, CleanFile(r) PROVE FetchedOK'
  <2>1. done /\ UNCHANGED done
    BY <1>11 DEF CleanFile, productVars, IInv, ProductOK
  <2> QED BY <2>1 DEF FetchedOK
<1>12. CASE /\ UNCHANGED <<rowManifest, retryState, fetched, runs>>
            /\ done => done'
            /\ \A r \in Row : Unsaved(r) => Unsaved(r)'
  BY <1>4, <1>12 DEF FetchedOK
<1>13. \/ \E o \in RunOptions : Start(o)
       \/ ScanCached \/ WriteRowManifest \/ DropRetryState
       \/ \E r \in pending, status \in Status :
            Requeue(r, status) \/ Block(r, status) \/ Accept(r, status)
       \/ \E r \in Row : CleanFile(r)
       \/ /\ UNCHANGED <<rowManifest, retryState, fetched, runs>>
          /\ done => done'
          /\ \A r \in Row : Unsaved(r) => Unsaved(r)'
  BY <1>3
  DEF Next, Step, FetchStep, vars, workDirVars, productVars, ScanMissing,
      LoadRetryStates, FillPending, WriteRowPayload, AssembleTar, Drained,
      WriteManifest, MarkDone, Finish, Crash, Fail, ProcessEnds, WritingCache, Unsaved
<1> QED
  BY <1>5, <1>6, <1>7, <1>8, <1>9, <1>10, <1>11, <1>12, <1>13

\* Then what was fetched is within the retries of some run.
LEMMA BoundedNext ==
  ASSUME IInv, BudgetOK, [Next]_vars
  PROVE  FetchesBounded'
<1> DEFINE Bounded(r) == fetched[r] = 0 \/ \E o \in RunOptions : fetched[r] <= o.retries + runs
<1>1. /\ \A r \in Row : Bounded(r)
      /\ fetched \in [Row -> Nat] /\ runs \in Nat
      /\ \A o \in RunOptions : o.retries \in Nat
  BY RunOptionsAssumption DEF BudgetOK, FetchesBounded, IInv, TypeOK
<1>2. ASSUME NEW r \in pending, NEW status \in Status,
             Requeue(r, status) \/ Block(r, status) \/ Accept(r, status)
      PROVE  FetchesBounded'
  <2>1. /\ pc = "loop" /\ runs' = runs
        /\ fetched' = [fetched EXCEPT ![r] = fetched[r] + 1]
    BY <1>2 DEF Requeue, Block, Accept
  <2>2. r \in Row /\ rowManifest[r] = None /\ ~done /\ opts \in RunOptions
    BY <2>1, PendingToFetch, OptsFacts DEF IInv
  <2>3. ~Unsaved(r) /\ Used(r) \in Nat
    BY <2>1, <2>2 DEF Unsaved, WritingCache, Used, RetryState, IInv, TypeOK
  <2>4. fetched[r] <= Used(r) + (runs - 1)
    BY <2>2, <2>3 DEF BudgetOK, FetchedOK
  <2>5. \E o \in RunOptions : Used(r) <= o.retries
    BY <1>1, <2>2 DEF BudgetOK, UsedOK, Used
  <2>6. \E o \in RunOptions : fetched[r] + 1 <= o.retries + runs
    <3>1. PICK o \in RunOptions : Used(r) <= o.retries
      BY <2>5
    <3>2. fetched[r] + 1 <= o.retries + runs
      BY <1>1, <2>2, <2>3, <2>4, <3>1
    <3> QED BY <3>2
  <2>7. ASSUME NEW s \in Row, s # r PROVE fetched'[s] = fetched[s]
    BY <1>1, <2>1, <2>7
  <2>8. fetched'[r] = fetched[r] + 1
    BY <1>1, <2>1, <2>2
  <2> QED BY <1>1, <2>1, <2>6, <2>7, <2>8 DEF FetchesBounded
<1>3. CASE UNCHANGED fetched /\ runs' \in {runs, runs + 1}
  <2> SUFFICES ASSUME NEW r \in Row, fetched[r] # 0
               PROVE  \E o \in RunOptions : fetched[r] <= o.retries + runs'
    BY <1>3 DEF FetchesBounded
  <2>1. PICK o \in RunOptions : fetched[r] <= o.retries + runs
    BY <1>1
  <2>2. fetched[r] <= o.retries + runs'
    BY <1>1, <1>3, <2>1
  <2> QED BY <2>2
<1>4. \/ \E r \in pending, status \in Status :
            Requeue(r, status) \/ Block(r, status) \/ Accept(r, status)
      \/ UNCHANGED fetched /\ runs' \in {runs, runs + 1}
  BY DEF Next, Step, FetchStep, vars, Start, ScanCached, ScanMissing, ScanRetried,
         DropRowManifest, DropRowPayload, LoadRetryStates, FillPending,
         WriteRowPayload, WriteRowManifest, DropRetryState, AssembleTar,
         WriteManifest, MarkDone, CleanFile, Finish, Crash, Fail
<1> QED BY <1>2, <1>3, <1>4

(***************************************************************************)
(* Over all its runs the worker takes up at most --row-retries + 1 results *)
(* of a row, and one more for each run that was cut short.                 *)
(***************************************************************************)
THEOREM BudgetCorrect ==
  ASSUME NoForce, AllOrNoneRetry
  PROVE  Spec => []FetchesBounded
<1>1. BudgetOK => FetchesBounded
  BY DEF BudgetOK
<1>2. IInv /\ BudgetOK /\ [Next]_vars => BudgetOK'
  BY CachedFinalNext, UsedNext, FetchedNext, BoundedNext DEF BudgetOK
<1> QED
  BY <1>1, <1>2, BudgetInit, InvCorrect, PTL DEF Spec
===============================================================================

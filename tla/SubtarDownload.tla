---------------------------- MODULE SubtarDownload ----------------------------
(***************************************************************************)
(* process_subtar of scripts/download_worker.py: one worker process at a   *)
(* time turns the plan of a subtar into a tar of packages, a manifest with *)
(* one row per article, and a done marker.  The process may be killed      *)
(* between any two writes to the shared file system and be started again   *)
(* with other options; what it finds then in the work directory decides    *)
(* what it fetches again.                                                  *)
(*                                                                         *)
(* One action is one effect on the file system: every write goes to a      *)
(* temporary file that is renamed, so a file has its old or its new        *)
(* content.  A fetch has no effect before its result is taken up by the    *)
(* main thread (finish_attempt), so its outcome is chosen at that moment.  *)
(***************************************************************************)
EXTENDS RowOutcome, FiniteSets

CONSTANTS
  NumRows,      \* number of rows in the subtar's plan
  Workers,      \* --workers
  RunOptions,   \* the options a run may be started with
  MaxRuns,      \* bound: how often the worker is started
  None          \* no such file, no result

ASSUME NumRowsAssumption == NumRows \in Nat
ASSUME WorkersAssumption == Workers \in Nat
ASSUME RunOptionsAssumption ==
  RunOptions \subseteq [retries : Nat, retryCached : BOOLEAN, force : BOOLEAN]
ASSUME MaxRunsAssumption == MaxRuns \in Nat

Row == 0 .. NumRows - 1

\* A row-NNNNNN.retry.json file.
RetryState == [used : Nat, history : Seq(Status)]

ASSUME NoneAssumption ==
  /\ None \notin ManifestRow
  /\ None \notin RowResult
  /\ None \notin RetryState
  /\ None \notin RunOptions
  /\ None \notin OutcomeRecord

VARIABLES
  (* Files.  The first three are in the work directory sub-MMM.work. *)
  rowManifest,  \* row-NNNNNN.json of each row, or None
  rowPayload,   \* row-NNNNNN.tar of each row, or NoPackage
  retryState,   \* row-NNNNNN.retry.json of each row, or None
  tar,          \* sub-MMM.tar: the package it has of each row
  manifest,     \* sub-MMM.jsonl: the row it has for each row, or None
  done,         \* is there a sub-MMM.done?
  incomplete,   \* is there a sub-MMM.incomplete?
  (* The memory of the worker process. *)
  pc,           \* what the main thread does next, "down" when there is none
  opts,         \* the options of the run
  cursor,       \* the row the scan of the caches, or a cache write, is at
  outRows,      \* out_rows
  attempts,     \* attempts: the retries used up, of each row
  histories,    \* retry_histories
  queue,        \* missing_indices, then retry_queue
  pending,      \* the rows handed to the thread pool
  result,       \* the result whose row cache is being written
  (* What is observed of the environment. *)
  fetched,      \* how many results were taken up for each row
  runs          \* how often the worker was started

workDirVars == <<rowManifest, rowPayload, retryState>>
productVars == <<tar, manifest, done>>
retryVars == <<attempts, histories, queue, pending>>
procVars == <<pc, opts, cursor, outRows, attempts, histories, queue, pending,
              result>>
vars == <<rowManifest, rowPayload, retryState, tar, manifest, done, incomplete,
          pc, opts, cursor, outRows, attempts, histories, queue, pending,
          result, fetched, runs>>

Phase == {"down", "scan", "dropManifest", "dropPayload", "loop", "writePayload",
          "writeRowManifest", "dropRetryState", "writeManifest",
          "markDone", "clean", "skip"}

Scanning == pc \in {"scan", "dropManifest", "dropPayload"}
WritingCache == pc \in {"writePayload", "writeRowManifest", "dropRetryState"}
Assembling == pc \in {"writeManifest", "markDone"}

TypeOK ==
  /\ rowManifest \in [Row -> ManifestRow \cup {None}]
  /\ rowPayload \in [Row -> Nat]
  /\ retryState \in [Row -> RetryState \cup {None}]
  /\ tar \in [Row -> Nat]
  /\ manifest \in [Row -> ManifestRow \cup {None}]
  /\ done \in BOOLEAN
  /\ incomplete \in BOOLEAN
  /\ pc \in Phase
  /\ opts \in RunOptions \cup {None}
  /\ pc # "down" => opts # None
  /\ cursor \in 0 .. NumRows
  /\ (WritingCache \/ pc \in {"dropManifest", "dropPayload"}) => cursor \in Row
  /\ outRows \in [Row -> ManifestRow \cup {None}]
  /\ attempts \in [Row -> Nat]
  /\ histories \in [Row -> Seq(Status)]
  /\ queue \in Seq(Row)
  /\ pending \in SUBSET Row
  /\ result \in RowResult \cup {None}
  /\ WritingCache => result # None
  /\ fetched \in [Row -> Nat]
  /\ runs \in Nat

Smaller(a, b) == IF a < b THEN a ELSE b

Init ==
  /\ rowManifest = [r \in Row |-> None]
  /\ rowPayload = [r \in Row |-> NoPackage]
  /\ retryState = [r \in Row |-> None]
  /\ tar = [r \in Row |-> NoPackage]
  /\ manifest = [r \in Row |-> None]
  /\ done = FALSE
  /\ incomplete = FALSE
  /\ pc = "down"
  /\ opts = None
  /\ cursor = 0
  /\ outRows = [r \in Row |-> None]
  /\ attempts = [r \in Row |-> 0]
  /\ histories = [r \in Row |-> <<>>]
  /\ queue = <<>>
  /\ pending = {}
  /\ result = None
  /\ fetched = [r \in Row |-> 0]
  /\ runs = 0

\* The process ends: its memory is gone.
ProcessEnds ==
  /\ pc' = "down"
  /\ opts' = None
  /\ cursor' = 0
  /\ outRows' = [r \in Row |-> None]
  /\ attempts' = [r \in Row |-> 0]
  /\ histories' = [r \in Row |-> <<>>]
  /\ queue' = <<>>
  /\ pending' = {}
  /\ result' = None

\* Plausible mistake: the done marker is not looked at.
StartIgnoringDone(o) ==
  /\ pc = "down"
  /\ runs < MaxRuns
  /\ runs' = runs + 1
  /\ opts' = o
  /\ pc' = "scan"
  /\ UNCHANGED <<workDirVars, productVars, incomplete, cursor, outRows,
                 retryVars, result, fetched>>

\* Plausible mistake: a subtar that has failed is not taken up again.
StartUnlessIncomplete(o) ==
  /\ pc = "down"
  /\ ~incomplete
  /\ runs < MaxRuns
  /\ runs' = runs + 1
  /\ opts' = o
  /\ pc' = IF done /\ ~o.force THEN "skip" ELSE "scan"
  /\ UNCHANGED <<workDirVars, productVars, incomplete, cursor, outRows,
                 retryVars, result, fetched>>

(***************************************************************************)
(* Start: the plan is read; a done marker ends the work unless --force is  *)
(* given; what is left of the work directory is removed then ("skip").     *)
(***************************************************************************)
Start(o) ==
  /\ pc = "down"
  /\ runs < MaxRuns
  /\ runs' = runs + 1
  /\ opts' = o
  /\ pc' = IF done /\ ~o.force THEN "skip" ELSE "scan"
  /\ UNCHANGED <<workDirVars, productVars, incomplete, cursor, outRows,
                 retryVars, result, fetched>>

(***************************************************************************)
(* The scan of the row caches, in the order of the rows (read_row_cache).  *)
(***************************************************************************)

\* A cache counts when its manifest is there, and its payload if it has one.
Readable(r) ==
  /\ rowManifest[r] # None
  /\ rowManifest[r].payload => rowPayload[r] # NoPackage

\* Plausible mistake: the option is ignored, and so is the blocked flag.
RetriedWheneverRetryable(r) ==
  Readable(r) /\ opts.retries > 0 /\ RetryableIgnoringBlocked(rowManifest[r])

\* --retry-cached-rows: an unblocked retryable row is fetched again.
RetriedAgain(r) ==
  /\ Readable(r)
  /\ opts.retryCached
  /\ opts.retries > 0
  /\ RetryableRow(rowManifest[r])

\* The cached row is taken over, and the retry state it had is deleted.
ScanCached ==
  /\ pc = "scan" /\ cursor < NumRows
  /\ Readable(cursor) /\ ~RetriedAgain(cursor)
  /\ outRows' = [outRows EXCEPT ![cursor] = rowManifest[cursor]]
  /\ retryState' = [retryState EXCEPT ![cursor] = None]
  /\ cursor' = cursor + 1
  /\ UNCHANGED <<rowManifest, rowPayload, productVars, incomplete, pc, opts,
                 retryVars, result, fetched, runs>>

\* Plausible mistake: rows are counted from one.
ScanMissingFromOne ==
  /\ pc = "scan" /\ cursor < NumRows
  /\ ~Readable(cursor)
  /\ queue' = Append(queue, cursor + 1)
  /\ cursor' = cursor + 1
  /\ UNCHANGED <<workDirVars, productVars, incomplete, pc, opts, outRows,
                 attempts, histories, pending, result, fetched, runs>>

\* A row without a usable cache is noted as missing.
ScanMissing ==
  /\ pc = "scan" /\ cursor < NumRows
  /\ ~Readable(cursor)
  /\ queue' = Append(queue, cursor)
  /\ cursor' = cursor + 1
  /\ UNCHANGED <<workDirVars, productVars, incomplete, pc, opts, outRows,
                 attempts, histories, pending, result, fetched, runs>>

\* The row's retry state is written first, ...
ScanRetried ==
  /\ pc = "scan" /\ cursor < NumRows
  /\ RetriedAgain(cursor)
  /\ LET row == rowManifest[cursor]
         history == IF row.history = <<>> THEN <<row.status>> ELSE row.history
     IN retryState' =
          [retryState EXCEPT ![cursor] =
             [used |-> Smaller(Len(history), opts.retries),
              history |-> history]]
  /\ pc' = "dropManifest"
  /\ UNCHANGED <<rowManifest, rowPayload, productVars, incomplete, opts, cursor,
                 outRows, retryVars, result, fetched, runs>>

\* ... then delete_row_cache removes the manifest, ...
DropRowManifest ==
  /\ pc = "dropManifest"
  /\ rowManifest' = [rowManifest EXCEPT ![cursor] = None]
  /\ pc' = "dropPayload"
  /\ UNCHANGED <<rowPayload, retryState, productVars, incomplete, opts, cursor,
                 outRows, retryVars, result, fetched, runs>>

\* ... and the payload.
DropRowPayload ==
  /\ pc = "dropPayload"
  /\ rowPayload' = [rowPayload EXCEPT ![cursor] = NoPackage]
  /\ queue' = Append(queue, cursor)
  /\ cursor' = cursor + 1
  /\ pc' = "scan"
  /\ UNCHANGED <<rowManifest, retryState, productVars, incomplete, opts,
                 outRows, attempts, histories, pending, result, fetched, runs>>

\* Plausible mistake: the retries of earlier runs are forgotten.
LoadNoRetryStates ==
  /\ pc = "scan" /\ cursor = NumRows
  /\ cursor' = 0
  /\ pc' = "loop"
  /\ UNCHANGED <<workDirVars, productVars, incomplete, opts, outRows, retryVars,
                 result, fetched, runs>>

\* The retries used up by earlier runs are loaded for the missing rows.
LoadRetryStates ==
  /\ pc = "scan" /\ cursor = NumRows
  /\ LET Loaded(r) == outRows[r] = None /\ retryState[r] # None
     IN /\ attempts' = [r \in Row |->
                          IF Loaded(r)
                          THEN Smaller(retryState[r].used, opts.retries)
                          ELSE 0]
        /\ histories' = [r \in Row |->
                           IF Loaded(r) THEN retryState[r].history ELSE <<>>]
  /\ cursor' = 0
  /\ pc' = "loop"
  /\ UNCHANGED <<workDirVars, productVars, incomplete, opts, outRows, queue,
                 pending, result, fetched, runs>>

(***************************************************************************)
(* The fetch loop.  With one worker rows are fetched one by one, with more *)
(* the thread pool holds up to twice as many as there are workers.         *)
(***************************************************************************)
MaxPending == IF Workers <= 1 THEN 1 ELSE 2 * Workers

FillPending ==
  /\ pc = "loop"
  /\ queue # <<>>
  /\ Cardinality(pending) < MaxPending
  /\ pending' = pending \cup {Head(queue)}
  /\ queue' = Tail(queue)
  /\ UNCHANGED <<workDirVars, productVars, incomplete, pc, opts, cursor,
                 outRows, attempts, histories, result, fetched, runs>>

\* Does finish_attempt have to deal with a result that may be retried?
Retryable(status) == opts.retries > 0 /\ RetryableStatus(status)

\* The row has retries left.
RetryLeft(r) == attempts[r] < opts.retries

\* Plausible mistake: the row is not put back into the queue.
RequeueForgotten(r, status) ==
  /\ pc = "loop" /\ r \in pending
  /\ Retryable(status)
  /\ RetryLeft(r)
  /\ fetched' = [fetched EXCEPT ![r] = @ + 1]
  /\ pending' = pending \ {r}
  /\ histories' = [histories EXCEPT ![r] = Append(@, status)]
  /\ attempts' = [attempts EXCEPT ![r] = @ + 1]
  /\ UNCHANGED <<workDirVars, productVars, incomplete, pc, opts, cursor,
                 outRows, queue, result, runs>>

\* finish_attempt: the row is queued again and what it used up is saved.
Requeue(r, status) ==
  /\ pc = "loop" /\ r \in pending
  /\ Retryable(status)
  /\ RetryLeft(r)
  /\ fetched' = [fetched EXCEPT ![r] = @ + 1]
  /\ pending' = pending \ {r}
  /\ histories' = [histories EXCEPT ![r] = Append(@, status)]
  /\ attempts' = [attempts EXCEPT ![r] = @ + 1]
  /\ retryState' = [retryState EXCEPT ![r] =
                      [used |-> attempts[r] + 1,
                       history |-> Append(histories[r], status)]]
  /\ queue' = Append(queue, r)
  /\ UNCHANGED <<rowManifest, rowPayload, productVars, incomplete, pc, opts,
                 cursor, outRows, result, runs>>

\* finish_attempt: a last failure is blocked, and its row cache is written.
Block(r, status) ==
  /\ pc = "loop" /\ r \in pending
  /\ Retryable(status)
  /\ ~RetryLeft(r)
  /\ fetched' = [fetched EXCEPT ![r] = @ + 1]
  /\ pending' = pending \ {r}
  /\ LET history == Append(histories[r], status)
     IN /\ histories' = [histories EXCEPT ![r] = history]
        /\ result' = MarkRetryBlocked(ProcessRow(status, fetched[r] + 1),
                                      attempts[r] + 1, history)
  /\ cursor' = r
  /\ pc' = "writePayload"
  /\ UNCHANGED <<workDirVars, productVars, incomplete, opts, outRows, attempts,
                 queue, runs>>

\* finish_attempt: any other result is final, and its row cache is written.
Accept(r, status) ==
  /\ pc = "loop" /\ r \in pending
  /\ ~Retryable(status)
  /\ fetched' = [fetched EXCEPT ![r] = @ + 1]
  /\ pending' = pending \ {r}
  /\ LET out == ProcessRow(status, fetched[r] + 1)
     IN result' = IF attempts[r] > 0
                  THEN AnnotateRetrySuccess(out, attempts[r] + 1, histories[r])
                  ELSE out
  /\ cursor' = r
  /\ pc' = "writePayload"
  /\ UNCHANGED <<workDirVars, productVars, incomplete, opts, outRows, attempts,
                 histories, queue, runs>>

(***************************************************************************)
(* write_row_cache: the payload is renamed into place, or removed when the *)
(* result has no files, before the row manifest that refers to it.         *)
(***************************************************************************)
\* Plausible mistake: a payload that is there already is not written again.
WriteRowPayloadOnce ==
  /\ pc = "writePayload"
  /\ rowPayload' = [rowPayload EXCEPT ![cursor] =
                      IF @ # NoPackage THEN @ ELSE result.files]
  /\ pc' = "writeRowManifest"
  /\ UNCHANGED <<rowManifest, retryState, productVars, incomplete, opts, cursor,
                 outRows, retryVars, result, fetched, runs>>

WriteRowPayload ==
  /\ pc = "writePayload"
  /\ rowPayload' = [rowPayload EXCEPT ![cursor] = result.files]
  /\ pc' = "writeRowManifest"
  /\ UNCHANGED <<rowManifest, retryState, productVars, incomplete, opts, cursor,
                 outRows, retryVars, result, fetched, runs>>

WriteRowManifest ==
  /\ pc = "writeRowManifest"
  /\ rowManifest' = [rowManifest EXCEPT ![cursor] = CacheRow(result)]
  /\ pc' = "dropRetryState"
  /\ UNCHANGED <<rowPayload, retryState, productVars, incomplete, opts, cursor,
                 outRows, retryVars, result, fetched, runs>>

DropRetryState ==
  /\ pc = "dropRetryState"
  /\ retryState' = [retryState EXCEPT ![cursor] = None]
  /\ outRows' = [outRows EXCEPT ![cursor] = CacheRow(result)]
  /\ result' = None
  /\ cursor' = 0
  /\ pc' = "loop"
  /\ UNCHANGED <<rowManifest, rowPayload, productVars, incomplete, opts,
                 retryVars, fetched, runs>>

(***************************************************************************)
(* assemble_subtar and the done marker.  AssembleTar reads the payloads    *)
(* from the work directory; the check for missing rows that raises before  *)
(* it is its guard, and NothingMissing says that it never raises.          *)
(***************************************************************************)
Drained == pc = "loop" /\ queue = <<>> /\ pending = {}

PackagedRows == {r \in Row : outRows[r].payload}

\* Plausible mistake: the marker is written before the manifest.
AssembleTarThenMark ==
  /\ Drained
  /\ \A r \in Row : outRows[r] # None
  /\ tar' = [r \in Row |-> IF r \in PackagedRows THEN rowPayload[r]
                           ELSE NoPackage]
  /\ pc' = "markDone"
  /\ UNCHANGED <<workDirVars, manifest, done, incomplete, opts, cursor, outRows,
                 retryVars, result, fetched, runs>>

AssembleTar ==
  /\ Drained
  /\ \A r \in Row : outRows[r] # None
  /\ tar' = [r \in Row |-> IF r \in PackagedRows THEN rowPayload[r]
                           ELSE NoPackage]
  /\ pc' = "writeManifest"
  /\ UNCHANGED <<workDirVars, manifest, done, incomplete, opts, cursor, outRows,
                 retryVars, result, fetched, runs>>

WriteManifest ==
  /\ pc = "writeManifest"
  /\ manifest' = outRows
  /\ pc' = "markDone"
  /\ UNCHANGED <<workDirVars, tar, done, incomplete, opts, cursor, outRows,
                 retryVars, result, fetched, runs>>

MarkDone ==
  /\ pc = "markDone"
  /\ done' = TRUE
  /\ pc' = "clean"
  /\ UNCHANGED <<workDirVars, tar, manifest, incomplete, opts, cursor, outRows,
                 retryVars, result, fetched, runs>>

(***************************************************************************)
(* shutil.rmtree of the work directory removes its files in no particular  *)
(* order.  After the marker was written (ignore_errors) a file that cannot *)
(* be removed is passed over, and the process returns all the same.  A run *)
(* that skips a done subtar raises then (Fail).                            *)
(***************************************************************************)
CleanFile(r) ==
  /\ pc \in {"clean", "skip"}
  /\ \/ /\ rowManifest[r] # None
        /\ rowManifest' = [rowManifest EXCEPT ![r] = None]
        /\ UNCHANGED <<rowPayload, retryState>>
     \/ /\ rowPayload[r] # NoPackage
        /\ rowPayload' = [rowPayload EXCEPT ![r] = NoPackage]
        /\ UNCHANGED <<rowManifest, retryState>>
     \/ /\ retryState[r] # None
        /\ retryState' = [retryState EXCEPT ![r] = None]
        /\ UNCHANGED <<rowManifest, rowPayload>>
  /\ UNCHANGED <<productVars, incomplete, procVars, fetched, runs>>

WorkDirEmpty ==
  \A r \in Row : /\ rowManifest[r] = None
                 /\ rowPayload[r] = NoPackage
                 /\ retryState[r] = None

\* The process returns from process_subtar.
Finish ==
  /\ pc = "clean" \/ (pc = "skip" /\ WorkDirEmpty)
  /\ ProcessEnds
  /\ UNCHANGED <<workDirVars, productVars, incomplete, fetched, runs>>

(***************************************************************************)
(* The process is killed (pod preempted, node lost), or an operation fails *)
(* whose errors are not ignored, and main records the exception in the     *)
(* .incomplete marker and raises it.  A fault needs one more run to be     *)
(* left, so the last run has none.                                         *)
(***************************************************************************)
Crash ==
  /\ pc # "down"
  /\ runs < MaxRuns
  /\ ProcessEnds
  /\ UNCHANGED <<workDirVars, productVars, incomplete, fetched, runs>>

Fail ==
  /\ pc \notin {"down", "clean"}
  /\ runs < MaxRuns
  /\ incomplete' = TRUE
  /\ ProcessEnds
  /\ UNCHANGED <<workDirVars, productVars, fetched, runs>>

FetchStep ==
  \E r \in pending, status \in Status :
    Requeue(r, status) \/ Block(r, status) \/ Accept(r, status)

Step ==
  \/ ScanCached \/ ScanMissing \/ ScanRetried
  \/ DropRowManifest \/ DropRowPayload \/ LoadRetryStates
  \/ FillPending \/ FetchStep
  \/ WriteRowPayload \/ WriteRowManifest \/ DropRetryState
  \/ AssembleTar \/ WriteManifest \/ MarkDone
  \/ (\E r \in Row : CleanFile(r)) \/ Finish

Next ==
  \/ \E o \in RunOptions : Start(o)
  \/ Step
  \/ Crash \/ Fail

Spec == Init /\ [][Next]_vars

(***************************************************************************)
(* Fairness: a running worker goes on (the time limits of the requests end *)
(* every fetch), and as long as the subtar has no done marker a worker     *)
(* that is down is submitted again, which is what recover.sh prints.  Of a *)
(* published subtar nobody needs to start it again.                        *)
(***************************************************************************)
Fairness ==
  /\ WF_vars(~done /\ \E o \in RunOptions : Start(o))
  /\ WF_vars(Step)

FairSpec == Spec /\ Fairness

(***************************************************************************)
(* Properties.                                                             *)
(***************************************************************************)

(***************************************************************************)
(* A row cache that survives a kill between its two writes (write_row_cache *)
(* and delete_row_cache) never pairs a manifest with the payload of another *)
(* attempt: read_row_cache only looks whether the payload is there.        *)
(***************************************************************************)
CacheAgrees ==
  \A r \in Row :
    /\ rowManifest[r] # None
    /\ rowManifest[r].payload
    /\ rowPayload[r] # NoPackage
    => rowPayload[r] = rowManifest[r].hash

(***************************************************************************)
(* The tar has for each row the very package its manifest row records the  *)
(* hash of, and nothing of a row whose manifest row says it has none.      *)
(***************************************************************************)
ProductAgrees ==
  \A r \in Row :
    /\ manifest[r] # None
    /\ tar[r] = IF manifest[r].payload THEN manifest[r].hash ELSE NoPackage

(***************************************************************************)
(* Whoever finds the done marker finds a tar and a manifest of the same    *)
(* attempts, although the three are renamed one after the other and the    *)
(* packages come from caches of several runs.                              *)
(***************************************************************************)
DoneAgrees == done => ProductAgrees

(***************************************************************************)
(* When the queue is drained every row has a result and the payload it     *)
(* refers to is on disk: "cannot assemble subtar with missing row caches"  *)
(* is never raised, and opening a payload never fails.                     *)
(***************************************************************************)
NothingMissing ==
  Drained =>
    \A r \in Row :
      /\ outRows[r] # None
      /\ outRows[r].payload => rowPayload[r] # NoPackage

\* The row's own account of its attempts is right.
AccountIsRight(row) ==
  IF row.blocked
  THEN /\ row.attempts = Len(row.history)
       /\ row.history[Len(row.history)] = row.status
  ELSE row.attempts # 0 => row.attempts = Len(row.history) + 1

(***************************************************************************)
(* row_attempts counts exactly the attempts that retry_history lists, and  *)
(* the successful one, also when they were made by several runs: a retry   *)
(* state saved before a kill is neither lost nor counted twice.            *)
(***************************************************************************)
HistoryAccounts ==
  \A r \in Row :
    /\ rowManifest[r] # None => AccountIsRight(rowManifest[r])
    /\ manifest[r] # None => AccountIsRight(manifest[r])

(***************************************************************************)
(* Bounded retries (README.md): over all its runs the worker takes up at   *)
(* most --row-retries + 1 results of a row, and one more for each run that *)
(* was killed, the result it had not saved yet.                            *)
(***************************************************************************)
FetchesBounded ==
  \A r \in Row :
    fetched[r] = 0 \/ \E o \in RunOptions : fetched[r] <= o.retries + runs

\* The row has a cached outcome that no option makes the worker retry.
Final(r) == Readable(r) /\ ~RetryableRow(rowManifest[r])

(***************************************************************************)
(* Resumption: the cache of a row with a final outcome, a blocked one      *)
(* included, is left alone until the subtar is published, and neither such *)
(* a row nor one of a published subtar is ever fetched again, whatever the *)
(* options of later runs.                                                  *)
(***************************************************************************)
FinalNotRefetched ==
  [][\A r \in Row :
       /\ fetched'[r] # fetched[r] => ~Final(r) /\ ~done
       /\ Final(r) /\ ~done => /\ rowManifest'[r] = rowManifest[r]
                              /\ rowPayload'[r] = rowPayload[r]]_vars

(***************************************************************************)
(* A published subtar does not change, neither while the work directory is *)
(* removed nor in later runs, whatever the removal has left behind.        *)
(***************************************************************************)
PublishedUnchanged == [][done => UNCHANGED productVars]_vars

(***************************************************************************)
(* The outcome a row has on disk: published in tar and manifest, or kept   *)
(* in the row's cache.                                                     *)
(***************************************************************************)
OutcomeOf(row, package) ==
  [status |-> row.status, blocked |-> row.blocked, hash |-> row.hash,
   package |-> package, attempts |-> row.attempts, history |-> row.history]

KeptOutcome(r) ==
  IF done THEN OutcomeOf(manifest[r], tar[r])
  ELSE IF Readable(r)
  THEN OutcomeOf(rowManifest[r],
                 IF rowManifest[r].payload THEN rowPayload[r] ELSE NoPackage)
  ELSE None

Result == INSTANCE SubtarResult
            WITH outcome <- [r \in Row |-> KeptOutcome(r)], published <- done

(***************************************************************************)
(* With its crashes and restarts the worker implements the one-shot        *)
(* publication of recorded outcomes: no kill loses or changes an outcome   *)
(* that was recorded, and the marker publishes exactly those.              *)
(***************************************************************************)
ImplementsResult == Result!Spec

(***************************************************************************)
(* With finitely many faults the subtar is published for good, whatever    *)
(* caches, retry states and markers the killed and failed runs have left   *)
(* for the last one.  Nothing is promised of the work directory, whose     *)
(* removal may fail without notice.                                        *)
(***************************************************************************)
EventuallyDone == <>[](done /\ pc = "down")

(***************************************************************************)
(* README.md: each package records its hash over names and payloads, and   *)
(* completion markers make the collection resumable: once a run has come   *)
(* to a done marker, tar and manifest agree.                               *)
(***************************************************************************)
MarkerMeansAgreement == pc \in {"clean", "skip"} => ProductAgrees

(***************************************************************************)
(* The inductive invariant behind the theorems of SubtarDownloadProofs,    *)
(* for runs without --force.                                               *)
(***************************************************************************)
NoForce == \A o \in RunOptions : ~o.force

Elements(seq) == {seq[i] : i \in DOMAIN seq}

NoDuplicates(seq) ==
  \A i, j \in DOMAIN seq : seq[i] = seq[j] => i = j

\* The payload flag of a row is that of an unblocked row with a package.
WellFormed(row) ==
  /\ row.hash # NoPackage <=> Packaged(row.status)
  /\ row.payload <=> ~row.blocked /\ row.hash # NoPackage

\* A result has files exactly when its cached row will have a payload.
SoundResult(out) ==
  /\ WellFormed(CacheRow(out))
  /\ out.files = IF out.blocked THEN NoPackage ELSE out.hash

\* Up to the done marker a row manifest has its payload.
CachesOK ==
  \A r \in Row : rowManifest[r] # None =>
    /\ WellFormed(rowManifest[r])
    /\ ~done /\ rowManifest[r].payload => rowPayload[r] = rowManifest[r].hash
    /\ done /\ rowManifest[r].payload =>
         rowPayload[r] \in {rowManifest[r].hash, NoPackage}

\* The queue is without duplicates, and has nothing that is being fetched.
QueueOK ==
  /\ NoDuplicates(queue)
  /\ Elements(queue) \cap pending = {}

\* Without a process there is nothing in memory.
DownOK ==
  pc = "down" =>
    /\ pending = {} /\ queue = <<>> /\ result = None /\ cursor = 0
    /\ \A r \in Row : outRows[r] = None

\* The rows before the cursor are taken over or in the queue.
ScanOK ==
  Scanning =>
    /\ pending = {} /\ result = None
    /\ Elements(queue) = {r \in Row : r < cursor /\ outRows[r] = None}
    /\ \A r \in Row : outRows[r] = IF r < cursor THEN rowManifest[r] ELSE None
    /\ pc = "dropManifest" =>
         rowManifest[cursor] # None /\ RetryableRow(rowManifest[cursor])
    /\ pc = "dropPayload" => rowManifest[cursor] = None

\* Every row is taken over, waits, is being fetched, or is being written.
LoopOK ==
  /\ pc = "loop" =>
       /\ Elements(queue) \cup pending = {r \in Row : outRows[r] = None}
       /\ outRows = rowManifest
  /\ WritingCache =>
       /\ outRows[cursor] = None
       /\ Elements(queue) \cup pending =
            {r \in Row : outRows[r] = None} \ {cursor}
       /\ \A r \in Row \ {cursor} : outRows[r] = rowManifest[r]

\* The result being written and how far it has come.
WriteOK ==
  WritingCache =>
    /\ SoundResult(result)
    /\ rowManifest[cursor] = IF pc = "dropRetryState" THEN CacheRow(result)
                             ELSE None
    /\ pc # "writePayload" => rowPayload[cursor] = result.files

\* The product follows the caches until the marker, and then stays.
ProductOK ==
  /\ Assembling =>
       /\ outRows = rowManifest
       /\ \A r \in Row :
            /\ outRows[r] # None
            /\ tar[r] = IF outRows[r].payload THEN outRows[r].hash
                        ELSE NoPackage
       /\ pc = "markDone" => manifest = outRows
  /\ done =>
       /\ pc \in {"down", "clean", "skip"}
       /\ ProductAgrees
       /\ \A r \in Row : WellFormed(manifest[r])
  /\ pc \in {"clean", "skip"} => done

IInv ==
  /\ TypeOK
  /\ CachesOK /\ QueueOK
  /\ DownOK /\ ScanOK /\ LoopOK /\ WriteOK
  /\ ProductOK

(***************************************************************************)
(* The invariant behind HistoryAccounts, for runs that have no row retries *)
(* or as many as the others that have some: a smaller number cuts off what *)
(* a retry state says was used up, and row_attempts with it.               *)
(***************************************************************************)
RetriesAgree ==
  \A o, p \in RunOptions : o.retries > 0 /\ p.retries > 0 => o.retries = p.retries

Accounted(row) ==
  /\ AccountIsRight(row)
  /\ RetryableRow(row) => row.history = <<>>

\* The rows that are still to be fetched in this run, or are being fetched.
ToFetch ==
  {r \in Row : /\ pc = "loop" \/ WritingCache
              /\ outRows[r] = None
              /\ ~(WritingCache /\ r = cursor)}

\* Every row gives a right account of its attempts, wherever it is kept.
RowsAccounted ==
  /\ \A r \in Row :
       /\ rowManifest[r] # None => Accounted(rowManifest[r])
       /\ outRows[r] # None => Accounted(outRows[r])
       /\ manifest[r] # None => Accounted(manifest[r])
  /\ WritingCache => Accounted(CacheRow(result))

\* A retry state has as many retries as failures, and no more than allowed.
StatesAccounted ==
  \A r \in Row : retryState[r] # None =>
    /\ retryState[r].used = Len(retryState[r].history)
    /\ \A o \in RunOptions : o.retries > 0 => retryState[r].used <= o.retries

\* So has the memory of the process.
LoopAccounted ==
  \A r \in ToFetch :
    IF opts.retries = 0 THEN attempts[r] = 0
    ELSE attempts[r] = Len(histories[r]) /\ attempts[r] <= opts.retries

AccountsOK == RowsAccounted /\ StatesAccounted /\ LoopAccounted

(***************************************************************************)
(* The invariant behind FetchesBounded, for runs that all have row retries *)
(* or all have none: one without forgets what the others have used up.  No *)
(* row is cached that a run would fetch again, so what was fetched of a    *)
(* row is in its retry state, but for one result of each run.              *)
(***************************************************************************)
WithoutRetries == \A o \in RunOptions : o.retries = 0

AllOrNoneRetry ==
  WithoutRetries \/ \A o \in RunOptions : o.retries > 0

Used(r) == IF retryState[r] = None THEN 0 ELSE retryState[r].used

\* Has this run taken up a result of the row that is saved nowhere yet?
Unsaved(r) == pc = "down" \/ (WritingCache /\ cursor = r)

\* Whatever is cached is final, when there are row retries.
CachedFinal ==
  /\ pc \notin {"dropManifest", "dropPayload"}
  /\ WritingCache /\ RetryableRow(CacheRow(result)) => WithoutRetries
  /\ \A r \in Row :
       rowManifest[r] # None /\ RetryableRow(rowManifest[r]) => WithoutRetries

\* No run has used up more than it may, and each goes on where it stood.
UsedOK ==
  \A r \in Row :
    /\ retryState[r] # None => \E o \in RunOptions : retryState[r].used <= o.retries
    /\ (pc = "loop" \/ WritingCache) /\ outRows[r] = None =>
         attempts[r] = Smaller(Used(r), opts.retries)

FetchedOK ==
  \A r \in Row : ~done /\ rowManifest[r] = None =>
    fetched[r] <= Used(r) + (IF Unsaved(r) THEN runs ELSE runs - 1)

BudgetOK == CachedFinal /\ UsedOK /\ FetchedOK /\ FetchesBounded
===============================================================================

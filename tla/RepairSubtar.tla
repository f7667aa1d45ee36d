----------------------------- MODULE RepairSubtar -----------------------------
(***************************************************************************)
(* repair_subtar of scripts/repair_retries.py: the rows of a published     *)
(* subtar that ended in a retryable status are fetched again, and tar and  *)
(* manifest are rebuilt and replaced one after the other.  The row caches  *)
(* of the repair live in a work directory of their own, which a killed     *)
(* repair leaves to the next one.                                          *)
(*                                                                         *)
(* As in SubtarDownload one action is one effect on the file system.  The  *)
(* retry queue and the thread pool are one set: a result may come of any   *)
(* row that is not done.  The lists of earlier attempts (retry_history,    *)
(* row_attempts), which the repair only extends, are left out.             *)
(***************************************************************************)
EXTENDS RowOutcome, FiniteSets

CONSTANTS
  NumRows,        \* number of rows in the subtar's plan
  RepairOptions,  \* the options a repair may be started with
  MaxRuns,        \* bound: how often a repair is started
  None            \* no such file, no result

ASSUME NumRowsAssumption == NumRows \in Nat
ASSUME RepairOptionsAssumption ==
  RepairOptions \subseteq [retries : Nat, maxRows : Nat]
ASSUME MaxRunsAssumption == MaxRuns \in Nat

Row == 0 .. NumRows - 1

\* A manifest row: its status and the package it gives the hash of.
RepairRow == [status : Status, blocked : BOOLEAN, hash : Nat]

ASSUME NoneAssumption == None \notin RepairRow /\ None \notin RepairOptions

VARIABLES
  (* Files: the published pair, and those in sub-MMM.repair.work. *)
  tar,          \* the package sub-MMM.tar has of each row
  manifest,     \* the row sub-MMM.jsonl has of each row
  incomplete,   \* is there a sub-MMM.repair.incomplete?
  rowManifest,  \* row-NNNNNN.json of each row, or None
  rowPayload,   \* row-NNNNNN.tar of each row, or NoPackage
  retriesUsed,  \* retries_used in row-NNNNNN.retry.json, 0 when there is none
  (* The memory of the repair process. *)
  pc, opts,
  targets,      \* the rows to repair
  outRows,      \* out_rows
  attempts,     \* attempts: the retries used up, of each row
  cursor,       \* the row whose cache is being written
  result,       \* and its result
  (* What is observed. *)
  fetched,      \* the number of the last fetch of each row
  runs          \* how often a repair was started

pairVars == <<tar, manifest>>
workDirVars == <<rowManifest, rowPayload, retriesUsed>>
procVars == <<pc, opts, targets, outRows, attempts, cursor, result>>
vars == <<pairVars, incomplete, workDirVars, procVars, fetched, runs>>

Phase == {"down", "loop", "writePayload", "writeRowManifest", "dropRetryState",
          "replaceManifest", "markDone", "clean"}

WritingCache == pc \in {"writePayload", "writeRowManifest", "dropRetryState"}

\* Only blocking separates a row from its package (mark_retry_blocked).
HasPayload(row) == row.hash # NoPackage /\ ~row.blocked

\* What the tar or the payload file of a row has to hold.
Payload(row) == IF HasPayload(row) THEN row.hash ELSE NoPackage

TypeOK ==
  /\ tar \in [Row -> Nat]
  /\ manifest \in [Row -> RepairRow]
  /\ incomplete \in BOOLEAN
  /\ rowManifest \in [Row -> RepairRow \cup {None}]
  /\ rowPayload \in [Row -> Nat]
  /\ retriesUsed \in [Row -> Nat]
  /\ pc \in Phase
  /\ opts \in RepairOptions \cup {None}
  /\ pc # "down" => opts # None
  /\ targets \in SUBSET Row
  /\ outRows \in [Row -> RepairRow \cup {None}]
  /\ attempts \in [Row -> Nat]
  /\ cursor \in 0 .. NumRows
  /\ result \in RepairRow \cup {None}
  /\ WritingCache => cursor \in Row /\ result # None
  /\ pc = "replaceManifest" => \A r \in Row : outRows[r] # None
  /\ fetched \in [Row -> Nat]
  /\ runs \in Nat

\* What the worker publishes of a row: its first attempt, or that one blocked.
Published ==
  {row \in [status : Status, blocked : BOOLEAN, hash : {NoPackage, 1}] :
     /\ row.blocked => RetryableStatus(row.status)
     /\ row.hash = IF Packaged(row.status) THEN 1 ELSE NoPackage}

Init ==
  /\ manifest \in [Row -> Published]
  /\ tar = [r \in Row |-> Payload(manifest[r])]
  /\ incomplete = FALSE
  /\ rowManifest = [r \in Row |-> None]
  /\ rowPayload = [r \in Row |-> NoPackage]
  /\ retriesUsed = [r \in Row |-> 0]
  /\ pc = "down"
  /\ opts = None
  /\ targets = {}
  /\ outRows = [r \in Row |-> None]
  /\ attempts = [r \in Row |-> 0]
  /\ cursor = 0
  /\ result = None
  /\ fetched = [r \in Row |-> 1]
  /\ runs = 0

ProcessEnds ==
  /\ pc' = "down"
  /\ opts' = None
  /\ targets' = {}
  /\ outRows' = [r \in Row |-> None]
  /\ attempts' = [r \in Row |-> 0]
  /\ cursor' = 0
  /\ result' = None

\* retry_target_status: retryable, blocked or not.
Target(row) == RetryableStatus(row.status)

\* The first --max-repair-rows targets, or all of them.
TargetRows(o) ==
  LET all == {r \in Row : Target(manifest[r])}
  IN IF o.maxRows = 0 THEN all
     ELSE {r \in all : Cardinality({s \in all : s < r}) < o.maxRows}

\* read_row_cache without options: any cache whose payload is there counts.
Readable(r) ==
  /\ rowManifest[r] # None
  /\ HasPayload(rowManifest[r]) => rowPayload[r] # NoPackage

Smaller(a, b) == IF a < b THEN a ELSE b

(***************************************************************************)
(* Start: a subtar without targets is left alone (repair_noop); otherwise  *)
(* the targets come from the caches or are to be fetched.                  *)
(***************************************************************************)
StartNothing(o) ==
  /\ pc = "down" /\ runs < MaxRuns
  /\ TargetRows(o) = {}
  /\ runs' = runs + 1
  /\ UNCHANGED <<pairVars, incomplete, workDirVars, procVars, fetched>>

Start(o) ==
  /\ pc = "down" /\ runs < MaxRuns
  /\ TargetRows(o) # {}
  /\ runs' = runs + 1
  /\ opts' = o
  /\ targets' = TargetRows(o)
  /\ outRows' = [r \in Row |-> IF r \notin TargetRows(o) THEN manifest[r]
                               ELSE IF Readable(r) THEN rowManifest[r]
                               ELSE None]
  /\ attempts' = [r \in Row |-> IF r \in TargetRows(o) /\ ~Readable(r)
                                THEN Smaller(retriesUsed[r], o.retries)
                                ELSE 0]
  /\ pc' = "loop"
  /\ UNCHANGED <<pairVars, incomplete, workDirVars, cursor, result, fetched>>

(***************************************************************************)
(* The fetch loop: finish_attempt for a result of row r.                   *)
(***************************************************************************)
Missing == {r \in Row : outRows[r] = None}

\* The result of the next fetch of row r.
Fetch(r, status) ==
  [status |-> status, blocked |-> FALSE,
   hash |-> IF Packaged(status) THEN fetched[r] + 1 ELSE NoPackage]

Retryable(status) == opts.retries > 0 /\ RetryableStatus(status)

Fetched(r) ==
  /\ pc = "loop" /\ r \in Missing
  /\ fetched' = [fetched EXCEPT ![r] = @ + 1]
  /\ UNCHANGED <<pairVars, incomplete, rowManifest, rowPayload, opts, targets,
                 outRows, runs>>

Requeue(r, status) ==
  /\ Fetched(r)
  /\ Retryable(status) /\ attempts[r] < opts.retries
  /\ attempts' = [attempts EXCEPT ![r] = @ + 1]
  /\ retriesUsed' = [retriesUsed EXCEPT ![r] = attempts[r] + 1]
  /\ UNCHANGED <<pc, cursor, result>>

\* Plausible mistake: a last failure is kept as it is.
BlockUnmarked(r, status) ==
  /\ Fetched(r)
  /\ Retryable(status) /\ attempts[r] >= opts.retries
  /\ result' = Fetch(r, status)
  /\ cursor' = r
  /\ pc' = "writePayload"
  /\ UNCHANGED <<attempts, retriesUsed>>

\* A last failure is blocked, which drops its files.
Block(r, status) ==
  /\ Fetched(r)
  /\ Retryable(status) /\ attempts[r] >= opts.retries
  /\ result' = [Fetch(r, status) EXCEPT !.blocked = TRUE]
  /\ cursor' = r
  /\ pc' = "writePayload"
  /\ UNCHANGED <<attempts, retriesUsed>>

Accept(r, status) ==
  /\ Fetched(r)
  /\ ~Retryable(status)
  /\ result' = Fetch(r, status)
  /\ cursor' = r
  /\ pc' = "writePayload"
  /\ UNCHANGED <<attempts, retriesUsed>>

FetchStep ==
  \E r \in Missing, status \in Status :
    Requeue(r, status) \/ Block(r, status) \/ Accept(r, status)

(***************************************************************************)
(* write_row_cache and delete_row_retry_state.                             *)
(***************************************************************************)
\* Plausible mistake: a payload that is there already is not written again.
WriteRowPayloadOnce ==
  /\ pc = "writePayload"
  /\ rowPayload' = [rowPayload EXCEPT ![cursor] =
                      IF ~HasPayload(result) THEN NoPackage
                      ELSE IF @ # NoPackage THEN @ ELSE result.hash]
  /\ pc' = "writeRowManifest"
  /\ UNCHANGED <<pairVars, incomplete, rowManifest, retriesUsed, opts, targets,
                 outRows, attempts, cursor, result, fetched, runs>>

WriteRowPayload ==
  /\ pc = "writePayload"
  /\ rowPayload' = [rowPayload EXCEPT ![cursor] = Payload(result)]
  /\ pc' = "writeRowManifest"
  /\ UNCHANGED <<pairVars, incomplete, rowManifest, retriesUsed, opts, targets,
                 outRows, attempts, cursor, result, fetched, runs>>

\* Plausible mistake: the result is given up before it is taken into out_rows.
WriteRowManifestForgetting ==
  /\ pc = "writeRowManifest"
  /\ rowManifest' = [rowManifest EXCEPT ![cursor] = result]
  /\ result' = None
  /\ pc' = "dropRetryState"
  /\ UNCHANGED <<pairVars, incomplete, rowPayload, retriesUsed, opts, targets,
                 outRows, attempts, cursor, fetched, runs>>

WriteRowManifest ==
  /\ pc = "writeRowManifest"
  /\ rowManifest' = [rowManifest EXCEPT ![cursor] = result]
  /\ pc' = "dropRetryState"
  /\ UNCHANGED <<pairVars, incomplete, rowPayload, retriesUsed, opts, targets,
                 outRows, attempts, cursor, result, fetched, runs>>

DropRetryState ==
  /\ pc = "dropRetryState"
  /\ retriesUsed' = [retriesUsed EXCEPT ![cursor] = 0]
  /\ outRows' = [outRows EXCEPT ![cursor] = result]
  /\ result' = None
  /\ cursor' = 0
  /\ pc' = "loop"
  /\ UNCHANGED <<pairVars, incomplete, rowManifest, rowPayload, opts, targets,
                 attempts, fetched, runs>>

(***************************************************************************)
(* The rebuild.  The targets' packages come from the caches, those of the  *)
(* other rows are copied from the old tar by the member names that their   *)
(* manifest rows give: a name the tar does not have raises KeyError.       *)
(***************************************************************************)
Drained == pc = "loop" /\ Missing = {}

CanCopy ==
  \A r \in Row \ targets : outRows[r].hash # NoPackage => tar[r] # NoPackage

NewPackage(r) ==
  IF r \in targets
  THEN IF HasPayload(outRows[r]) THEN rowPayload[r] ELSE NoPackage
  ELSE IF outRows[r].hash # NoPackage THEN tar[r] ELSE NoPackage

\* Plausible mistake: only the targets get into the new tar.
ReplaceTarByTargets ==
  /\ Drained /\ CanCopy
  /\ tar' = [r \in Row |-> IF r \in targets THEN NewPackage(r) ELSE NoPackage]
  /\ pc' = "replaceManifest"
  /\ UNCHANGED <<manifest, incomplete, workDirVars, opts, targets, outRows,
                 attempts, cursor, result, fetched, runs>>

\* Plausible mistake: the caches are given up once their packages are in the tar.
ReplaceTarDroppingCaches ==
  /\ Drained /\ CanCopy
  /\ tar' = [r \in Row |-> NewPackage(r)]
  /\ rowManifest' = [r \in Row |-> None]
  /\ rowPayload' = [r \in Row |-> NoPackage]
  /\ pc' = "replaceManifest"
  /\ UNCHANGED <<manifest, incomplete, retriesUsed, opts, targets, outRows,
                 attempts, cursor, result, fetched, runs>>

ReplaceTar ==
  /\ Drained /\ CanCopy
  /\ tar' = [r \in Row |-> NewPackage(r)]
  /\ pc' = "replaceManifest"
  /\ UNCHANGED <<manifest, incomplete, workDirVars, opts, targets, outRows,
                 attempts, cursor, result, fetched, runs>>

ReplaceManifest ==
  /\ pc = "replaceManifest"
  /\ manifest' = outRows
  /\ pc' = "markDone"
  /\ UNCHANGED <<tar, incomplete, workDirVars, opts, targets, outRows, attempts,
                 cursor, result, fetched, runs>>

\* The done marker is written anew, and the incomplete marker removed.
MarkDone ==
  /\ pc = "markDone"
  /\ incomplete' = FALSE
  /\ pc' = "clean"
  /\ UNCHANGED <<pairVars, workDirVars, opts, targets, outRows, attempts,
                 cursor, result, fetched, runs>>

\* rmtree with ignore_errors: a file that cannot be removed is passed over.
CleanFile(r) ==
  /\ pc = "clean"
  /\ \/ /\ rowManifest[r] # None
        /\ rowManifest' = [rowManifest EXCEPT ![r] = None]
        /\ UNCHANGED <<rowPayload, retriesUsed>>
     \/ /\ rowPayload[r] # NoPackage
        /\ rowPayload' = [rowPayload EXCEPT ![r] = NoPackage]
        /\ UNCHANGED <<rowManifest, retriesUsed>>
     \/ /\ retriesUsed[r] # 0
        /\ retriesUsed' = [retriesUsed EXCEPT ![r] = 0]
        /\ UNCHANGED <<rowManifest, rowPayload>>
  /\ UNCHANGED <<pairVars, incomplete, procVars, fetched, runs>>

\* The process returns from repair_subtar, with whatever is left.
Finish ==
  /\ pc = "clean"
  /\ ProcessEnds
  /\ UNCHANGED <<pairVars, incomplete, workDirVars, fetched, runs>>

(***************************************************************************)
(* The process is killed, or an operation of the rebuild fails, which      *)
(* leaves the incomplete marker: always so when a member to be copied is   *)
(* not in the tar.  Any other fault needs one more run to be left.         *)
(***************************************************************************)
Crash ==
  /\ pc # "down" /\ runs < MaxRuns
  /\ ProcessEnds
  /\ UNCHANGED <<pairVars, incomplete, workDirVars, fetched, runs>>

FailRebuild ==
  /\ Drained \/ pc \in {"replaceManifest", "markDone"}
  /\ runs < MaxRuns \/ (Drained /\ ~CanCopy)
  /\ incomplete' = TRUE
  /\ ProcessEnds
  /\ UNCHANGED <<pairVars, workDirVars, fetched, runs>>

Step ==
  \/ FetchStep \/ WriteRowPayload \/ WriteRowManifest \/ DropRetryState
  \/ ReplaceTar \/ ReplaceManifest \/ MarkDone
  \/ (\E r \in Row : CleanFile(r)) \/ Finish

Begin == \E o \in RepairOptions : StartNothing(o) \/ Start(o)

Next == Begin \/ Step \/ Crash \/ FailRebuild

Spec == Init /\ [][Next]_vars

\* As in SubtarDownload: requests have time limits, repairs are resubmitted.
FairSpec == Spec /\ WF_vars(Begin) /\ WF_vars(Step)

(***************************************************************************)
(* Properties.                                                             *)
(***************************************************************************)

\* The tar has of row r what its manifest row says.
Agrees(r) == tar[r] = Payload(manifest[r])

(***************************************************************************)
(* A repair that gets to its done marker leaves a tar and a manifest of    *)
(* the same attempts, although it may have found caches and a half         *)
(* replaced pair of repairs that were killed.                              *)
(***************************************************************************)
RepairAgrees == pc = "clean" => \A r \in Row : Agrees(r)

(***************************************************************************)
(* tar and manifest are replaced one after the other under the standing    *)
(* done marker.  Whenever they differ on a row, a repair started then      *)
(* takes the row up again and has its cached result at hand, so that it    *)
(* needs no new fetch to make them agree.                                  *)
(***************************************************************************)
MismatchHealable ==
  \A r \in Row : ~Agrees(r) =>
    /\ Target(manifest[r])
    /\ Readable(r)
    /\ tar[r] = Payload(rowManifest[r])

(***************************************************************************)
(* Rebuilding the tar never touches a row that is not to be repaired, or   *)
(* not by this repair: its package is carried over and its manifest row    *)
(* stays, through kills and failed rebuilds.                               *)
(***************************************************************************)
OthersKept ==
  [][\A r \in Row :
       ~Target(manifest[r]) \/ (pc # "down" /\ r \notin targets) =>
         manifest'[r] = manifest[r] /\ tar'[r] = tar[r]]_vars

(***************************************************************************)
(* With finitely many faults, and retries, repairing comes to an end: every *)
(* row has its package or a last failure, blocked, and the pair agrees.    *)
(***************************************************************************)
EventuallyRepaired ==
  <>[](/\ pc = "down"
       /\ \A r \in Row : Agrees(r) /\ (Target(manifest[r]) => manifest[r].blocked))

(***************************************************************************)
(* The inductive invariant of the proofs, which are about repairs with row *)
(* retries that all have the same cap: with another cap a repair may leave *)
(* out a row whose new package is in the tar already.                      *)
(***************************************************************************)
RepairsAlike ==
  /\ \A o \in RepairOptions : o.retries > 0
  /\ \A o, p \in RepairOptions : o.maxRows = p.maxRows

\* Without a cap every target is taken, and no blocked row is left to be copied.
RepairsAll == \A o \in RepairOptions : o.retries > 0 /\ o.maxRows = 0

\* With retries, a failure is cached only when it is blocked.
Settled(row) == Target(row) <=> row.blocked

ManifestOK == \A r \in Row : manifest[r].blocked => Target(manifest[r])

\* Every repair takes row r up again.
Chosen(r) == \A o \in RepairOptions : r \in TargetRows(o)

\* The caches that the next repair takes for results are right, and it takes them.
CachesOK ==
  \A r \in Row : Target(manifest[r]) /\ rowManifest[r] # None =>
    /\ Chosen(r)
    /\ Settled(rowManifest[r])
    /\ HasPayload(rowManifest[r]) => rowPayload[r] = rowManifest[r].hash

Working == pc \notin {"down", "markDone", "clean"}

\* What is in memory is what the caches and the manifest have.
MemoryOK ==
  Working =>
    /\ targets = TargetRows(opts)
    /\ \A r \in Row \ targets : outRows[r] = manifest[r]
    /\ \A r \in targets : outRows[r] \in {None, rowManifest[r]}
    /\ \A r \in targets : outRows[r] = None /\ rowManifest[r] # None =>
         pc = "dropRetryState" /\ r = cursor

\* How far the writing of a cache has come.
WriteOK ==
  WritingCache =>
    /\ outRows[cursor] = None
    /\ Settled(result)
    /\ pc # "writePayload" => rowPayload[cursor] = Payload(result)
    /\ pc = "dropRetryState" => rowManifest[cursor] = result

\* How far the replacement of the pair has come.
ReplaceOK ==
  /\ pc = "replaceManifest" =>
       \A r \in Row : outRows[r] # None /\ tar[r] = Payload(outRows[r])
  /\ pc \in {"markDone", "clean"} =>
       \A r \in Row :
         /\ Agrees(r)
         /\ Target(manifest[r]) /\ rowManifest[r] # None =>
              ~HasPayload(rowManifest[r])

IInv ==
  /\ TypeOK
  /\ ManifestOK /\ CachesOK /\ MismatchHealable
  /\ MemoryOK /\ WriteOK /\ ReplaceOK
===============================================================================

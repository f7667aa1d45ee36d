------------------------------ MODULE RowOutcome ------------------------------
(***************************************************************************)
(* What one article row can become in scripts/download_worker.py, and the  *)
(* pure functions that turn a fetch attempt into the row that is kept.     *)
(*                                                                         *)
(* A row's status string is abstracted to four classes, the ones the       *)
(* worker's control flow tells apart:                                      *)
(*   "complete"  ok, no_figures: a package, not retryable                  *)
(*   "partial"   partial_figures, figures_failed: a package, retryable     *)
(*   "failed"    xml_fetch_error, xml_html_response, xml_parse_error,      *)
(*               row_error, xml_http_429, xml_http_5xx, ...: no package,   *)
(*               retryable                                                 *)
(*   "rejected"  license_*, xml_no_body, xml_http_404, statuses passed     *)
(*               through from the plan: no package, not retryable          *)
(* The prefix retry_blocked_ is the separate flag "blocked".               *)
(*                                                                         *)
(* The bytes of a package carry the time of the download (source.json,     *)
(* downloaded_at), so no two attempts produce the same package: package    *)
(* content is the number of the attempt that made it, NoPackage is 0.      *)
(***************************************************************************)
EXTENDS Integers, Sequences

Status == {"complete", "partial", "failed", "rejected"}

NoPackage == 0

\* Statuses for which process_row returns "_files".
Packaged(status) == status \in {"complete", "partial"}

\* RETRYABLE_NON_HTTP_STATUSES, RETRYABLE_HTTP_CODES and the 5xx range.
RetryableStatus(status) == status \in {"partial", "failed"}

(***************************************************************************)
(* A row as it is written to a row cache or a subtar manifest.  "payload"  *)
(* is _payload_tar, "hash" stands for source_package_hash and the other    *)
(* provenance fields, "attempts" is row_attempts (0 when absent).          *)
(***************************************************************************)
ManifestRow ==
  [status : Status, blocked : BOOLEAN, payload : BOOLEAN,
   hash : Nat, attempts : Nat, history : Seq(Status)]

\* A row in memory: "files" is the content of _files instead of the flag.
RowResult ==
  [status : Status, blocked : BOOLEAN, files : Nat,
   hash : Nat, attempts : Nat, history : Seq(Status)]

\* Plausible mistake: the prefix retry_blocked_ is not recognised.
RetryableIgnoringBlocked(row) == RetryableStatus(row.status)

\* retryable_row_status of a row: a blocked row is not retryable any more.
RetryableRow(row) == ~row.blocked /\ RetryableStatus(row.status)

\* process_row: the result of fetch attempt number n that ends in status.
ProcessRow(status, n) ==
  LET package == IF Packaged(status) THEN n ELSE NoPackage
  IN [status |-> status, blocked |-> FALSE, files |-> package,
      hash |-> package, attempts |-> 0, history |-> <<>>]

\* Plausible mistake: the payload of a blocked row is kept.
MarkBlockedKeepingFiles(out, totalAttempts, history) ==
  [out EXCEPT !.blocked = TRUE, !.attempts = totalAttempts,
              !.history = history]

\* The payload is dropped, every other field stays.
MarkRetryBlocked(out, totalAttempts, history) ==
  [out EXCEPT !.blocked = TRUE, !.files = NoPackage,
              !.attempts = totalAttempts, !.history = history]

\* Plausible mistake: the number of retries is written as that of attempts.
AnnotateRetriesOnly(out, totalAttempts, history) ==
  IF history = <<>> THEN out
  ELSE [out EXCEPT !.attempts = totalAttempts - 1, !.history = history]

AnnotateRetrySuccess(out, totalAttempts, history) ==
  IF history = <<>> THEN out
  ELSE [out EXCEPT !.attempts = totalAttempts, !.history = history]

\* write_row_cache: what is kept of a result once its files are on disk.
CacheRow(out) ==
  [status |-> out.status, blocked |-> out.blocked,
   payload |-> out.files # NoPackage, hash |-> out.hash,
   attempts |-> out.attempts, history |-> out.history]

(***************************************************************************)
(* What can finally be said of a row: the hash is there when its status    *)
(* has a package, and the package is the one the hash is of, unless the    *)
(* row is blocked: then there is none.                                     *)
(***************************************************************************)
OutcomeRecord ==
  [status : Status, blocked : BOOLEAN, hash : Nat, package : Nat,
   attempts : Nat, history : Seq(Status)]

Outcome ==
  {o \in OutcomeRecord :
     /\ o.hash # NoPackage <=> Packaged(o.status)
     /\ o.package = IF o.blocked THEN NoPackage ELSE o.hash}
===============================================================================

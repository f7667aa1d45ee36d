------------------------------ MODULE ManifestRow ------------------------------
(***************************************************************************)
(* What becomes of a fetched row: the worker may fetch it again, block it  *)
(* after its last retry, and publish it; scripts/aggregate_manifest.py     *)
(* turns it into a row of the corpus manifest (_status, normalize_record), *)
(* whose license decision is made anew from the retained evidence.         *)
(*                                                                         *)
(* decide_license, license_codes_agree and manifest_row_is_convertible are *)
(* of the package docgraph; they are modelled from the use and the tests   *)
(* of the aggregation.  The seed row has no license evidence of its own    *)
(* (build_manifest.py).                                                    *)
(***************************************************************************)
EXTENDS FetchRow

VARIABLES
  published,  \* is the row in the subtar's manifest?
  manifest    \* the row in the corpus manifest, None, or Refused

vars == <<fetchVars, published, manifest>>

ManifestStatus ==
  {"complete", "partial", "rejected", "failed", "retry", "quarantined"}
ManifestRecord == [status : ManifestStatus, retryable : BOOLEAN]
Refused == [status |-> "refused", retryable |-> FALSE]

TypeOK ==
  /\ FetchTypeOK
  /\ published \in BOOLEAN
  /\ published => out # None
  /\ manifest \in ManifestRecord \cup {Refused, None}

Init == FetchInit /\ published = FALSE /\ manifest = None

\* retryable_row_status.
RetryableRow(row) ==
  /\ ~row.blocked
  /\ \/ row.status \in {"xml_fetch_error", "xml_html_response", "xml_parse_error",
                        "row_error", "partial_figures", "figures_failed"}
     \/ row.status = "xml_http"
        /\ (row.code \in RetryableHttpCodes \/ row.code \in 500 .. 599)

Fetching == FetchNext /\ UNCHANGED <<published, manifest>>

(***************************************************************************)
(* A row is kept as it is when it is not retryable or row retries are off, *)
(* else it is blocked at the last attempt: the files are dropped, the      *)
(* fields that describe them stay (mark_retry_blocked).                    *)
(***************************************************************************)
PublishBlocked ==
  /\ out # None /\ ~published
  /\ RetryableRow(out)
  /\ out' = [out EXCEPT !.blocked = TRUE, !.files = {}]
  /\ published' = TRUE
  /\ UNCHANGED <<opts, pc, attempt, directError, article, figureVars, requests,
                 manifest>>

Publish ==
  /\ out # None /\ ~published
  /\ published' = TRUE
  /\ UNCHANGED <<fetchVars, manifest>>

(***************************************************************************)
(* The license decision of the aggregation.                                *)
(***************************************************************************)
Restrictive(license) == "restricted" \in Evidence(license)

\* The evidence as a whole names an exact license.
Allowed(license) ==
  ~Restrictive(license) /\ Evidence(license) \cap {"by4", "by3"} # {}

Conflict(license) == {"by4", "by3"} \subseteq Evidence(license)

\* Plausible mistake: what became of a blocked row is told by its last status.
SourceStatusBlind(row) ==
  IF row.status \in {"ok", "no_figures"} THEN [status |-> "complete", retryable |-> FALSE]
  ELSE IF row.status \in {"partial_figures", "figures_failed"}
  THEN [status |-> "partial", retryable |-> TRUE]
  ELSE IF row.status \in LicenseStatus THEN [status |-> "rejected", retryable |-> FALSE]
  ELSE [status |-> "failed", retryable |-> FALSE]

\* Plausible mistake: every failure to get the XML may be retried.
SourceStatusHopeful(row) ==
  IF row.status \in {"ok", "no_figures"} THEN [status |-> "complete", retryable |-> FALSE]
  ELSE IF row.status \in {"partial_figures", "figures_failed"} /\ ~row.blocked
  THEN [status |-> "partial", retryable |-> TRUE]
  ELSE IF row.status \in LicenseStatus THEN [status |-> "rejected", retryable |-> FALSE]
  ELSE IF row.blocked THEN [status |-> "failed", retryable |-> FALSE]
  ELSE [status |-> "retry",
        retryable |-> row.status \in {"xml_fetch_error", "xml_html_response", "xml_http"}]

\* _status; a blocked row's status has the prefix retry_blocked_.
SourceStatus(row) ==
  IF row.blocked THEN [status |-> "failed", retryable |-> FALSE]
  ELSE IF row.status \in {"ok", "no_figures"}
  THEN [status |-> "complete", retryable |-> FALSE]
  ELSE IF row.status \in {"partial_figures", "figures_failed"}
  THEN [status |-> "partial", retryable |-> TRUE]
  ELSE IF row.status \in LicenseStatus
  THEN [status |-> "rejected", retryable |-> FALSE]
  ELSE IF \/ row.status \in {"xml_fetch_error", "xml_html_response"}
          \/ row.status = "xml_http" /\ row.code \in 500 .. 599
  THEN [status |-> "retry", retryable |-> TRUE]
  ELSE [status |-> "failed", retryable |-> FALSE]

HashesConsistent(row) ==
  row.hashes # {} => row.hashes = MemberSet(row.members)

Normalized(row) ==
  IF ~HashesConsistent(row) THEN Refused
  ELSE IF SourceStatus(row).status \notin {"complete", "partial"}
  THEN SourceStatus(row)
  ELSE IF ~Allowed(row.license) THEN [status |-> "rejected", retryable |-> FALSE]
  ELSE IF Conflict(row.license) THEN [status |-> "quarantined", retryable |-> FALSE]
  ELSE SourceStatus(row)

Aggregate ==
  /\ published /\ manifest = None
  /\ manifest' = Normalized(out)
  /\ UNCHANGED <<fetchVars, published>>

Next == Fetching \/ PublishBlocked \/ Publish \/ Aggregate

Spec == Init /\ [][Next]_vars

(***************************************************************************)
(* Properties.                                                             *)
(***************************************************************************)

\* manifest_row_is_convertible of a normalized row.
Convertible == manifest # None /\ manifest.status \in {"complete", "partial"}

\* is_converter_accepted of prepare_converter.py, on the worker's row.
ConverterAccepts(row) ==
  /\ ~row.blocked /\ row.status \in {"ok", "no_figures"}
  /\ LicensePolicy(row.license) = "keep"
  /\ {XmlMember, SourceMember} \subseteq MemberSet(row.members)

(***************************************************************************)
(* docs/CAVEATS.md: the downloader is strict.  A row that the corpus       *)
(* manifest admits has its package in the tar, of an article with a body,  *)
(* whose evidence has an exact license, no restrictive term and no second  *)
(* license, and whose captions were accepted.  A complete one has all its  *)
(* media and is taken by the converter's own gate.                         *)
(***************************************************************************)
AdmittedSound ==
  Convertible =>
    /\ out.files # {} /\ article.body
    /\ Evidence(out.license) \cap {"by4", "by3", "restricted"} \in {{"by4"}, {"by3"}}
    /\ article.thirdParty => opts.allowThirdParty
    /\ manifest.status = "complete" =>
         Url \notin MemberSet(out.links) /\ ConverterAccepts(out)

(***************************************************************************)
(* The tables of transient errors agree as far as they must: what the      *)
(* manifest calls retryable a repair would fetch again, and a row that     *)
(* ended in an error the requests are repeated for is retried as a row,    *)
(* too - all but 409 and 425, which are only in fetch_bytes' table.  No    *)
(* row of the worker stops the aggregation.                                *)
(***************************************************************************)
RetryFlagsAgree ==
  /\ manifest # None =>
       manifest # Refused /\ (manifest.retryable => RetryableRow(out))
  /\ out # None /\ ~out.blocked /\ out.status \in {"xml_http", "xml_fetch_error"} =>
       (Repeated([kind |-> IF out.code = 0 THEN "network" ELSE "http",
                  code |-> out.code])
          /\ out.code \notin {409, 425} => RetryableRow(out))

\* The inductive invariant of the proofs.
IInv ==
  /\ TypeOK /\ FetchInv
  /\ out # None /\ out.blocked => published
  /\ manifest # None => published /\ manifest = Normalized(out)
===============================================================================

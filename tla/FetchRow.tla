------------------------------- MODULE FetchRow -------------------------------
(***************************************************************************)
(* One attempt of scripts/download_worker.py at one article row:           *)
(* process_row with fetch_xml, fetch_figure and the request loop           *)
(* fetch_bytes of scripts/common.py.  The XML may be looked for at up to   *)
(* three addresses, each with its retries; what the server answers to a    *)
(* request, and the article it serves, are free.                           *)
(*                                                                         *)
(* An article is what process_row asks of it: its license evidence, its    *)
(* captions, whether its body is long enough and how many distinct media   *)
(* URLs it links.  The media are numbered; a package member is a pair of   *)
(* the kind of file and the number of the medium (0: of the article).      *)
(***************************************************************************)
EXTENDS Integers, Sequences, FiniteSets

CONSTANTS
  Retries,        \* --retries: repeated requests for the XML
  FigureRetries,  \* --figure-retries
  HttpCodes,      \* the HTTP error codes the servers answer with
  MaxMedia,       \* bound: distinct media URLs of an article
  Articles,       \* the articles the server may serve
  RowOptions,     \* the options the worker may have been started with
  None            \* no error, no article, no result

ASSUME RetriesAssumption == Retries \in Nat /\ FigureRetries \in Nat
ASSUME HttpCodesAssumption == HttpCodes \subseteq 300 .. 599
ASSUME MaxMediaAssumption == MaxMedia \in Nat
ASSUME RowOptionsAssumption ==
  RowOptions \subseteq [resolveFirst : BOOLEAN, fallback : BOOLEAN,
                        skipFigures : BOOLEAN, allowThirdParty : BOOLEAN,
                        keepTiff : BOOLEAN]

(***************************************************************************)
(* License evidence: the text of the license elements and their links.     *)
(* "by4" and "by3" name an exact Creative Commons Attribution license,     *)
(* "loose" only speaks of one, "restricted" has an NC, ND or SA term,      *)
(* "other" is of no known kind.  CC0 and public domain are left out.       *)
(***************************************************************************)
EvidenceKind == {"by4", "by3", "loose", "restricted", "other"}
License == [texts : SUBSET EvidenceKind, urls : SUBSET EvidenceKind]
NoLicense == [texts |-> {}, urls |-> {}]

Article == [license : License, thirdParty : BOOLEAN, body : BOOLEAN,
            media : 0 .. MaxMedia]

ASSUME ArticlesAssumption == Articles \subseteq Article

Evidence(license) == license.texts \cup license.urls

\* normalize_license: the policy for all the evidence taken together.
LicensePolicy(license) ==
  LET found == Evidence(license)
  IN IF found = {} THEN "missing"
     ELSE IF "restricted" \in found THEN "skip"
     ELSE IF found \cap {"by4", "by3", "loose"} # {} THEN "keep"
     ELSE "unknown"

(***************************************************************************)
(* Errors of a request, and the row statuses they end in.                  *)
(***************************************************************************)
Error == [kind : {"http"}, code : HttpCodes]
           \cup [kind : {"network", "html", "other"}, code : {0}]
Html == [kind |-> "html", code |-> 0]

TransientHttp == {408, 409, 425, 429, 500, 502, 503, 504} \cup 520 .. 524
RetryableHttpCodes == {403, 408, 429, 500, 502, 503, 504}

\* fetch_bytes: the request is worth repeating.
Repeated(e) ==
  \/ e.kind = "http" /\ e.code \in TransientHttp \cup {403}
  \/ e.kind = "network"

\* process_row: the status of a row whose XML could not be had.
XmlStatus(e) ==
  IF e.kind = "http" THEN "xml_http"
  ELSE IF e.kind = "html" THEN "xml_html_response" ELSE "xml_fetch_error"

LicenseStatus == {"license_missing", "license_skip", "license_unknown",
                  "license_figure_ambiguous"}
PackagedStatus == {"ok", "no_figures", "partial_figures", "figures_failed"}
RowStatus ==
  {"not_planned", "xml_http", "xml_html_response", "xml_fetch_error",
   "xml_parse_error", "xml_no_body", "row_error"}
    \cup LicenseStatus \cup PackagedStatus

MemberKind == {"xml", "source", "original", "rendered"}
Member == MemberKind \X (0 .. MaxMedia)
XmlMember == <<"xml", 0>>
SourceMember == <<"source", 0>>
Url == <<"url", 0>>  \* a link that is not rewritten

\* A row as process_row returns it; "files" is _files.
WorkerRow ==
  [status : RowStatus, code : HttpCodes \cup {0}, blocked : BOOLEAN,
   license : License, thirdParty : BOOLEAN,
   figures : Seq([status : {"ok", "error", "skipped"}, member : Member]),
   links : Seq(Member \cup {Url}),
   members : Seq(Member), hashes : SUBSET Member, files : SUBSET Member]

RowWithout(status, code) ==
  [status |-> status, code |-> code, blocked |-> FALSE, license |-> NoLicense,
   thirdParty |-> FALSE, figures |-> <<>>, links |-> <<>>, members |-> <<>>,
   hashes |-> {}, files |-> {}]

ASSUME NoneAssumption ==
  None \notin Error /\ None \notin Article /\ None \notin WorkerRow

VARIABLES
  opts,
  pc,
  attempt,      \* attempt of fetch_bytes
  directError,  \* direct_error of fetch_xml, or None
  article,      \* what the XML was parsed to
  figures,      \* figure_manifest so far
  figureFiles,  \* the members in figure_files so far
  out,          \* the result
  requests      \* observed: how many requests were started

figureVars == <<figures, figureFiles>>
fetchVars == <<opts, pc, attempt, directError, article, figureVars, out, requests>>

Requesting == {"direct", "resolve", "final", "figures"}
Phase == {"start", "parse", "done"} \cup Requesting

FetchTypeOK ==
  /\ opts \in RowOptions
  /\ pc \in Phase
  /\ attempt \in 0 .. Retries \cup 0 .. FigureRetries
  /\ directError \in Error \cup {None}
  /\ article \in Article \cup {None}
  /\ pc = "figures" => article # None
  /\ figures \in Seq([status : {"ok", "error", "skipped"}, member : Member])
  /\ article # None => Len(figures) <= article.media
  /\ figureFiles \in Seq(Member)
  /\ out \in WorkerRow \cup {None}
  /\ out # None <=> pc = "done"
  /\ requests \in Nat

FetchInit ==
  /\ opts \in RowOptions
  /\ pc = "start"
  /\ attempt = 0
  /\ directError = None
  /\ article = None
  /\ figures = <<>> /\ figureFiles = <<>>
  /\ out = None
  /\ requests = 0

Return(row) ==
  /\ out' = row
  /\ pc' = "done"

(***************************************************************************)
(* The start of process_row.                                               *)
(***************************************************************************)
PassThrough ==
  /\ pc = "start"
  /\ Return(RowWithout("not_planned", 0))
  /\ UNCHANGED <<opts, attempt, directError, article, figureVars, requests>>

StartFetch ==
  /\ pc = "start"
  /\ pc' = IF opts.resolveFirst THEN "resolve" ELSE "direct"
  /\ UNCHANGED <<opts, attempt, directError, article, figureVars, out, requests>>

(***************************************************************************)
(* fetch_bytes: a request is made and answered.                            *)
(***************************************************************************)
Limit == IF pc = "figures" THEN FigureRetries ELSE Retries

Request == requests' = requests + 1

MediaLeft == pc = "figures" /\ Len(figures) < article.media /\ ~opts.skipFigures

Asking == pc \in {"direct", "resolve", "final"} \/ MediaLeft

\* Plausible mistake: one request too many.
RepeatOnceMore(e) ==
  /\ Asking /\ Repeated(e) /\ attempt <= Limit
  /\ Request
  /\ attempt' = attempt + 1
  /\ UNCHANGED <<opts, pc, directError, article, figureVars, out>>

Repeat(e) ==
  /\ Asking /\ Repeated(e) /\ attempt < Limit
  /\ Request
  /\ attempt' = attempt + 1
  /\ UNCHANGED <<opts, pc, directError, article, figureVars, out>>

\* The error is raised.
Raises(e) == Repeated(e) => attempt >= Limit

(***************************************************************************)
(* fetch_xml.  Only an answer that is not XML, or a 404, of the direct     *)
(* address makes it look for the final one.                                *)
(***************************************************************************)
\* Plausible mistake: the final address, too, falls back.
FallsBackAgain(e) ==
  /\ pc \in {"direct", "final"} /\ opts.fallback
  /\ e = Html \/ (e.kind = "http" /\ e.code = 404)

FallsBack(e) ==
  /\ pc = "direct" /\ opts.fallback
  /\ e = Html \/ (e.kind = "http" /\ e.code = 404)

FallBack(e) ==
  /\ FallsBack(e) /\ Raises(e)
  /\ Request
  /\ directError' = e
  /\ attempt' = 0
  /\ pc' = "resolve"
  /\ UNCHANGED <<opts, article, figureVars, out>>

\* "html" is no answer to the request for the article's page.
XmlFails(e) ==
  /\ pc \in {"direct", "resolve", "final"} /\ ~FallsBack(e) /\ Raises(e)
  /\ pc = "resolve" => e # Html
  /\ Request
  /\ Return(RowWithout(XmlStatus(e), e.code))
  /\ UNCHANGED <<opts, attempt, directError, article, figureVars>>

\* The final address gives another address of the XML, or no other.
ResolveElsewhere ==
  /\ pc = "resolve"
  /\ Request
  /\ attempt' = 0
  /\ pc' = "final"
  /\ UNCHANGED <<opts, directError, article, figureVars, out>>

ResolveSame ==
  /\ pc = "resolve"
  /\ directError # None
  /\ Request
  /\ Return(RowWithout(XmlStatus(directError), directError.code))
  /\ UNCHANGED <<opts, attempt, directError, article, figureVars>>

GetXml ==
  /\ pc \in {"direct", "final"}
  /\ Request
  /\ attempt' = 0
  /\ pc' = "parse"
  /\ UNCHANGED <<opts, directError, article, figureVars, out>>

ParseFails ==
  /\ pc = "parse"
  /\ Return(RowWithout("xml_parse_error", 0))
  /\ UNCHANGED <<opts, attempt, directError, article, figureVars, requests>>

(***************************************************************************)
(* The checks on the article, in their order.                              *)
(***************************************************************************)
ThirdPartyBars(a) == a.thirdParty /\ ~opts.allowThirdParty

Refusal(a) ==
  IF LicensePolicy(a.license) = "missing" THEN "license_missing"
  ELSE IF LicensePolicy(a.license) = "skip" THEN "license_skip"
  ELSE IF LicensePolicy(a.license) = "unknown" THEN "license_unknown"
  ELSE IF ThirdPartyBars(a) THEN "license_figure_ambiguous"
  ELSE "xml_no_body"

Acceptable(a) ==
  LicensePolicy(a.license) = "keep" /\ ~ThirdPartyBars(a) /\ a.body

\* Every refusal but that of a short body keeps the evidence.
RefusedRow(a, status) ==
  [RowWithout(status, 0) EXCEPT
     !.license = IF status = "xml_no_body" THEN NoLicense ELSE a.license,
     !.thirdParty = status = "license_figure_ambiguous"]

Refuse(a) ==
  /\ pc = "parse"
  /\ ~Acceptable(a)
  /\ Return(RefusedRow(a, Refusal(a)))
  /\ article' = a
  /\ UNCHANGED <<opts, attempt, directError, figureVars, requests>>

Admit(a) ==
  /\ pc = "parse"
  /\ Acceptable(a)
  /\ article' = a
  /\ pc' = "figures"
  /\ UNCHANGED <<opts, attempt, directError, figureVars, out, requests>>

(***************************************************************************)
(* fetch_figure of the next medium.  A payload may exceed the limit, be a  *)
(* TIFF or a large raster to be rendered, or be kept as it is; rendering   *)
(* gives the member another name.                                          *)
(***************************************************************************)
Payload == {"plain", "too_big", "tiff", "large"}

NextMember(kind) == <<kind, Len(figures) + 1>>

Figure(status, kind) == [status |-> status, member |-> NextMember(kind)]

FigureResult(payload, renders) ==
  IF payload = "too_big" THEN Figure("error", "original")
  ELSE IF payload = "plain" THEN Figure("ok", "original")
  ELSE IF renders THEN Figure("ok", "rendered")
  ELSE IF payload = "tiff" /\ ~opts.keepTiff THEN Figure("error", "original")
  ELSE Figure("ok", "original")

GetFigure(payload, renders) ==
  /\ MediaLeft
  /\ Request
  /\ attempt' = 0
  /\ figures' = Append(figures, FigureResult(payload, renders))
  /\ figureFiles' = IF FigureResult(payload, renders).status = "ok"
                    THEN Append(figureFiles, FigureResult(payload, renders).member)
                    ELSE figureFiles
  /\ UNCHANGED <<opts, pc, directError, article, out>>

FigureFails(e) ==
  /\ MediaLeft /\ e # Html /\ Raises(e)
  /\ Request
  /\ attempt' = 0
  /\ figures' = Append(figures, Figure("error", "original"))
  /\ UNCHANGED <<opts, pc, directError, article, figureFiles, out>>

(***************************************************************************)
(* The package: the XML with the links of the media rewritten, source.json *)
(* and the media that were fetched.                                        *)
(***************************************************************************)
FigureManifest ==
  IF opts.skipFigures
  THEN [i \in 1 .. article.media |->
          [status |-> "skipped", member |-> <<"original", i>>]]
  ELSE figures

PackageStatus(manifest) ==
  IF manifest = <<>> THEN "no_figures"
  ELSE IF Len(figureFiles) = Len(manifest) THEN "ok"
  ELSE IF figureFiles = <<>> THEN "figures_failed"
  ELSE "partial_figures"

\* Plausible mistake: the link gets the name from before the rendering.
RewriteToOriginal(manifest) ==
  [i \in 1 .. Len(manifest) |->
     IF manifest[i].status = "ok" THEN <<"original", i>> ELSE Url]

\* rewrite_media: the link of every medium that was fetched.
RewriteMedia(manifest) ==
  [i \in 1 .. Len(manifest) |->
     IF manifest[i].status = "ok" THEN manifest[i].member ELSE Url]

PackageMembers == <<XmlMember, SourceMember>> \o figureFiles

MemberSet(members) == {members[i] : i \in 1 .. Len(members)}

Package ==
  /\ pc = "figures" /\ ~MediaLeft
  /\ Return(
       [status |-> PackageStatus(FigureManifest), code |-> 0, blocked |-> FALSE,
        license |-> article.license, thirdParty |-> article.thirdParty,
        figures |-> FigureManifest,
        links |-> RewriteMedia(FigureManifest),
        members |-> PackageMembers,
        hashes |-> MemberSet(PackageMembers),
        files |-> MemberSet(PackageMembers)])
  /\ UNCHANGED <<opts, attempt, directError, article, figureVars, requests>>

\* process_row_safe: whatever else may be raised once the XML is there.
RowFails ==
  /\ pc \in {"parse", "figures"}
  /\ Return(RowWithout("row_error", 0))
  /\ UNCHANGED <<opts, attempt, directError, article, figureVars, requests>>

FetchNext ==
  \/ PassThrough \/ StartFetch
  \/ (\E e \in Error : Repeat(e) \/ FallBack(e) \/ XmlFails(e) \/ FigureFails(e))
  \/ ResolveElsewhere \/ ResolveSame \/ GetXml \/ ParseFails
  \/ (\E a \in Articles : Refuse(a) \/ Admit(a))
  \/ (\E payload \in Payload, renders \in BOOLEAN : GetFigure(payload, renders))
  \/ Package \/ RowFails

(***************************************************************************)
(* Properties.                                                             *)
(***************************************************************************)

\* How many addresses are asked for the XML, at most.
Addresses ==
  IF opts.resolveFirst THEN 2 ELSE IF opts.fallback THEN 3 ELSE 1

Media == IF article = None THEN 0 ELSE article.media

(***************************************************************************)
(* The servers' budget: however they answer, one attempt at a row starts   *)
(* no more requests than each of its addresses and each of its media may   *)
(* have with their retries.                                                *)
(***************************************************************************)
RequestsBounded ==
  requests <= Addresses * (Retries + 1) + Media * (FigureRetries + 1)

(***************************************************************************)
(* A package says of itself what it is: its members are hashed and each    *)
(* there once; every link that is rewritten leads to a member, and every   *)
(* medium that is packaged is linked; "ok" and "no_figures" are only said  *)
(* of an article that has all its media.                                   *)
(***************************************************************************)
PackageSound ==
  out # None /\ out.files # {} =>
    /\ MemberSet(out.members) = out.files /\ out.hashes = out.files
    /\ \A i, j \in 1 .. Len(out.members) : out.members[i] = out.members[j] => i = j
    /\ {XmlMember, SourceMember} \subseteq out.files
    /\ MemberSet(out.links) \ {Url} = out.files \ {XmlMember, SourceMember}
    /\ out.status \in {"ok", "no_figures"} <=> Url \notin MemberSet(out.links)
    /\ Len(out.links) = article.media

(***************************************************************************)
(* The inductive invariant of the proofs.                                  *)
(***************************************************************************)

\* The addresses that have had all the requests they get.
AddressesAsked ==
  (IF directError = None THEN 0 ELSE 1) + (IF pc = "final" THEN 1 ELSE 0)

\* How far the requests have come, in each phase.
RequestsOK ==
  /\ pc = "start" => requests = 0 /\ attempt = 0 /\ directError = None
  /\ pc = "direct" => ~opts.resolveFirst /\ directError = None
  /\ pc \in {"resolve", "final"} => opts.resolveFirst \/ directError # None
  /\ directError # None => ~opts.resolveFirst /\ opts.fallback
  /\ pc \in {"direct", "resolve", "final"} =>
       attempt <= Retries /\ requests <= AddressesAsked * (Retries + 1) + attempt
  /\ pc = "parse" => attempt = 0 /\ requests <= Addresses * (Retries + 1)
  /\ pc = "figures" =>
       /\ attempt <= FigureRetries
       /\ requests <= Addresses * (Retries + 1)
                        + Len(figures) * (FigureRetries + 1) + attempt
       /\ Len(figures) = article.media => attempt = 0

\* figure_files has the members of the figures that are "ok", in their order.
FiguresOK ==
  /\ pc \notin {"figures", "done"} \/ opts.skipFigures =>
       figures = <<>> /\ figureFiles = <<>>
  /\ \A i \in 1 .. Len(figures) :
       /\ figures[i].member[1] \notin {"xml", "source"}
       /\ figures[i].member[2] = i
       /\ figures[i].status = "ok" =>
            \E k \in 1 .. Len(figureFiles) : figureFiles[k] = figures[i].member
  /\ \A k \in 1 .. Len(figureFiles) : \E i \in 1 .. Len(figures) :
       figures[i].status = "ok" /\ figures[i].member = figureFiles[k]
  /\ \A k, l \in 1 .. Len(figureFiles) :
       figureFiles[k] = figureFiles[l] => k = l
  /\ Len(figureFiles) <= Len(figures)
  /\ Len(figureFiles) = Len(figures)
       <=> \A i \in 1 .. Len(figures) : figures[i].status = "ok"

ArticleOK == pc = "figures" => Acceptable(article)

\* What a row has that was packaged, blocked later or not.
PackagedRow(row) ==
  /\ article # None /\ Acceptable(article)
  /\ row.license = article.license
  /\ row.hashes = MemberSet(row.members)
  /\ row.files \in {{}, row.hashes}
  /\ row.files = {} <=> row.blocked
  /\ \A i, j \in 1 .. Len(row.members) : row.members[i] = row.members[j] => i = j
  /\ {XmlMember, SourceMember} \subseteq row.hashes
  /\ MemberSet(row.links) \ {Url} = row.hashes \ {XmlMember, SourceMember}
  /\ row.status \in {"ok", "no_figures"} <=> Url \notin MemberSet(row.links)
  /\ Len(row.links) = article.media

OutOK ==
  out # None =>
    /\ RequestsBounded
    /\ IF out.status \in PackagedStatus THEN PackagedRow(out)
       ELSE out.files = {} /\ out.hashes = {}
    /\ out.status = "xml_http" => out.code \in HttpCodes

FetchInv ==
  FetchTypeOK /\ RequestsOK /\ FiguresOK /\ ArticleOK /\ OutOK
===============================================================================

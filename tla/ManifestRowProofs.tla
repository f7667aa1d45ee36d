--------------------------- MODULE ManifestRowProofs ---------------------------
(***************************************************************************)
(* The inductive invariant IInv of ManifestRow, and what follows from it   *)
(* for all numbers of retries, error codes, articles and options: the      *)
(* bound on the requests, the soundness of packages and of admitted rows,  *)
(* and the agreement of the tables of errors.                              *)
(***************************************************************************)
EXTENDS ManifestRow, SequenceTheorems, TLAPS

LEMMA NoneParts ==
  /\ \A e \in Error : e # None
  /\ \A a \in Article : a # None
  /\ \A r \in WorkerRow : r # None
BY NoneAssumption

\* A row without a package is a row of the worker.
LEMMA RowWithoutType ==
  ASSUME NEW status \in RowStatus, NEW code \in HttpCodes \cup {0}
  PROVE  /\ RowWithout(status, code) \in WorkerRow
         /\ \A l \in License, t \in BOOLEAN :
              [RowWithout(status, code) EXCEPT !.license = l, !.thirdParty = t]
                \in WorkerRow
<1> DEFINE F == [status : {"ok", "error", "skipped"}, member : Member]
<1>1. /\ <<>> \in Seq(F) /\ <<>> \in Seq(Member \cup {Url}) /\ <<>> \in Seq(Member)
  BY EmptySeq
<1>2. NoLicense \in License
  BY DEF NoLicense, License
<1> QED
  BY <1>1, <1>2 DEF RowWithout, WorkerRow

\* The number of requests that one more medium may take.
LEMMA OneMore ==
  ASSUME NEW n \in Nat, NEW k \in Nat
  PROVE  (n + 1) * k = n * k + k /\ n * k \in Nat
OBVIOUS

LEMMA AddressesType ==
  ASSUME FetchTypeOK
  PROVE  /\ Addresses \in 1 .. 3
         /\ AddressesAsked \in 0 .. 2
         /\ Retries \in Nat /\ FigureRetries \in Nat
         /\ opts \in [resolveFirst : BOOLEAN, fallback : BOOLEAN,
                      skipFigures : BOOLEAN, allowThirdParty : BOOLEAN,
                      keepTiff : BOOLEAN]
BY RetriesAssumption, RowOptionsAssumption
DEF FetchTypeOK, Addresses, AddressesAsked

LEMMA InitInv == Init => IInv
<1> SUFFICES ASSUME Init PROVE IInv
  OBVIOUS
<1> USE DEF Init, FetchInit
<1>1. /\ figures \in Seq([status : {"ok", "error", "skipped"}, member : Member])
      /\ figureFiles \in Seq(Member)
      /\ Len(figures) = 0 /\ Len(figureFiles) = 0
  BY EmptySeq
<1>2. FetchTypeOK
  BY <1>1, RetriesAssumption DEF FetchTypeOK, Phase, Requesting
<1>3. RequestsOK
  BY DEF RequestsOK
<1>4. FiguresOK
  BY <1>1 DEF FiguresOK
<1> QED
  BY <1>2, <1>3, <1>4 DEF IInv, TypeOK, FetchInv, ArticleOK, OutOK

(***************************************************************************)
(* The requests before the article is there.                               *)
(***************************************************************************)
Pending ==
  /\ figures' = figures /\ figureFiles' = figureFiles /\ out' = out
  /\ opts' = opts /\ article' = article
  /\ pc \notin {"figures", "done"}
  /\ pc' \in {"direct", "resolve", "final", "parse"}

LEMMA PendingStep ==
  ASSUME FetchInv, Pending, RequestsOK',
         attempt' \in 0 .. Retries \cup 0 .. FigureRetries,
         directError' \in Error \cup {None}, requests' \in Nat
  PROVE  FetchInv'
<1> USE DEF FetchInv, Pending
<1>1. out' = None
  BY DEF FetchTypeOK
<1>2. FetchTypeOK'
  BY <1>1 DEF FetchTypeOK, Phase, Requesting
<1>3. FiguresOK'
  BY DEF FiguresOK
<1> QED
  BY <1>1, <1>2, <1>3 DEF ArticleOK, OutOK

LEMMA StartStep == FetchInv /\ StartFetch => FetchInv'
<1> SUFFICES ASSUME FetchInv, StartFetch PROVE FetchInv'
  OBVIOUS
<1> USE DEF StartFetch, figureVars
<1>1. Pending
  BY AddressesType DEF FetchInv, Pending
<1>2. RequestsOK'
  BY AddressesType DEF FetchInv, RequestsOK, AddressesAsked
<1> QED
  BY <1>1, <1>2, PendingStep DEF FetchInv, FetchTypeOK

LEMMA RepeatXmlStep ==
  ASSUME FetchInv, NEW e \in Error, Repeat(e), pc # "figures"
  PROVE  FetchInv'
<1> USE DEF Repeat, figureVars, Request, Asking, MediaLeft, Limit
<1>1. Pending
  BY DEF Pending
<1>2. RequestsOK' /\ attempt' \in 0 .. Retries /\ requests' \in Nat
  <2>1. /\ attempt \in Nat /\ requests \in Nat
        /\ attempt <= Retries /\ requests <= AddressesAsked * (Retries + 1) + attempt
    BY AddressesType, RetriesAssumption DEF FetchInv, RequestsOK, FetchTypeOK
  <2>2. AddressesAsked' = AddressesAsked
    BY DEF AddressesAsked
  <2>3. AddressesAsked * (Retries + 1) \in Nat
    BY AddressesType, OneMore DEF FetchInv
  <2> HIDE DEF Limit
  <2>4. attempt < Retries
    BY DEF Limit
  <2> QED
    BY <2>1, <2>2, <2>3, <2>4, AddressesType DEF FetchInv, RequestsOK
<1> QED
  BY <1>1, <1>2, PendingStep DEF FetchInv, FetchTypeOK

LEMMA MoreAddresses ==
  ASSUME NEW n \in Nat, NEW m \in Nat, n <= m, NEW k \in Nat
  PROVE  n * (k + 1) <= m * (k + 1)
OBVIOUS

\* The next address has its requests when the last one has had its own.
LEMMA NextAddress ==
  ASSUME FetchInv, pc \in {"direct", "resolve", "final"}, Request
  PROVE  /\ requests' \in Nat
         /\ requests' <= (AddressesAsked + 1) * (Retries + 1)
         /\ AddressesAsked + 1 <= Addresses
         /\ requests' <= Addresses * (Retries + 1)
<1>1. /\ attempt \in Nat /\ requests \in Nat
      /\ attempt <= Retries /\ requests <= AddressesAsked * (Retries + 1) + attempt
  BY AddressesType, RetriesAssumption DEF FetchInv, RequestsOK, FetchTypeOK
<1>2. AddressesAsked + 1 <= Addresses
  BY NoneParts DEF FetchInv, RequestsOK, AddressesAsked, Addresses, FetchTypeOK
<1>3. /\ AddressesAsked \in Nat /\ Addresses \in Nat /\ Retries \in Nat
  BY AddressesType DEF FetchInv
<1>4. requests' <= (AddressesAsked + 1) * (Retries + 1) /\ requests' \in Nat
  BY <1>1, <1>3, OneMore DEF Request
<1>5. (AddressesAsked + 1) * (Retries + 1) <= Addresses * (Retries + 1)
  BY <1>2, <1>3, MoreAddresses
<1>6. Addresses * (Retries + 1) \in Nat /\ (AddressesAsked + 1) * (Retries + 1) \in Nat
  BY <1>3, OneMore
<1> QED
  BY <1>2, <1>4, <1>5, <1>6

LEMMA FallBackStep ==
  ASSUME FetchInv, NEW e \in Error, FallBack(e) PROVE FetchInv'
<1> USE DEF FallBack, FallsBack, figureVars
<1>1. Pending
  BY DEF Pending
<1>2. RequestsOK'
  <2>1. /\ AddressesAsked = 0 /\ AddressesAsked' = 1
        /\ requests' <= 1 * (Retries + 1)
    BY NextAddress, NoneParts DEF FetchInv, RequestsOK, AddressesAsked
  <2> QED
    BY <2>1, NextAddress, AddressesType, NoneParts DEF FetchInv, RequestsOK
<1> QED
  BY <1>1, <1>2, PendingStep, NextAddress, RetriesAssumption DEF FetchInv

LEMMA ResolveStep == FetchInv /\ ResolveElsewhere => FetchInv'
<1> SUFFICES ASSUME FetchInv, ResolveElsewhere PROVE FetchInv'
  OBVIOUS
<1> USE DEF ResolveElsewhere, figureVars
<1>1. Pending
  BY DEF Pending
<1>2. RequestsOK'
  <2>1. AddressesAsked' = AddressesAsked + 1
    BY AddressesType DEF FetchInv, AddressesAsked
  <2> QED
    BY <2>1, NextAddress, AddressesType DEF FetchInv, RequestsOK
<1> QED
  BY <1>1, <1>2, PendingStep, NextAddress, RetriesAssumption DEF FetchInv, FetchTypeOK

LEMMA GetXmlStep == FetchInv /\ GetXml => FetchInv'
<1> SUFFICES ASSUME FetchInv, GetXml PROVE FetchInv'
  OBVIOUS
<1> USE DEF GetXml, figureVars
<1>1. Pending
  BY DEF Pending
<1>2. RequestsOK'
  <2>1. Addresses' = Addresses
    BY DEF Addresses
  <2> QED
    BY <2>1, NextAddress, AddressesType DEF FetchInv, RequestsOK
<1> QED
  BY <1>1, <1>2, PendingStep, NextAddress, RetriesAssumption DEF FetchInv, FetchTypeOK

(***************************************************************************)
(* The results without a package.                                          *)
(***************************************************************************)
LEMMA ReturnStep ==
  ASSUME FetchInv, NEW row \in WorkerRow, Return(row),
         row.status \notin PackagedStatus, row.files = {}, row.hashes = {},
         row.status = "xml_http" => row.code \in HttpCodes,
         UNCHANGED <<opts, attempt, directError, figureVars>>,
         article' \in Article \cup {None},
         article' # None => Len(figures) <= article'.media,
         requests' \in Nat, RequestsBounded'
  PROVE  FetchInv'
<1> USE DEF FetchInv, Return, figureVars
<1>1. out' # None
  BY NoneParts
<1>2. FetchTypeOK'
  BY <1>1 DEF FetchTypeOK, Phase
<1>3. RequestsOK'
  BY DEF RequestsOK
<1>4. FiguresOK'
  BY DEF FiguresOK
<1> QED
  BY <1>2, <1>3, <1>4 DEF ArticleOK, OutOK

\* Before the figures the requests are within the bound of the addresses.
LEMMA BoundedByAddresses ==
  ASSUME FetchInv, requests' \in Nat, requests' <= Addresses * (Retries + 1),
         opts' = opts, article' \in Article \cup {None}
  PROVE  RequestsBounded'
<1>1. Addresses' = Addresses
  BY DEF Addresses
<1>2. Media' \in Nat
  BY MaxMediaAssumption, NoneParts DEF Media, Article
<1>3. Media' * (FigureRetries + 1) \in Nat
  <2> DEFINE m == Media'
  <2>1. m \in Nat /\ FigureRetries + 1 \in Nat
    BY <1>2, RetriesAssumption
  <2> HIDE DEF m
  <2>2. m * (FigureRetries + 1) \in Nat
    BY <2>1, OneMore
  <2> QED
    BY <2>2 DEF m
<1>4. Addresses * (Retries + 1) \in Nat
  BY AddressesType, OneMore DEF FetchInv
<1> QED
  BY <1>1, <1>3, <1>4 DEF RequestsBounded

LEMMA BoundedFrame ==
  ASSUME opts' = opts, requests' = requests, article' = article
  PROVE  RequestsBounded' = RequestsBounded
BY DEF RequestsBounded, Addresses, Media

\* The requests that each later phase finds made are within the bound.
LEMMA BoundedLater ==
  ASSUME FetchInv, pc \in {"start", "parse", "figures"}
  PROVE  RequestsBounded
<1> USE DEF FetchInv
<1>2. /\ Addresses \in Nat /\ Retries \in Nat /\ FigureRetries \in Nat
      /\ requests \in Nat /\ attempt \in Nat
  BY AddressesType DEF FetchTypeOK
<1>3. Media \in Nat
  BY MaxMediaAssumption, NoneParts DEF Media, Article, FetchTypeOK
<1>4. /\ Addresses * (Retries + 1) \in Nat
      /\ Media * (FigureRetries + 1) \in Nat
  BY <1>2, <1>3, OneMore
<1>5. CASE pc = "start"
  BY <1>2, <1>4, <1>5 DEF RequestsOK, RequestsBounded
<1>6. CASE pc = "parse"
  BY <1>2, <1>4, <1>6 DEF RequestsOK, RequestsBounded
<1>7. CASE pc = "figures"
  <2>1. Len(figures) \in Nat /\ Len(figures) <= Media
    BY <1>7, LenProperties DEF Media, FetchTypeOK
  <2>2. CASE Len(figures) = Media
    BY <1>2, <1>4, <1>7, <2>2 DEF RequestsOK, RequestsBounded, Media, FetchTypeOK
  <2>3. CASE Len(figures) < Media
    <3>1. PICK d \in Nat : Media = Len(figures) + 1 + d
      <4> DEFINE n == Len(figures)
      <4> HIDE DEF n
      <4>1. Media - n - 1 \in Nat /\ n \in Nat
        BY <2>1, <2>3, <1>3 DEF n
      <4>2. Media = n + 1 + (Media - n - 1)
        BY <4>1, <1>3
      <4> QED
        BY <4>1, <4>2 DEF n
    <3> DEFINE L == Len(figures) * (FigureRetries + 1)
    <3>2. /\ Media * (FigureRetries + 1)
               = L + (FigureRetries + 1) + d * (FigureRetries + 1)
          /\ L \in Nat /\ d * (FigureRetries + 1) \in Nat
      BY <3>1, <2>1, <1>2, OneMore
    <3>3. /\ attempt <= FigureRetries
          /\ requests <= Addresses * (Retries + 1) + L + attempt
      BY <1>7 DEF RequestsOK
    <3> HIDE DEF L
    <3> QED
      BY <1>2, <1>4, <3>2, <3>3 DEF RequestsBounded
  <2> QED
    BY <2>1, <2>2, <2>3, <1>3
<1> QED
  BY <1>5, <1>6, <1>7

LEMMA NoPackageStep ==
  ASSUME FetchInv, NEW status \in RowStatus \ PackagedStatus,
         NEW code \in HttpCodes \cup {0}, status = "xml_http" => code \in HttpCodes,
         Return(RowWithout(status, code)),
         UNCHANGED <<opts, attempt, directError, article, figureVars>>,
         requests' \in Nat, RequestsBounded'
  PROVE  FetchInv'
<1>1. RowWithout(status, code) \in WorkerRow
  BY RowWithoutType
<1>2. /\ RowWithout(status, code).status \notin PackagedStatus
      /\ RowWithout(status, code).files = {} /\ RowWithout(status, code).hashes = {}
      /\ RowWithout(status, code).status = "xml_http"
           => RowWithout(status, code).code \in HttpCodes
  BY DEF RowWithout
<1>3. /\ article' \in Article \cup {None}
      /\ article' # None => Len(figures) <= article'.media
  BY DEF FetchInv, FetchTypeOK
<1> QED
  BY <1>1, <1>2, <1>3, ReturnStep

LEMMA PassThroughStep == FetchInv /\ PassThrough => FetchInv'
<1> SUFFICES ASSUME FetchInv, PassThrough PROVE FetchInv'
  OBVIOUS
<1>1. RequestsBounded' /\ requests' \in Nat
  BY BoundedLater, BoundedFrame DEF PassThrough, figureVars, FetchInv, FetchTypeOK
<1>2. "not_planned" \in RowStatus \ PackagedStatus
  BY DEF RowStatus, PackagedStatus, LicenseStatus
<1> QED
  BY <1>1, <1>2, NoPackageStep DEF PassThrough

LEMMA XmlFailsStep ==
  ASSUME FetchInv, NEW e \in Error, XmlFails(e) PROVE FetchInv'
<1>1. RequestsBounded' /\ requests' \in Nat
  BY NextAddress, BoundedByAddresses DEF XmlFails, figureVars, FetchInv, FetchTypeOK
<1>2. /\ XmlStatus(e) \in RowStatus \ PackagedStatus
      /\ e.code \in HttpCodes \cup {0}
      /\ XmlStatus(e) = "xml_http" => e.code \in HttpCodes
  BY DEF RowStatus, PackagedStatus, LicenseStatus, XmlStatus, Error
<1> QED
  BY <1>1, <1>2, NoPackageStep DEF XmlFails

LEMMA ResolveSameStep == FetchInv /\ ResolveSame => FetchInv'
<1> SUFFICES ASSUME FetchInv, ResolveSame PROVE FetchInv'
  OBVIOUS
<1>1. RequestsBounded' /\ requests' \in Nat
  BY NextAddress, BoundedByAddresses DEF ResolveSame, figureVars, FetchInv, FetchTypeOK
<1>2. /\ XmlStatus(directError) \in RowStatus \ PackagedStatus
      /\ directError.code \in HttpCodes \cup {0}
      /\ XmlStatus(directError) = "xml_http" => directError.code \in HttpCodes
  BY DEF RowStatus, PackagedStatus, LicenseStatus, XmlStatus, Error, ResolveSame,
     FetchInv, FetchTypeOK
<1> QED
  BY <1>1, <1>2, NoPackageStep DEF ResolveSame

LEMMA FailsLaterStep == FetchInv /\ (ParseFails \/ RowFails) => FetchInv'
<1> SUFFICES ASSUME FetchInv, ParseFails \/ RowFails PROVE FetchInv'
  OBVIOUS
<1>1. RequestsBounded' /\ requests' \in Nat
  BY BoundedLater, BoundedFrame DEF ParseFails, RowFails, figureVars, FetchInv, FetchTypeOK
<1>2. {"xml_parse_error", "row_error"} \subseteq RowStatus \ PackagedStatus
  BY DEF RowStatus, PackagedStatus, LicenseStatus
<1> QED
  BY <1>1, <1>2, NoPackageStep DEF ParseFails, RowFails

\* The articles that are served.
LEMMA ArticlesType ==
  ASSUME NEW a \in Articles
  PROVE  /\ a \in Article /\ a.media \in Nat
         /\ a.license \in License /\ a.thirdParty \in BOOLEAN /\ a.body \in BOOLEAN
BY ArticlesAssumption, MaxMediaAssumption DEF Article

LEMMA RefuseStep ==
  ASSUME FetchInv, NEW a \in Articles, Refuse(a) PROVE FetchInv'
<1> DEFINE row == RefusedRow(a, Refusal(a))
<1>1. Refusal(a) \in RowStatus \ PackagedStatus /\ Refusal(a) # "xml_http"
  BY DEF Refusal, RowStatus, PackagedStatus, LicenseStatus
<1>2. row \in WorkerRow
  <2>1. NoLicense \in License /\ a.license \in License
    BY ArticlesType DEF NoLicense, License
  <2> QED
    BY <1>1, <2>1, RowWithoutType DEF RefusedRow
<1>3. /\ row.status = Refusal(a) /\ row.files = {} /\ row.hashes = {}
  BY DEF RowWithout, RefusedRow
<1>4. /\ requests \in Nat /\ requests' = requests /\ opts' = opts
      /\ requests <= Addresses * (Retries + 1)
  BY DEF FetchInv, FetchTypeOK, RequestsOK, Refuse
<1>5. RequestsBounded'
  BY <1>4, ArticlesType, BoundedByAddresses DEF Refuse
<1>6. Len(figures) = 0
  BY DEF FetchInv, FiguresOK, Refuse
<1>7. /\ Return(row) /\ UNCHANGED <<opts, attempt, directError, figureVars>>
      /\ article' \in Article \cup {None}
      /\ article' # None => Len(figures) <= article'.media
  BY <1>6, ArticlesType DEF Refuse, figureVars
<1> HIDE DEF row
<1>8. requests' \in Nat /\ row.status \notin PackagedStatus /\ row.status # "xml_http"
  BY <1>1, <1>3, <1>4
<1> QED
  BY <1>2, <1>3, <1>5, <1>7, <1>8, ReturnStep

(***************************************************************************)
(* The article and its media.                                              *)
(***************************************************************************)
LEMMA AdmitStep ==
  ASSUME FetchInv, NEW a \in Articles, Admit(a) PROVE FetchInv'
<1> USE DEF Admit, figureVars
<1>1. Len(figures) = 0 /\ out = None
  BY DEF FetchInv, FiguresOK, FetchTypeOK
<1>2. FetchTypeOK'
  <2>1. a # None /\ Len(figures) <= a.media /\ article' = a /\ a \in Article
    BY <1>1, ArticlesType, NoneParts
  <2> QED
    BY <1>1, <2>1 DEF FetchInv, FetchTypeOK, Phase, Requesting
<1>3. RequestsOK'
  <2>1. Addresses' = Addresses /\ Addresses * (Retries + 1) \in Nat
    BY AddressesType, OneMore DEF Addresses, FetchInv
  <2>2. /\ attempt = 0 /\ requests <= Addresses * (Retries + 1)
        /\ directError # None => ~opts.resolveFirst /\ opts.fallback
    BY DEF FetchInv, RequestsOK
  <2>3. requests \in Nat /\ FigureRetries \in Nat /\ 0 * (FigureRetries + 1) = 0
    BY RetriesAssumption DEF FetchInv, FetchTypeOK
  <2> QED
    BY <1>1, <2>1, <2>2, <2>3 DEF RequestsOK
<1>4. FiguresOK'
  BY DEF FetchInv, FiguresOK
<1>5. ArticleOK' /\ OutOK'
  BY <1>1 DEF ArticleOK, OutOK, Acceptable, ThirdPartyBars
<1> QED
  BY <1>2, <1>3, <1>4, <1>5 DEF FetchInv

LEMMA RepeatFigureStep ==
  ASSUME FetchInv, NEW e \in Error, Repeat(e), pc = "figures"
  PROVE  FetchInv'
<1> USE DEF Repeat, figureVars, Request, Asking, MediaLeft, Limit
<1>1. Len(figures) \in Nat /\ article.media \in Nat /\ article # None /\ out = None
  BY LenProperties, MaxMediaAssumption DEF FetchInv, FetchTypeOK, Article
<1>2. /\ attempt \in Nat /\ attempt < FigureRetries /\ FigureRetries \in Nat
      /\ requests \in Nat
  BY RetriesAssumption DEF FetchInv, FetchTypeOK
<1>3. FetchTypeOK'
  BY <1>2 DEF FetchInv, FetchTypeOK
<1>4. RequestsOK'
  <2> DEFINE bound == Addresses * (Retries + 1) + Len(figures) * (FigureRetries + 1)
  <2>1. bound' = bound /\ bound \in Nat
    BY <1>1, AddressesType, OneMore DEF Addresses, FetchInv
  <2>2. requests <= bound + attempt
    BY DEF FetchInv, RequestsOK
  <2> HIDE DEF bound
  <2>3. requests + 1 <= bound + (attempt + 1)
    BY <1>2, <2>1, <2>2
  <2>4. Len(figures) # article.media
    BY <1>1
  <2> QED
    BY <1>2, <2>1, <2>3, <2>4 DEF FetchInv, RequestsOK, bound
<1>5. FiguresOK' /\ ArticleOK' /\ OutOK'
  BY <1>1 DEF FetchInv, FiguresOK, ArticleOK, Acceptable, ThirdPartyBars, OutOK
<1> QED
  BY <1>3, <1>4, <1>5 DEF FetchInv

\* The next medium has its entry, and its member if it was fetched.
FigureAdded(f) ==
  /\ MediaLeft
  /\ Request
  /\ attempt' = 0
  /\ figures' = Append(figures, f)
  /\ figureFiles' = IF f.status = "ok" THEN Append(figureFiles, f.member)
                    ELSE figureFiles
  /\ UNCHANGED <<opts, pc, directError, article, out>>

NextFigure ==
  {Figure(status, kind) : status \in {"ok", "error"}, kind \in {"original", "rendered"}}

LEMMA NextFigureType ==
  ASSUME FetchTypeOK, MediaLeft, NEW f \in NextFigure
  PROVE  /\ f \in [status : {"ok", "error", "skipped"}, member : Member]
         /\ f.member \in Member /\ f.member[1] \notin {"xml", "source"}
         /\ f.member[2] = Len(figures) + 1
<1>1. article \in Article /\ Len(figures) \in Nat /\ Len(figures) < article.media
  BY LenProperties DEF FetchTypeOK, MediaLeft
<1>2. Len(figures) + 1 \in 0 .. MaxMedia
  BY <1>1, MaxMediaAssumption DEF Article
<1>3. PICK status \in {"ok", "error"}, kind \in {"original", "rendered"} :
        f = [status |-> status, member |-> <<kind, Len(figures) + 1>>]
  BY DEF NextFigure, Figure, NextMember
<1> QED
  BY <1>2, <1>3 DEF Member, MemberKind

\* Appending to the figures, and to their members when the figure is "ok".
LEMMA AppendedFigures ==
  ASSUME NEW S, NEW T, NEW s \in Seq(S), NEW t \in Seq(T), NEW x \in S, NEW y \in T
  PROVE  /\ Len(Append(s, x)) = Len(s) + 1 /\ Len(s) \in Nat
         /\ \A i \in 1 .. Len(s) + 1 :
              \/ i \in 1 .. Len(s) /\ Append(s, x)[i] = s[i]
              \/ i = Len(s) + 1 /\ Append(s, x)[i] = x
         /\ \A i \in 1 .. Len(s) : i \in 1 .. Len(s) + 1 /\ Append(s, x)[i] = s[i]
         /\ Len(s) + 1 \in 1 .. Len(s) + 1 /\ Append(s, x)[Len(s) + 1] = x
BY AppendProperties, LenProperties

\* The entries of the media are numbered, and name no member of the article.
Numbered(fs) ==
  \A i \in 1 .. Len(fs) : fs[i].member[1] \notin {"xml", "source"} /\ fs[i].member[2] = i

\* What figure_files has of the entries.
Listed(fs, ms) ==
  /\ \A i \in 1 .. Len(fs) : fs[i].status = "ok" =>
       \E k \in 1 .. Len(ms) : ms[k] = fs[i].member
  /\ \A k \in 1 .. Len(ms) : \E i \in 1 .. Len(fs) :
       fs[i].status = "ok" /\ fs[i].member = ms[k]

Distinct(ms) == \A k, l \in 1 .. Len(ms) : ms[k] = ms[l] => k = l

Counted(fs, ms) ==
  /\ Len(ms) <= Len(fs)
  /\ Len(ms) = Len(fs) <=> \A i \in 1 .. Len(fs) : fs[i].status = "ok"

LEMMA ListedAppend ==
  ASSUME NEW S, NEW T, NEW fs \in Seq(S), NEW ms \in Seq(T),
         NEW f \in S, f.member \in T,
         f.member[1] \notin {"xml", "source"}, f.member[2] = Len(fs) + 1,
         Numbered(fs), Listed(fs, ms), Distinct(ms), Counted(fs, ms)
  PROVE  /\ Numbered(Append(fs, f))
         /\ f.status = "ok" =>
              /\ Listed(Append(fs, f), Append(ms, f.member))
              /\ Distinct(Append(ms, f.member))
              /\ Counted(Append(fs, f), Append(ms, f.member))
         /\ f.status # "ok" =>
              Listed(Append(fs, f), ms) /\ Counted(Append(fs, f), ms)
<1> DEFINE n == Len(fs)
           m == Len(ms)
           gs == Append(fs, f)
           ns == Append(ms, f.member)
<1>1. /\ Len(gs) = n + 1 /\ n \in Nat
      /\ \A i \in 1 .. n + 1 : (i \in 1 .. n /\ gs[i] = fs[i]) \/ (i = n + 1 /\ gs[i] = f)
      /\ \A i \in 1 .. n : i \in 1 .. n + 1 /\ gs[i] = fs[i]
      /\ n + 1 \in 1 .. n + 1 /\ gs[n + 1] = f
  BY AppendedFigures
<1>2. /\ Len(ns) = m + 1 /\ m \in Nat
      /\ \A k \in 1 .. m + 1 :
           (k \in 1 .. m /\ ns[k] = ms[k]) \/ (k = m + 1 /\ ns[k] = f.member)
      /\ \A k \in 1 .. m : k \in 1 .. m + 1 /\ ns[k] = ms[k]
      /\ m + 1 \in 1 .. m + 1 /\ ns[m + 1] = f.member
  BY AppendedFigures
<1>3. /\ \A i \in 1 .. n : /\ fs[i].member[1] \notin {"xml", "source"}
                          /\ fs[i].member[2] = i
      /\ \A i \in 1 .. n : fs[i].status = "ok" => \E k \in 1 .. m : ms[k] = fs[i].member
      /\ \A k \in 1 .. m : \E i \in 1 .. n : fs[i].status = "ok" /\ fs[i].member = ms[k]
      /\ \A k, l \in 1 .. m : ms[k] = ms[l] => k = l
      /\ m <= n
      /\ m = n <=> \A i \in 1 .. n : fs[i].status = "ok"
  BY DEF Numbered, Listed, Distinct, Counted
<1>4. f.member[1] \notin {"xml", "source"} /\ f.member[2] = n + 1
  OBVIOUS
<1> HIDE DEF n, m, gs, ns
<1>a. \A i \in 1 .. n : fs[i].status = "ok" => \E k \in 1 .. m : ms[k] = fs[i].member
  BY <1>3
<1>b. \A k \in 1 .. m : \E i \in 1 .. n : fs[i].status = "ok" /\ fs[i].member = ms[k]
  BY <1>3
<1>c. \A k, l \in 1 .. m : ms[k] = ms[l] => k = l
  BY <1>3
<1>d. \A i \in 1 .. n : fs[i].member[2] = i
  BY <1>3
<1>e. m <= n /\ (m = n <=> \A i \in 1 .. n : fs[i].status = "ok")
  BY <1>3
<1>5. Numbered(gs)
  BY <1>1, <1>3, <1>4 DEF Numbered
<1>6. ASSUME f.status = "ok" PROVE Listed(gs, ns) /\ Distinct(ns) /\ Counted(gs, ns)
  <2>1. \A k \in 1 .. m : ms[k] # f.member
    <3> SUFFICES ASSUME NEW k \in 1 .. m, ms[k] = f.member PROVE FALSE
      OBVIOUS
    <3>1. PICK i \in 1 .. n : fs[i].member = ms[k]
      BY <1>b
    <3>2. fs[i].member[2] = i
      BY <1>d
    <3>3. i # n + 1
      BY <1>1
    <3> QED
      BY <1>4, <3>1, <3>2, <3>3
  <2>2. Distinct(ns)
    <3> SUFFICES ASSUME NEW k \in 1 .. m + 1, NEW l \in 1 .. m + 1, ns[k] = ns[l]
                 PROVE  k = l
      BY <1>2 DEF Distinct
    <3> QED
      BY <1>2, <1>c, <2>1
  <2>3. ASSUME NEW i \in 1 .. n + 1, gs[i].status = "ok"
        PROVE  \E k \in 1 .. m + 1 : ns[k] = gs[i].member
    <3>1. CASE i = n + 1
      <4>1. ns[m + 1] = gs[i].member /\ m + 1 \in 1 .. m + 1
        BY <1>1, <1>2, <3>1
      <4> QED
        BY <4>1
    <3>2. CASE i # n + 1
      <4>1. i \in 1 .. n /\ gs[i] = fs[i]
        BY <1>1, <3>2
      <4>2. PICK k \in 1 .. m : ms[k] = fs[i].member
        BY <1>a, <2>3, <4>1
      <4> QED
        BY <1>2, <4>1, <4>2
    <3> QED
      BY <3>1, <3>2
  <2>4. ASSUME NEW k \in 1 .. m + 1
        PROVE  \E i \in 1 .. n + 1 : gs[i].status = "ok" /\ gs[i].member = ns[k]
    <3>1. CASE k = m + 1
      BY <1>1, <1>2, <1>6, <3>1
    <3>2. CASE k # m + 1
      <4>1. k \in 1 .. m /\ ns[k] = ms[k]
        BY <1>2, <3>2
      <4>2. PICK i \in 1 .. n : fs[i].status = "ok" /\ fs[i].member = ms[k]
        BY <1>b, <4>1
      <4> QED
        BY <1>1, <4>1, <4>2
    <3> QED
      BY <3>1, <3>2
  <2>5. Listed(gs, ns)
    BY <1>1, <1>2, <2>3, <2>4 DEF Listed
  <2>6. (\A i \in 1 .. n + 1 : gs[i].status = "ok") <=> \A i \in 1 .. n : fs[i].status = "ok"
    BY <1>1, <1>6
  <2>7. Counted(gs, ns)
    BY <1>1, <1>2, <1>e, <2>6 DEF Counted
  <2> QED
    BY <2>2, <2>5, <2>7
<1>7. ASSUME f.status # "ok" PROVE Listed(gs, ms) /\ Counted(gs, ms)
  <2>1. ASSUME NEW i \in 1 .. n + 1, gs[i].status = "ok"
        PROVE  \E k \in 1 .. m : ms[k] = gs[i].member
    <3>1. i \in 1 .. n /\ gs[i] = fs[i]
      BY <1>1, <1>7, <2>1
    <3>2. PICK k \in 1 .. m : ms[k] = fs[i].member
      BY <1>a, <2>1, <3>1
    <3> QED
      BY <3>1, <3>2
  <2>2. ASSUME NEW k \in 1 .. m
        PROVE  \E i \in 1 .. n + 1 : gs[i].status = "ok" /\ gs[i].member = ms[k]
    <3>1. PICK i \in 1 .. n : fs[i].status = "ok" /\ fs[i].member = ms[k]
      BY <1>b
    <3> QED
      BY <1>1, <3>1
  <2>3. Listed(gs, ms)
    BY <1>1, <2>1, <2>2 DEF Listed, m
  <2>4. Counted(gs, ms)
    BY <1>1, <1>2, <1>e, <1>7 DEF Counted, m
  <2> QED
    BY <2>3, <2>4
<1> QED
  BY <1>5, <1>6, <1>7 DEF gs, ns

LEMMA FiguresParts ==
  FiguresOK <=>
    /\ pc \notin {"figures", "done"} \/ opts.skipFigures =>
         figures = <<>> /\ figureFiles = <<>>
    /\ Numbered(figures) /\ Listed(figures, figureFiles)
    /\ Distinct(figureFiles) /\ Counted(figures, figureFiles)
BY DEF FiguresOK, Numbered, Listed, Distinct, Counted

LEMMA FigureAddedFigures ==
  ASSUME FetchInv, NEW f \in NextFigure, FigureAdded(f)
  PROVE  FiguresOK'
<1> DEFINE F == [status : {"ok", "error", "skipped"}, member : Member]
<1>1. /\ figures \in Seq(F) /\ figureFiles \in Seq(Member)
      /\ pc' = "figures" /\ ~opts'.skipFigures
  BY DEF FetchInv, FetchTypeOK, FigureAdded, MediaLeft
<1>2. /\ f \in F /\ f.member \in Member /\ f.member[1] \notin {"xml", "source"}
      /\ f.member[2] = Len(figures) + 1
  BY NextFigureType DEF FetchInv, FigureAdded
<1>3. /\ Numbered(figures) /\ Listed(figures, figureFiles)
      /\ Distinct(figureFiles) /\ Counted(figures, figureFiles)
  BY FiguresParts DEF FetchInv
<1> HIDE DEF F
<1>4. /\ Numbered(figures') /\ Listed(figures', figureFiles')
      /\ Distinct(figureFiles') /\ Counted(figures', figureFiles')
  BY <1>1, <1>2, <1>3, ListedAppend DEF FigureAdded
<1> QED
  BY <1>1, <1>4 DEF FiguresOK, Numbered, Listed, Distinct, Counted

LEMMA FigureAddedStep ==
  ASSUME FetchInv, NEW f \in NextFigure, FigureAdded(f)
  PROVE  FetchInv'
<1> DEFINE F == [status : {"ok", "error", "skipped"}, member : Member]
<1> USE DEF FigureAdded
<1>1. /\ f \in F /\ f.member \in Member
      /\ figures \in Seq(F) /\ figureFiles \in Seq(Member)
      /\ Len(figures) \in Nat /\ pc = "figures" /\ out = None
      /\ article # None /\ article.media \in Nat /\ Len(figures) < article.media
  BY NextFigureType, LenProperties, MaxMediaAssumption
  DEF FetchInv, FetchTypeOK, MediaLeft, Article
<1>2. /\ figures' \in Seq(F) /\ Len(figures') = Len(figures) + 1
      /\ figureFiles' \in Seq(Member)
  BY <1>1, AppendProperties
<1>3. /\ requests' \in Nat /\ 0 \in 0 .. Retries \cup 0 .. FigureRetries
      /\ Len(figures') <= article'.media
  BY <1>1, <1>2, RetriesAssumption DEF FetchInv, FetchTypeOK, Request
<1>4. FetchTypeOK'
  BY <1>1, <1>2, <1>3 DEF FetchInv, FetchTypeOK
<1>5. RequestsOK'
  <2> DEFINE a == Addresses * (Retries + 1)
             k == FigureRetries + 1
  <2>1. /\ a' = a /\ a \in Nat /\ k \in Nat
        /\ (Len(figures) + 1) * k = Len(figures) * k + k
        /\ Len(figures) * k \in Nat
    <3>1. Addresses' = Addresses
      BY DEF Addresses
    <3>2. Addresses \in Nat /\ Retries + 1 \in Nat /\ k \in Nat
      BY AddressesType DEF FetchInv
    <3> QED
      BY <1>1, <3>1, <3>2, OneMore
  <2>2. /\ requests <= a + Len(figures) * k + attempt
        /\ attempt \in Nat /\ requests \in Nat
        /\ attempt <= FigureRetries /\ FigureRetries \in Nat
    BY <1>1, RetriesAssumption DEF FetchInv, RequestsOK, FetchTypeOK
  <2>3. attempt + 1 <= k
    BY <2>2
  <2> HIDE DEF a, k
  <2>4. requests + 1 <= a + (Len(figures) + 1) * k + 0
    BY <2>1, <2>2, <2>3
  <2>5. requests' <= a' + Len(figures') * k + 0
    BY <1>2, <2>1, <2>4 DEF Request
  <2> QED
    BY <1>1, <2>2, <2>5 DEF FetchInv, RequestsOK, a, k
<1>6. FiguresOK'
  BY FigureAddedFigures
<1>7. ArticleOK' /\ OutOK'
  BY <1>1 DEF FetchInv, ArticleOK, Acceptable, ThirdPartyBars, OutOK
<1> QED
  BY <1>4, <1>5, <1>6, <1>7 DEF FetchInv

LEMMA GetFigureStep ==
  ASSUME FetchInv, NEW payload \in Payload, NEW renders \in BOOLEAN,
         GetFigure(payload, renders)
  PROVE  FetchInv'
<1>1. FigureResult(payload, renders) \in NextFigure
  BY DEF FigureResult, NextFigure
<1>2. FigureAdded(FigureResult(payload, renders))
  BY DEF GetFigure, FigureAdded
<1> QED
  BY <1>1, <1>2, FigureAddedStep

LEMMA FigureFailsStep ==
  ASSUME FetchInv, NEW e \in Error, FigureFails(e) PROVE FetchInv'
<1>1. Figure("error", "original") \in NextFigure
  BY DEF NextFigure
<1>2. FigureAdded(Figure("error", "original"))
  BY DEF FigureFails, FigureAdded, Figure
<1> QED
  BY <1>1, <1>2, FigureAddedStep

(***************************************************************************)
(* The package.                                                            *)
(***************************************************************************)

\* The media of a package, whether they were fetched or skipped.
LEMMA ManifestFacts ==
  ASSUME FetchInv, pc = "figures", ~MediaLeft
  PROVE  /\ FigureManifest \in Seq([status : {"ok", "error", "skipped"}, member : Member])
         /\ Len(FigureManifest) = article.media
         /\ article \in Article /\ article # None /\ article.media \in Nat
         /\ figureFiles \in Seq(Member)
         /\ Numbered(FigureManifest) /\ Listed(FigureManifest, figureFiles)
         /\ Distinct(figureFiles) /\ Counted(FigureManifest, figureFiles)
<1> DEFINE F == [status : {"ok", "error", "skipped"}, member : Member]
           n == article.media
           g == [i \in 1 .. n |-> [status |-> "skipped", member |-> <<"original", i>>]]
<1>1. /\ article \in Article /\ article # None /\ n \in Nat /\ n <= MaxMedia
      /\ figures \in Seq(F) /\ figureFiles \in Seq(Member)
      /\ Len(figures) \in Nat /\ Len(figures) <= n
      /\ Distinct(figureFiles)
  BY FiguresParts, MaxMediaAssumption, LenProperties DEF FetchInv, FetchTypeOK, Article
<1>2. CASE opts.skipFigures
  <2>1. FigureManifest = g /\ figureFiles = <<>>
    BY <1>2, FiguresParts DEF FigureManifest, FetchInv
  <2>2. \A i \in 1 .. n : [status |-> "skipped", member |-> <<"original", i>>] \in F
    BY <1>1, MaxMediaAssumption DEF Member, MemberKind
  <2>3. g \in Seq(F) /\ Len(g) = n /\ Len(figureFiles) = 0
    <3>1. n \in Nat /\ g \in [1 .. n -> F]
      BY <1>1, <2>2
    <3> HIDE DEF g, F, n
    <3> QED
      BY <2>1, <3>1
  <2>4. \A i \in 1 .. n : /\ g[i].status # "ok" /\ g[i].member[1] \notin {"xml", "source"}
                        /\ g[i].member[2] = i
    OBVIOUS
  <2> HIDE DEF g, F, n
  <2>5. Numbered(g) /\ Listed(g, figureFiles) /\ Counted(g, figureFiles)
    BY <1>1, <2>3, <2>4 DEF Numbered, Listed, Counted
  <2> QED
    BY <1>1, <2>1, <2>3, <2>5 DEF F, n
<1>3. CASE ~opts.skipFigures
  <2>1. FigureManifest = figures /\ Len(figures) = n
    BY <1>1, <1>3 DEF FigureManifest, MediaLeft
  <2> QED
    BY <1>1, <2>1, FiguresParts DEF FetchInv
<1> QED
  BY <1>2, <1>3

\* The members of the article, and those of the media after them.
LEMMA MembersFacts ==
  ASSUME figureFiles \in Seq(Member)
  PROVE  /\ PackageMembers \in Seq(Member) /\ Len(PackageMembers) = Len(figureFiles) + 2
         /\ Len(figureFiles) \in Nat
         /\ PackageMembers[1] = XmlMember /\ PackageMembers[2] = SourceMember
         /\ \A k \in 1 .. Len(figureFiles) : /\ PackageMembers[k + 2] = figureFiles[k]
                                             /\ k + 2 \in 1 .. Len(figureFiles) + 2
         /\ \A i \in 1 .. Len(figureFiles) + 2 :
              i = 1 \/ i = 2 \/ (/\ i - 2 \in 1 .. Len(figureFiles)
                                /\ PackageMembers[i] = figureFiles[i - 2])
<1> DEFINE h == <<XmlMember, SourceMember>>
<1>1. XmlMember \in Member /\ SourceMember \in Member
  BY MaxMediaAssumption DEF XmlMember, SourceMember, Member, MemberKind
<1>2. h \in Seq(Member) /\ Len(h) = 2 /\ h[1] = XmlMember /\ h[2] = SourceMember
  BY <1>1
<1>3. Len(figureFiles) \in Nat
  BY LenProperties
<1> HIDE DEF h
<1>4. /\ h \o figureFiles \in Seq(Member) /\ Len(h \o figureFiles) = 2 + Len(figureFiles)
      /\ \A i \in 1 .. 2 + Len(figureFiles) :
           (h \o figureFiles)[i] = IF i <= 2 THEN h[i] ELSE figureFiles[i - 2]
  <2>1. /\ h \o figureFiles \in Seq(Member)
        /\ Len(h \o figureFiles) = Len(h) + Len(figureFiles)
        /\ \A i \in 1 .. Len(h) + Len(figureFiles) : (h \o figureFiles)[i] =
             IF i <= Len(h) THEN h[i] ELSE figureFiles[i - Len(h)]
    BY <1>2, ConcatProperties, Zenon
  <2> QED
    BY <1>2, <2>1
<1>5. PackageMembers = h \o figureFiles
  BY DEF PackageMembers, h
<1> QED
  BY <1>2, <1>3, <1>4, <1>5

LEMMA LinksFacts ==
  ASSUME FetchInv, pc = "figures", ~MediaLeft
  PROVE  /\ RewriteMedia(FigureManifest) \in Seq(Member \cup {Url})
         /\ Len(RewriteMedia(FigureManifest)) = article.media
         /\ MemberSet(RewriteMedia(FigureManifest)) \ {Url}
              = MemberSet(PackageMembers) \ {XmlMember, SourceMember}
         /\ PackageStatus(FigureManifest) \in {"ok", "no_figures"}
              <=> Url \notin MemberSet(RewriteMedia(FigureManifest))
<1> DEFINE fs == FigureManifest
           ls == RewriteMedia(FigureManifest)
           ms == figureFiles
           n == article.media
<1>1. /\ fs \in Seq([status : {"ok", "error", "skipped"}, member : Member])
      /\ Len(fs) = n /\ n \in Nat /\ ms \in Seq(Member)
      /\ Numbered(fs) /\ Listed(fs, ms) /\ Counted(fs, ms)
  BY ManifestFacts
<1>2. \A i \in 1 .. n : fs[i].member \in Member
  <2>1. \A i \in 1 .. n : fs[i] \in [status : {"ok", "error", "skipped"}, member : Member]
    BY <1>1, ElementOfSeq
  <2> QED
    BY <2>1
<1>3. ls = [i \in 1 .. n |-> IF fs[i].status = "ok" THEN fs[i].member ELSE Url]
  BY <1>1 DEF RewriteMedia
<1>4. Url \notin Member /\ XmlMember[1] = "xml" /\ SourceMember[1] = "source"
  BY DEF Url, Member, MemberKind, XmlMember, SourceMember
<1>5. /\ ls \in Seq(Member \cup {Url}) /\ Len(ls) = n
  BY <1>1, <1>2, <1>3
<1>8. \A x : x \in MemberSet(ls) <=>
        \E i \in 1 .. n : x = IF fs[i].status = "ok" THEN fs[i].member ELSE Url
  <2>1. \A x : x \in MemberSet(ls) <=> \E i \in 1 .. Len(ls) : x = ls[i]
    BY DEF MemberSet
  <2>2. \A i \in 1 .. n : ls[i] = IF fs[i].status = "ok" THEN fs[i].member ELSE Url
    BY <1>3
  <2> HIDE DEF ls, n, fs
  <2> QED
    BY <1>5, <2>1, <2>2
<1> HIDE DEF ls, n, fs
<1>6. MemberSet(ls) \ {Url} = MemberSet(PackageMembers) \ {XmlMember, SourceMember}
  <2>1. \A x : x \in MemberSet(ls) \ {Url}
                <=> \E i \in 1 .. n : fs[i].status = "ok" /\ x = fs[i].member
    BY <1>2, <1>4, <1>8
  <2>2. \A k \in 1 .. Len(ms) : ms[k][1] \notin {"xml", "source"}
    BY <1>1 DEF Listed, Numbered
  <2>3. \A x : x \in MemberSet(PackageMembers) \ {XmlMember, SourceMember}
                <=> \E k \in 1 .. Len(ms) : x = ms[k]
    <3>1. MemberSet(PackageMembers)
            = {XmlMember, SourceMember} \cup {ms[k] : k \in 1 .. Len(ms)}
      <4>1. \A i \in 1 .. Len(PackageMembers) : PackageMembers[i]
              \in {XmlMember, SourceMember} \cup {ms[k] : k \in 1 .. Len(ms)}
        BY <1>1, MembersFacts
      <4>2. /\ 1 \in 1 .. Len(PackageMembers) /\ 2 \in 1 .. Len(PackageMembers)
            /\ \A k \in 1 .. Len(ms) : /\ ms[k] = PackageMembers[k + 2]
                                      /\ k + 2 \in 1 .. Len(PackageMembers)
        BY <1>1, MembersFacts
      <4> QED
        BY <1>1, <4>1, <4>2, MembersFacts DEF MemberSet
    <3> QED
      BY <1>4, <2>2, <3>1
  <2>4. \A x : (\E i \in 1 .. n : fs[i].status = "ok" /\ x = fs[i].member)
                <=> \E k \in 1 .. Len(ms) : x = ms[k]
    BY <1>1 DEF Listed
  <2> QED
    BY <2>1, <2>3, <2>4
<1>7. PackageStatus(fs) \in {"ok", "no_figures"} <=> Url \notin MemberSet(ls)
  <2>1. Url \notin MemberSet(ls) <=> \A i \in 1 .. n : fs[i].status = "ok"
    BY <1>2, <1>4, <1>8
  <2>2. PackageStatus(fs) \in {"ok", "no_figures"} <=> fs = <<>> \/ Len(ms) = Len(fs)
    BY DEF PackageStatus
  <2>3. fs = <<>> => Len(ms) = Len(fs)
    BY <1>1, LenProperties DEF Counted
  <2> QED
    BY <1>1, <2>1, <2>2, <2>3 DEF Counted
<1> QED
  BY <1>5, <1>6, <1>7 DEF ls, n, fs

LEMMA PackageStep == FetchInv /\ Package => FetchInv'
<1> SUFFICES ASSUME FetchInv, Package PROVE FetchInv'
  OBVIOUS
<1> DEFINE members == PackageMembers
           row == [status |-> PackageStatus(FigureManifest), code |-> 0,
                   blocked |-> FALSE, license |-> article.license,
                   thirdParty |-> article.thirdParty,
                   figures |-> FigureManifest,
                   links |-> RewriteMedia(FigureManifest),
                   members |-> members,
                   hashes |-> MemberSet(members), files |-> MemberSet(members)]
<1>1. pc = "figures" /\ ~MediaLeft /\ out' = row /\ pc' = "done"
  BY DEF Package, Return
<1>2. UNCHANGED <<opts, attempt, directError, article, figures, figureFiles, requests>>
  BY DEF Package, figureVars
<1>3. PackageStatus(FigureManifest) \in PackagedStatus
  BY DEF PackageStatus, PackagedStatus
<1>4. /\ members \in Seq(Member)
      /\ MemberSet(members) \in SUBSET Member
      /\ {XmlMember, SourceMember} \subseteq MemberSet(members)
      /\ \A i, j \in 1 .. Len(members) : members[i] = members[j] => i = j
  <2>1. /\ figureFiles \in Seq(Member) /\ Len(figureFiles) \in Nat
        /\ Len(members) = Len(figureFiles) + 2
        /\ members[1] = XmlMember /\ members[2] = SourceMember
        /\ members \in Seq(Member)
    BY <1>1, ManifestFacts, MembersFacts
  <2>2. \A i \in 1 .. Len(members) : members[i] \in Member
    BY <2>1, ElementOfSeq
  <2>3. \A k \in 1 .. Len(figureFiles) :
           figureFiles[k] # XmlMember /\ figureFiles[k] # SourceMember
    BY <1>1, ManifestFacts DEF Listed, Numbered, XmlMember, SourceMember
  <2>4. ASSUME NEW i \in 1 .. Len(members), NEW j \in 1 .. Len(members),
               members[i] = members[j]
        PROVE  i = j
    <3>1. \A k \in 1 .. Len(members) :
            \/ k = 1 /\ members[k] = XmlMember
            \/ k = 2 /\ members[k] = SourceMember
            \/ /\ k - 2 \in 1 .. Len(figureFiles)
               /\ members[k] = figureFiles[k - 2]
      BY <2>1, MembersFacts
    <3>2. XmlMember # SourceMember
      BY DEF XmlMember, SourceMember
    <3>3. \A k, l \in 1 .. Len(figureFiles) : figureFiles[k] = figureFiles[l] => k = l
      BY <1>1, ManifestFacts DEF Distinct
    <3> HIDE DEF members
    <3> QED
      BY <2>1, <2>3, <2>4, <3>1, <3>2, <3>3
  <2>5. 1 \in 1 .. Len(members) /\ 2 \in 1 .. Len(members)
    BY <2>1
  <2> HIDE DEF members
  <2> QED
    BY <2>1, <2>2, <2>4, <2>5 DEF MemberSet
<1>5. /\ article \in Article /\ article # None
      /\ FigureManifest \in Seq([status : {"ok", "error", "skipped"}, member : Member])
  BY <1>1, ManifestFacts
<1>6. /\ RewriteMedia(FigureManifest) \in Seq(Member \cup {Url})
      /\ Len(RewriteMedia(FigureManifest)) = article.media
      /\ MemberSet(RewriteMedia(FigureManifest)) \ {Url}
           = MemberSet(members) \ {XmlMember, SourceMember}
      /\ PackageStatus(FigureManifest) \in {"ok", "no_figures"}
           <=> Url \notin MemberSet(RewriteMedia(FigureManifest))
  BY <1>1, LinksFacts
<1> HIDE DEF members
<1>7. row \in WorkerRow
  BY <1>3, <1>4, <1>5, <1>6 DEF WorkerRow, RowStatus, Article
<1>8. FetchTypeOK'
  BY <1>1, <1>2, <1>7, NoneParts DEF FetchInv, FetchTypeOK, Phase
<1>9. RequestsOK'
  BY <1>1, <1>2 DEF FetchInv, RequestsOK
<1>10. FiguresOK' /\ ArticleOK'
  BY <1>1, <1>2 DEF FetchInv, FiguresOK, ArticleOK
<1>11. PackagedRow(row)
  <2>1. Acceptable(article)
    BY <1>1 DEF FetchInv, ArticleOK
  <2> QED
    BY <1>4, <1>5, <1>6, <2>1 DEF PackagedRow
<1>12. PackagedRow(row)'
  <2> HIDE DEF row
  <2>1. row' = row
    BY <1>2 DEF row, members, PackageStatus, FigureManifest, RewriteMedia,
       PackageMembers, MemberSet
  <2>2. article' = article /\ opts' = opts
    BY <1>2
  <2> QED
    BY <1>11, <2>1, <2>2 DEF PackagedRow, Acceptable, ThirdPartyBars
<1>13. RequestsBounded'
  BY <1>1, <1>2, BoundedLater, BoundedFrame
<1>14. OutOK'
  <2>1. out' = row' /\ row.status \in PackagedStatus
    <3>1. row' = row
      BY <1>2 DEF row, members, PackageStatus, FigureManifest, RewriteMedia,
         PackageMembers, MemberSet
    <3> QED
      BY <1>1, <1>3, <3>1
  <2>2. out'.status \in PackagedStatus /\ out'.status # "xml_http"
    BY <1>1, <2>1 DEF PackagedStatus
  <2> HIDE DEF row
  <2> QED
    BY <1>12, <1>13, <2>1, <2>2 DEF OutOK
<1> QED
  BY <1>8, <1>9, <1>10, <1>14 DEF FetchInv

\* Every step of the fetching keeps FetchInv.
LEMMA FetchStep == FetchInv /\ FetchNext => FetchInv'
<1> SUFFICES ASSUME FetchInv, FetchNext PROVE FetchInv'
  OBVIOUS
<1>1. ASSUME NEW e \in Error, Repeat(e) \/ FallBack(e) \/ XmlFails(e) \/ FigureFails(e)
      PROVE  FetchInv'
  BY <1>1, RepeatXmlStep, RepeatFigureStep, FallBackStep, XmlFailsStep, FigureFailsStep
<1>2. CASE PassThrough \/ StartFetch \/ ResolveElsewhere \/ ResolveSame \/ GetXml
  BY <1>2, PassThroughStep, StartStep, ResolveStep, ResolveSameStep, GetXmlStep
<1>3. CASE ParseFails \/ RowFails \/ Package
  BY <1>3, FailsLaterStep, PackageStep
<1>4. ASSUME NEW a \in Articles, Refuse(a) \/ Admit(a) PROVE FetchInv'
  BY <1>4, RefuseStep, AdmitStep
<1>5. ASSUME NEW payload \in Payload, NEW renders \in BOOLEAN,
             GetFigure(payload, renders)
      PROVE  FetchInv'
  BY <1>5, GetFigureStep
<1> QED
  BY <1>1, <1>2, <1>3, <1>4, <1>5 DEF FetchNext

(***************************************************************************)
(* Publication and aggregation.                                            *)
(***************************************************************************)

\* A step of the fetching starts without a result, and blocks none.
LEMMA FetchUnblocked ==
  ASSUME FetchInv, FetchNext
  PROVE  out = None /\ (out' # None => ~out'.blocked)
<1> USE NoneParts DEF FetchInv, FetchTypeOK
<1>1. \A s, c : RowWithout(s, c).blocked = FALSE
  BY DEF RowWithout
<1>2. \A r, l, t : [r EXCEPT !.license = l, !.thirdParty = t].blocked = r.blocked
                   \/ r \notin WorkerRow
  BY DEF WorkerRow
<1>3. pc # "done"
  BY DEF FetchNext, PassThrough, StartFetch, Repeat, Asking, MediaLeft, FallBack,
     FallsBack, XmlFails, FigureFails, ResolveElsewhere, ResolveSame, GetXml,
     ParseFails, Refuse, Admit, GetFigure, Package, RowFails
<1>4. out = None
  BY <1>3
<1>5. ASSUME NEW e \in Error, Repeat(e) \/ FallBack(e) \/ XmlFails(e) \/ FigureFails(e)
      PROVE  out' # None => ~out'.blocked
  BY <1>1, <1>4, <1>5 DEF Repeat, FallBack, XmlFails, FigureFails, Return
<1>6. CASE \/ PassThrough \/ StartFetch \/ ResolveElsewhere \/ ResolveSame \/ GetXml
           \/ ParseFails \/ RowFails
  BY <1>1, <1>4, <1>6 DEF PassThrough, StartFetch, ResolveElsewhere, ResolveSame,
     GetXml, ParseFails, RowFails, Return
<1>7. CASE Package
  BY <1>7 DEF Package, Return
<1>8. ASSUME NEW a \in Articles, Refuse(a) \/ Admit(a)
      PROVE  out' # None => ~out'.blocked
  <2>1. RefusedRow(a, Refusal(a)).blocked = FALSE
    BY DEF RefusedRow, RowWithout
  <2> QED
    BY <1>4, <1>8, <2>1 DEF Refuse, Admit, Return
<1>9. ASSUME NEW payload \in Payload, NEW renders \in BOOLEAN,
             GetFigure(payload, renders)
      PROVE  out' # None => ~out'.blocked
  BY <1>4, <1>9 DEF GetFigure
<1> QED
  BY <1>4, <1>5, <1>6, <1>7, <1>8, <1>9 DEF FetchNext

\* The aggregation finds the hashes it expects.
LEMMA NormalizedType ==
  ASSUME FetchInv, out # None
  PROVE  /\ HashesConsistent(out)
         /\ SourceStatus(out) \in ManifestRecord
         /\ Normalized(out) \in ManifestRecord
<1>1. HashesConsistent(out)
  BY DEF FetchInv, OutOK, PackagedRow, HashesConsistent
<1>2. SourceStatus(out) \in ManifestRecord
  BY DEF SourceStatus, ManifestRecord, ManifestStatus
<1> QED
  BY <1>1, <1>2 DEF Normalized, ManifestRecord, ManifestStatus

LEMMA BlockedRow ==
  ASSUME NEW row \in WorkerRow
  PROVE  /\ [row EXCEPT !.blocked = TRUE, !.files = {}] \in WorkerRow
         /\ PackagedRow(row) =>
              PackagedRow([row EXCEPT !.blocked = TRUE, !.files = {}])
<1> DEFINE b == [row EXCEPT !.blocked = TRUE, !.files = {}]
<1>1. /\ b.blocked /\ b.files = {} /\ b.status = row.status /\ b.code = row.code
      /\ b.license = row.license /\ b.thirdParty = row.thirdParty
      /\ b.figures = row.figures /\ b.links = row.links /\ b.members = row.members
      /\ b.hashes = row.hashes
  BY DEF WorkerRow
<1>2. b \in WorkerRow
  BY DEF WorkerRow
<1>3. PackagedRow(row) => PackagedRow(b)
  <2> HIDE DEF b
  <2>1. MemberSet(b.members) = MemberSet(row.members)
         /\ MemberSet(b.links) = MemberSet(row.links)
    BY <1>1
  <2> QED
    BY <1>1, <2>1 DEF PackagedRow
<1> QED
  BY <1>2, <1>3

LEMMA NextInv == IInv /\ [Next]_vars => IInv'
<1> SUFFICES ASSUME IInv, [Next]_vars PROVE IInv'
  OBVIOUS
<1> USE DEF IInv, TypeOK
<1>1. CASE Fetching
  <2>1. FetchInv'
    BY <1>1, FetchStep DEF Fetching
  <2>2. out = None /\ (out' # None => ~out'.blocked)
    BY <1>1, FetchUnblocked DEF Fetching
  <2>3. ~published /\ manifest = None /\ published' = published /\ manifest' = manifest
    BY <1>1, <2>2 DEF Fetching
  <2> QED
    BY <2>1, <2>2, <2>3 DEF FetchInv
<1>2. CASE PublishBlocked
  <2>1. /\ UNCHANGED <<opts, pc, attempt, directError, article, figures, figureFiles,
                      requests, manifest>>
        /\ out' = [out EXCEPT !.blocked = TRUE, !.files = {}]
        /\ published' /\ out # None /\ out \in WorkerRow /\ manifest = None
    BY <1>2 DEF PublishBlocked, figureVars, FetchInv, FetchTypeOK
  <2>2. out' \in WorkerRow /\ out' # None /\ out'.status = out.status
        /\ out'.code = out.code /\ out'.files = {} /\ out'.hashes = out.hashes
    BY <2>1, BlockedRow, NoneParts DEF WorkerRow
  <2>3. FetchTypeOK'
    BY <2>1, <2>2 DEF FetchInv, FetchTypeOK
  <2>4. RequestsOK' /\ FiguresOK' /\ ArticleOK'
    <3>1. Addresses' = Addresses /\ AddressesAsked' = AddressesAsked
      BY <2>1 DEF Addresses, AddressesAsked
    <3>2. RequestsOK'
      BY <2>1, <3>1 DEF FetchInv, RequestsOK
    <3>3. FiguresOK'
      BY <2>1 DEF FetchInv, FiguresOK
    <3>4. ArticleOK'
      BY <2>1 DEF FetchInv, ArticleOK, Acceptable, ThirdPartyBars
    <3> QED
      BY <3>2, <3>3, <3>4
  <2>5. OutOK'
    <3>1. RequestsBounded'
      BY <2>1 DEF FetchInv, OutOK, RequestsBounded, Addresses, Media
    <3>2. out.status \in PackagedStatus => PackagedRow(out)
      BY <2>1 DEF FetchInv, OutOK
    <3>3. out.status \in PackagedStatus =>
            PackagedRow([out EXCEPT !.blocked = TRUE, !.files = {}])
      <4>1. out \in WorkerRow
        BY <2>1
      <4>2. PackagedRow(out) => PackagedRow([out EXCEPT !.blocked = TRUE, !.files = {}])
        BY <4>1, BlockedRow
      <4> QED
        BY <3>2, <4>2
    <3>4. (out.status \in PackagedStatus => PackagedRow(out))'
      BY <2>1, <2>2, <3>3 DEF PackagedRow, Acceptable, ThirdPartyBars
    <3>5. (out.status \notin PackagedStatus => out.files = {} /\ out.hashes = {})'
      BY <2>1, <2>2 DEF FetchInv, OutOK
    <3>6. (out.status = "xml_http" => out.code \in HttpCodes)'
      BY <2>1, <2>2 DEF FetchInv, OutOK
    <3> QED
      BY <3>1, <3>4, <3>5, <3>6 DEF OutOK
  <2> QED
    BY <2>1, <2>2, <2>3, <2>4, <2>5 DEF FetchInv
<1>3. CASE Publish \/ Aggregate \/ UNCHANGED vars
  <2>1. UNCHANGED fetchVars
    BY <1>3 DEF Publish, Aggregate, vars
  <2>2. UNCHANGED <<opts, pc, attempt, directError, article, figures, figureFiles,
                    out, requests>>
    BY <2>1 DEF fetchVars, figureVars
  <2>3. FetchTypeOK'
    BY <2>2 DEF FetchInv, FetchTypeOK
  <2>4. RequestsOK' /\ FiguresOK' /\ ArticleOK' /\ OutOK'
    <3>1. Addresses' = Addresses /\ AddressesAsked' = AddressesAsked /\ Media' = Media
      BY <2>2 DEF Addresses, AddressesAsked, Media
    <3>2. RequestsOK' /\ FiguresOK'
      BY <2>2, <3>1 DEF FetchInv, RequestsOK, FiguresOK
    <3>3. ArticleOK'
      BY <2>2 DEF FetchInv, ArticleOK, Acceptable, ThirdPartyBars
    <3>4. RequestsBounded' = RequestsBounded
      BY <2>2, <3>1 DEF RequestsBounded
    <3>5. PackagedRow(out)' = PackagedRow(out)
      BY <2>2 DEF PackagedRow, Acceptable, ThirdPartyBars
    <3>6. OutOK'
      BY <2>2, <3>4, <3>5 DEF FetchInv, OutOK
    <3> QED
      BY <3>2, <3>3, <3>6
  <2>5. CASE Publish
    <3>1. out # None /\ ~published /\ manifest = None /\ published' /\ manifest' = None
      BY <2>5 DEF Publish
    <3> QED
      BY <2>2, <2>3, <2>4, <3>1 DEF FetchInv
  <2>6. CASE Aggregate
    <3>1. published /\ published' /\ manifest' = Normalized(out) /\ out # None
      BY <2>6 DEF Aggregate
    <3>2. Normalized(out) \in ManifestRecord
      BY <3>1, NormalizedType
    <3>3. Normalized(out)' = Normalized(out)
      BY <2>2
    <3> QED
      BY <2>2, <2>3, <2>4, <3>1, <3>2, <3>3 DEF FetchInv
  <2>7. CASE UNCHANGED vars
    <3>1. published' = published /\ manifest' = manifest
      BY <2>7 DEF vars
    <3>2. Normalized(out)' = Normalized(out)
      BY <2>2
    <3> QED
      BY <2>2, <2>3, <2>4, <3>1, <3>2 DEF FetchInv
  <2> QED
    BY <1>3, <2>5, <2>6, <2>7
<1> QED
  BY <1>1, <1>2, <1>3 DEF Next

THEOREM InvCorrect == Spec => []IInv
<1>1. Init => IInv
  BY InitInv
<1>2. IInv /\ [Next]_vars => IInv'
  BY NextInv
<1> QED
  BY <1>1, <1>2, PTL DEF Spec

\* Every variable has its type in every reachable state.
THEOREM TypeCorrect == Spec => []TypeOK
<1>1. IInv => TypeOK
  BY DEF IInv
<1> QED
  BY <1>1, InvCorrect, PTL

\* fetch_xml, fetch_figure and fetch_bytes: one attempt at a row stays within the
\* requests of its addresses and media, whatever the servers answer.
THEOREM RequestBudget == Spec => []RequestsBounded
<1>1. FetchInv => RequestsBounded
  <2> SUFFICES ASSUME FetchInv PROVE RequestsBounded
    OBVIOUS
  <2>1. CASE out # None
    BY <2>1 DEF FetchInv, OutOK
  <2>2. CASE pc \in {"start", "parse", "figures"}
    BY <2>2, BoundedLater
  <2>3. CASE pc \in {"direct", "resolve", "final"}
    <3>1. /\ AddressesAsked \in Nat /\ Addresses \in Nat
          /\ Retries \in Nat /\ FigureRetries \in Nat /\ requests \in Nat
          /\ attempt \in Nat
      BY AddressesType DEF FetchInv, FetchTypeOK
    <3>2. /\ attempt <= Retries
          /\ requests <= AddressesAsked * (Retries + 1) + attempt
      BY <2>3 DEF FetchInv, RequestsOK
    <3>3. AddressesAsked + 1 <= Addresses
      BY <2>3, NoneParts
      DEF FetchInv, FetchTypeOK, RequestsOK, AddressesAsked, Addresses
    <3>4. (AddressesAsked + 1) * (Retries + 1) <= Addresses * (Retries + 1)
      BY <3>1, <3>3, MoreAddresses
    <3>5. Media \in Nat
      BY MaxMediaAssumption, NoneParts DEF Media, Article, FetchInv, FetchTypeOK
    <3>6. /\ (AddressesAsked + 1) * (Retries + 1)
               = AddressesAsked * (Retries + 1) + (Retries + 1)
          /\ AddressesAsked * (Retries + 1) \in Nat
          /\ Addresses * (Retries + 1) \in Nat
          /\ Media * (FigureRetries + 1) \in Nat
      BY <3>1, <3>5, OneMore
    <3> QED
      BY <3>1, <3>2, <3>4, <3>6 DEF RequestsBounded
  <2> QED
    BY <2>1, <2>2, <2>3 DEF FetchInv, FetchTypeOK, Phase, Requesting
<1>2. IInv => RequestsBounded
  BY <1>1 DEF IInv
<1> QED
  BY <1>2, InvCorrect, PTL

\* process_row: the members, the hashes, the links and the status of a package
\* agree with each other and with the article.
THEOREM PackagesCorrect == Spec => []PackageSound
<1>1. IInv => PackageSound
  <2> SUFFICES ASSUME IInv, out # None, out.files # {} PROVE PackageSound
    BY DEF PackageSound
  <2>1. PackagedRow(out)
    BY DEF IInv, FetchInv, OutOK
  <2> QED
    BY <2>1 DEF PackagedRow, PackageSound
<1> QED
  BY <1>1, InvCorrect, PTL

\* normalize_record: what it admits is packaged, has a license that stands
\* alone, and is accepted by the converter when it is complete.
THEOREM AdmittedCorrect == Spec => []AdmittedSound
<1>1. IInv => AdmittedSound
  <2> SUFFICES ASSUME IInv, Convertible PROVE AdmittedSound
    BY DEF AdmittedSound
  <2>1. manifest = Normalized(out) /\ out # None /\ out \in WorkerRow
    BY DEF IInv, TypeOK, FetchTypeOK, Convertible
  <2>2. /\ SourceStatus(out).status \in {"complete", "partial"}
        /\ Allowed(out.license) /\ ~Conflict(out.license)
        /\ manifest = SourceStatus(out)
    BY <2>1 DEF Convertible, Normalized, Refused
  <2>3. /\ ~out.blocked /\ out.status \in PackagedStatus
        /\ manifest.status = "complete" => out.status \in {"ok", "no_figures"}
    BY <2>2 DEF SourceStatus, PackagedStatus
  <2>4. PackagedRow(out)
    BY <2>1, <2>3 DEF IInv, FetchInv, OutOK
  <2>5. /\ out.files # {} /\ out.files = MemberSet(out.members)
        /\ article.body /\ (article.thirdParty => opts.allowThirdParty)
        /\ LicensePolicy(out.license) = "keep"
        /\ {XmlMember, SourceMember} \subseteq MemberSet(out.members)
        /\ manifest.status = "complete" => Url \notin MemberSet(out.links)
    BY <2>3, <2>4 DEF PackagedRow, Acceptable, ThirdPartyBars
  <2>6. Evidence(out.license) \cap {"by4", "by3", "restricted"} \in {{"by4"}, {"by3"}}
    BY <2>2 DEF Allowed, Conflict, Restrictive
  <2> QED
    BY <2>3, <2>5, <2>6 DEF AdmittedSound, ConverterAccepts
<1> QED
  BY <1>1, InvCorrect, PTL

\* _status and retryable_row_status: what the manifest calls retryable the
\* worker would try again, and so an error its requests are repeated for.
THEOREM RetryFlagsCorrect == Spec => []RetryFlagsAgree
<1>1. IInv => RetryFlagsAgree
  <2> SUFFICES ASSUME IInv PROVE RetryFlagsAgree
    OBVIOUS
  <2>1. ASSUME manifest # None
        PROVE  manifest # Refused /\ (manifest.retryable => RetryableRow(out))
    <3>1. /\ manifest = Normalized(out) /\ HashesConsistent(out)
          /\ manifest \in ManifestRecord
      BY <2>1, NormalizedType DEF IInv, TypeOK
    <3>2. manifest # Refused
      BY <3>1 DEF ManifestRecord, ManifestStatus, Refused
    <3>3. manifest.retryable => SourceStatus(out).retryable
      BY <3>1 DEF Normalized
    <3>4. SourceStatus(out).retryable => RetryableRow(out)
      BY DEF SourceStatus, RetryableRow
    <3> QED
      BY <3>2, <3>3, <3>4
  <2>2. ASSUME out # None, ~out.blocked, out.status \in {"xml_http", "xml_fetch_error"},
               Repeated([kind |-> IF out.code = 0 THEN "network" ELSE "http",
                         code |-> out.code]),
               out.code \notin {409, 425}
        PROVE  RetryableRow(out)
    <3>1. CASE out.status = "xml_fetch_error"
      BY <2>2, <3>1 DEF RetryableRow
    <3>2. CASE out.status = "xml_http"
      <4>1. out.code \in 300 .. 599
        BY <2>2, <3>2, HttpCodesAssumption DEF IInv, FetchInv, OutOK
      <4>2. out.code \in TransientHttp \cup {403}
        BY <2>2, <4>1 DEF Repeated
      <4> QED
        BY <2>2, <3>2, <4>1, <4>2 DEF RetryableRow, TransientHttp, RetryableHttpCodes
    <3> QED
      BY <2>2, <3>1, <3>2
  <2> QED
    BY <2>1, <2>2 DEF RetryFlagsAgree
<1> QED
  BY <1>1, InvCorrect, PTL
===============================================================================

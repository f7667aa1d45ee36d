-------------------------- MODULE HarvestIdentifiers --------------------------
(***************************************************************************)
(* scripts/harvest_identifiers.py: the identifiers of a window are fetched *)
(* page by page by offset.  Each page is kept as a file of its own, and a  *)
(* state file says where to go on.  The two are written one after the      *)
(* other, and the process may be killed in between.                        *)
(*                                                                         *)
(* An identifier is its position in the server's list, which is the same   *)
(* throughout.  The server may give fewer identifiers than asked for, and  *)
(* may leave out the total of its list.                                    *)
(***************************************************************************)
EXTENDS Integers

CONSTANTS
  Total,       \* number of identifiers in the window
  Limit,       \* --limit
  PageLimits,  \* the values of --max-pages
  MaxKills,    \* bound: how often the process is killed
  None         \* no such file

ASSUME TotalAssumption == Total \in Nat
ASSUME LimitAssumption == Limit \in Nat \ {0}
ASSUME PageLimitsAssumption == PageLimits \subseteq Nat
ASSUME MaxKillsAssumption == MaxKills \in Nat

\* A page file: it has the identifiers from .. to - 1.
Page == [from : 0 .. Total, to : 0 .. Total]

\* The state file.
State == [complete : BOOLEAN, nextOffset : Nat, nextPage : Nat]

ASSUME NoneAssumption == None \notin Page /\ None \notin State

\* Every page but the last has an identifier, so there are at most Total + 1.
PageNumber == 0 .. Total

VARIABLES
  (* Files. *)
  pages,     \* page_NNNNNN.json.gz of each page number, or None
  state,     \* harvest_identifiers_<window>.json, or None
  (* The memory of the process. *)
  pc,
  offset,
  page,
  left,      \* how many pages this run may still fetch
  answer,    \* the number of identifiers and the total of the server's answer
  (* What is observed. *)
  refused,   \* has a run refused to overwrite a page?
  kills

files == <<pages, state>>
procVars == <<pc, offset, page, left, answer>>
vars == <<files, procVars, refused, kills>>

Answer == [size : 0 .. Total, total : 0 .. Total]
NoAnswer == [size |-> 0, total |-> 0]

TypeOK ==
  /\ pages \in [PageNumber -> Page \cup {None}]
  /\ state \in State \cup {None}
  /\ state # None => state.nextOffset <= Total /\ state.nextPage <= Total + 1
  /\ pc \in {"down", "request", "writePage", "writeState"}
  /\ offset \in 0 .. Total
  /\ page \in 0 .. Total + 1
  /\ left \in Nat
  /\ answer \in Answer
  /\ refused \in BOOLEAN
  /\ kills \in Nat

Init ==
  /\ pages = [p \in PageNumber |-> None]
  /\ state = None
  /\ pc = "down"
  /\ offset = 0 /\ page = 0 /\ left = 0
  /\ answer = NoAnswer
  /\ refused = FALSE
  /\ kills = 0

ProcessEnds ==
  /\ pc' = "down"
  /\ offset' = 0 /\ page' = 0 /\ left' = 0
  /\ answer' = NoAnswer

Complete == state # None /\ state.complete

\* A complete harvest is left alone; another one goes on where the state says.
Start(maxPages) ==
  /\ pc = "down"
  /\ ~Complete
  /\ left' = maxPages
  /\ offset' = IF state = None THEN 0 ELSE state.nextOffset
  /\ page' = IF state = None THEN 0 ELSE state.nextPage
  /\ pc' = "request"
  /\ UNCHANGED <<files, answer, refused, kills>>

\* The run has fetched --max-pages pages.
ReachMaxPages ==
  /\ pc = "request" /\ left = 0
  /\ ProcessEnds
  /\ UNCHANGED <<files, refused, kills>>

\* The server answers with some of the identifiers from the offset on.
Fetch(size, total) ==
  /\ pc = "request" /\ left > 0
  /\ size <= Limit /\ size <= Total - offset
  /\ size = 0 => offset = Total
  /\ total \in {0, Total}
  /\ answer' = [size |-> size, total |-> total]
  /\ pc' = "writePage"
  /\ UNCHANGED <<files, offset, page, left, refused, kills>>

\* Plausible mistake: the page is written whether or not it is there.
WritePageAnyway ==
  /\ pc = "writePage"
  /\ pages' = [pages EXCEPT ![page] = [from |-> offset, to |-> offset + answer.size]]
  /\ pc' = "writeState"
  /\ UNCHANGED <<state, offset, page, left, answer, refused, kills>>

WritePage ==
  /\ pc = "writePage"
  /\ page \in PageNumber /\ pages[page] = None
  /\ pages' = [pages EXCEPT ![page] = [from |-> offset, to |-> offset + answer.size]]
  /\ pc' = "writeState"
  /\ UNCHANGED <<state, offset, page, left, answer, refused, kills>>

\* "exists; refusing overwrite"
RefuseOverwrite ==
  /\ pc = "writePage"
  /\ page \in PageNumber /\ pages[page] # None
  /\ refused' = TRUE
  /\ ProcessEnds
  /\ UNCHANGED <<files, kills>>

\* Plausible mistake: the offset is advanced by what was asked for.
NextOffsetByLimit == offset + Limit

NextOffset == offset + answer.size

\* Plausible mistake: a short page is taken for the last one.
LastPageIfShort == answer.size < Limit

\* Plausible mistake: only the total says that there is nothing more.
LastPageByTotal == answer.total # 0 /\ NextOffset >= answer.total

\* An empty page is the last one, and the one that reaches the total.
LastPage == answer.size = 0 \/ (answer.total # 0 /\ NextOffset >= answer.total)

WriteState ==
  /\ pc = "writeState"
  /\ state' = [complete |-> LastPage, nextOffset |-> NextOffset,
               nextPage |-> page + 1]
  /\ IF LastPage THEN ProcessEnds
     ELSE /\ offset' = NextOffset /\ page' = page + 1 /\ left' = left - 1
          /\ pc' = "request"
          /\ UNCHANGED answer
  /\ UNCHANGED <<pages, refused, kills>>

(***************************************************************************)
(* The process is killed, or a request fails more often than it is retried *)
(* and the exception ends it.                                              *)
(***************************************************************************)
Crash ==
  /\ pc # "down" /\ kills < MaxKills
  /\ kills' = kills + 1
  /\ ProcessEnds
  /\ UNCHANGED <<files, refused>>

Step ==
  \/ ReachMaxPages
  \/ \E size \in 0 .. Total, total \in 0 .. Total : Fetch(size, total)
  \/ WritePage \/ RefuseOverwrite \/ WriteState

Next ==
  \/ \E maxPages \in PageLimits : Start(maxPages)
  \/ Step
  \/ Crash

Spec == Init /\ [][Next]_vars

\* The time limits of the requests end every fetch; the harvest is rerun.
FairSpec ==
  /\ Spec
  /\ WF_vars(\E maxPages \in PageLimits : Start(maxPages))
  /\ WF_vars(Step)

(***************************************************************************)
(* Properties.                                                             *)
(***************************************************************************)

\* Where the state file says the next page begins, and its number.
Reached == IF state = None THEN 0 ELSE state.nextOffset
Coming == IF state = None THEN 0 ELSE state.nextPage

(***************************************************************************)
(* The pages up to the one the state file names follow on each other       *)
(* without gap or overlap up to the offset it names, whatever the sizes of *)
(* the answers and wherever runs were killed; and beyond it there is at    *)
(* most the page that a killed run had written before its state.           *)
(***************************************************************************)
PagesContiguous ==
  /\ \A p \in PageNumber :
       /\ p < Coming =>
            /\ pages[p] # None
            /\ pages[p].from = IF p = 0 THEN 0 ELSE pages[p - 1].to
            /\ p = Coming - 1 => pages[p].to = Reached
       /\ p = Coming /\ pages[p] # None => pages[p].from = Reached
       /\ p > Coming => pages[p] = None
  /\ Coming = 0 => Reached = 0

(***************************************************************************)
(* A complete state, for which the ArticleMeta fetch waits, means that all *)
(* identifiers of the window are in pages.                                 *)
(***************************************************************************)
CompleteMeansAll ==
  Complete =>
    \A i \in 0 .. Total - 1 : \E p \in PageNumber :
      pages[p] # None /\ pages[p].from <= i /\ i < pages[p].to

(***************************************************************************)
(* Retained source pages: a page that has been written stays as it is.     *)
(***************************************************************************)
PagesRetained ==
  [][\A p \in PageNumber : pages[p] # None => pages'[p] = pages[p]]_vars

(***************************************************************************)
(* The harvest gets complete, unless a kill has left a page ahead of the   *)
(* state file.                                                             *)
(***************************************************************************)
EventuallyComplete ==
  <>[](Complete \/ (Coming \in PageNumber /\ pages[Coming] # None))

(***************************************************************************)
(* README.md: completion markers and retained source pages make the        *)
(* collection resumable.  So no run finds the page it is to write next.    *)
(***************************************************************************)
Resumable == ~refused

(***************************************************************************)
(* The inductive invariant of the proofs: the pages are contiguous and     *)
(* have every identifier below the offset reached; each page but the last  *)
(* has an identifier, so the page numbers do not run ahead of the offset;  *)
(* and the process goes on where the state file says.                      *)
(***************************************************************************)
Covered ==
  \A i \in 0 .. Reached - 1 : \E p \in PageNumber :
    pages[p] # None /\ pages[p].from <= i /\ i < pages[p].to

ProcessAgrees ==
  pc # "down" =>
    /\ ~Complete
    /\ offset = Reached /\ page = Coming
    /\ pc # "request" => /\ left > 0
                         /\ answer.size <= Total - offset
                         /\ answer.size = 0 => offset = Total
                         /\ answer.total \in {0, Total}
    /\ pc = "writeState" =>
         pages[page] = [from |-> offset, to |-> offset + answer.size]

IInv ==
  /\ TypeOK
  /\ PagesContiguous
  /\ Covered
  /\ Coming <= IF Complete THEN Reached + 1 ELSE Reached
  /\ Complete => Reached = Total
  /\ ProcessAgrees
===============================================================================

----------------------- MODULE HarvestIdentifiersProofs -----------------------
(***************************************************************************)
(* Proofs about HarvestIdentifiers, for any number of identifiers, any     *)
(* --limit and --max-pages, any sizes of the answers, and any number of    *)
(* kills.                                                                  *)
(***************************************************************************)
EXTENDS HarvestIdentifiers, TLAPS

\* A new window: no page, no state.
LEMMA InitInv == Init => IInv
<1> SUFFICES ASSUME Init PROVE IInv
  OBVIOUS
<1>1. TypeOK
  <2>1. NoAnswer \in Answer
    BY TotalAssumption DEF Answer, NoAnswer
  <2>2. 0 \in 0 .. Total /\ 0 \in 0 .. Total + 1
    BY TotalAssumption
  <2>3. pages \in [PageNumber -> Page \cup {None}]
    BY DEF Init
  <2> QED
    BY <2>1, <2>2, <2>3 DEF Init, TypeOK
<1>2. Reached = 0 /\ Coming = 0 /\ ~Complete
  BY DEF Init, Reached, Coming, Complete
<1>3. \A p \in PageNumber : pages[p] = None /\ ~(p < 0)
  BY TotalAssumption DEF Init, PageNumber
<1>4. PagesContiguous
  BY <1>2, <1>3 DEF PagesContiguous
<1>5. Covered
  BY <1>2 DEF Covered
<1>6. ProcessAgrees
  BY DEF Init, ProcessAgrees
<1> QED
  BY <1>1, <1>2, <1>4, <1>5, <1>6 DEF IInv

(***************************************************************************)
(* Steps that leave the files alone change only what the process knows.    *)
(***************************************************************************)
LEMMA FilesKept ==
  ASSUME IInv, UNCHANGED files
  PROVE  /\ PagesContiguous' /\ Covered'
         /\ (Coming <= IF Complete THEN Reached + 1 ELSE Reached)'
         /\ (Complete => Reached = Total)'
         /\ Reached' = Reached /\ Coming' = Coming /\ Complete' = Complete
BY DEF IInv, files, PagesContiguous, Covered, Reached, Coming, Complete

\* A process that ends leaves the files as they are (ReachMaxPages, Crash, ...).
LEMMA EndInv ==
  ASSUME IInv, UNCHANGED files, ProcessEnds, refused' \in BOOLEAN,
         kills' \in Nat
  PROVE  IInv'
<1>1. TypeOK'
  BY TotalAssumption
  DEF IInv, TypeOK, files, ProcessEnds, Answer, NoAnswer
<1>2. ProcessAgrees'
  BY DEF ProcessEnds, ProcessAgrees
<1> QED
  BY <1>1, <1>2, FilesKept DEF IInv

\* A run goes on where the state file says (lines 58-69 of the script).
LEMMA StartInv ==
  ASSUME IInv, NEW maxPages \in PageLimits, Start(maxPages)
  PROVE  IInv'
<1> USE TotalAssumption, PageLimitsAssumption
<1>1. UNCHANGED files
  BY DEF Start
<1>2. TypeOK'
  BY DEF IInv, TypeOK, Start, files, State
<1>3. ProcessAgrees'
  BY <1>1, FilesKept DEF Start, ProcessAgrees, Reached, Coming
<1> QED
  BY <1>1, <1>2, <1>3, FilesKept DEF IInv

\* An answer of the server is not more than what is left of the list.
LEMMA FetchInv ==
  ASSUME IInv, NEW size \in 0 .. Total, NEW total \in 0 .. Total,
         Fetch(size, total)
  PROVE  IInv'
<1>1. UNCHANGED files
  BY DEF Fetch, files
<1>2. TypeOK'
  BY DEF IInv, TypeOK, Fetch, files, Answer
<1>3. ProcessAgrees'
  BY <1>1, FilesKept DEF IInv, Fetch, ProcessAgrees
<1> QED
  BY <1>1, <1>2, <1>3, FilesKept DEF IInv

\* Below the coming page nothing is written: the new page is the coming one.
LEMMA WritePageInv ==
  ASSUME IInv, WritePage
  PROVE  IInv'
<1> USE TotalAssumption, NoneAssumption
<1> DEFINE new == [from |-> offset, to |-> offset + answer.size]
<1>1. /\ page \in PageNumber /\ pages[page] = None
      /\ pages' = [pages EXCEPT ![page] = new]
      /\ UNCHANGED <<state, offset, page, left, answer, refused, kills>>
      /\ pc = "writePage" /\ pc' = "writeState"
  BY DEF WritePage
<1>2. /\ offset = Reached /\ page = Coming /\ ~Complete
      /\ left > 0 /\ answer.size <= Total - offset
      /\ answer.size = 0 => offset = Total
      /\ answer.total \in {0, Total}
  BY <1>1 DEF IInv, ProcessAgrees
<1>3. new \in Page /\ new # None
  BY <1>2 DEF IInv, TypeOK, Answer, Page
<1>4. TypeOK'
  BY <1>1, <1>3 DEF IInv, TypeOK
<1>5. Reached' = Reached /\ Coming' = Coming /\ Complete' = Complete
  BY <1>1 DEF Reached, Coming, Complete
<1>6. /\ pages'[page] = new
      /\ \A p \in PageNumber : p # page => pages'[p] = pages[p]
  BY <1>1 DEF IInv, TypeOK
<1>7. PagesContiguous'
  <2>1. Coming \in Int
    BY <1>2 DEF IInv, TypeOK
  <2>2. \A p \in PageNumber : p < Coming => p - 1 # page /\ p # page
    BY <1>2, <2>1 DEF PageNumber
  <2>3. \A p \in PageNumber : p < Coming /\ p # 0 => p - 1 \in PageNumber
    BY DEF PageNumber
  <2> QED
    BY <1>2, <1>5, <1>6, <2>1, <2>2, <2>3 DEF IInv, PagesContiguous
<1>8. Covered'
  BY <1>1, <1>5, <1>6 DEF IInv, Covered
<1>9. ProcessAgrees'
  BY <1>1, <1>2, <1>5, <1>6 DEF ProcessAgrees
<1> QED
  BY <1>4, <1>5, <1>7, <1>8, <1>9 DEF IInv

\* The state file moves past the page that has been written before it.
LEMMA WriteStateInv ==
  ASSUME IInv, WriteState
  PROVE  IInv'
<1> USE TotalAssumption, NoneAssumption
<1>1. /\ pc = "writeState"
      /\ state' = [complete |-> LastPage, nextOffset |-> NextOffset,
                   nextPage |-> page + 1]
      /\ UNCHANGED <<pages, refused, kills>>
  BY DEF WriteState
<1>2. /\ offset = Reached /\ page = Coming /\ ~Complete
      /\ answer.size <= Total - offset
      /\ answer.size = 0 => offset = Total
      /\ answer.total \in {0, Total}
      /\ pages[page] = [from |-> offset, to |-> offset + answer.size]
  BY <1>1 DEF IInv, ProcessAgrees
<1>3. /\ offset \in 0 .. Total /\ answer.size \in 0 .. Total
      /\ page \in Nat /\ page <= offset /\ page \in PageNumber
  BY <1>2 DEF IInv, TypeOK, Answer, PageNumber
<1>4. NextOffset \in 0 .. Total /\ LastPage \in BOOLEAN
  BY <1>2, <1>3 DEF NextOffset, LastPage
<1>5. state' \in State /\ state' # None
  BY <1>1, <1>3, <1>4 DEF State
<1>6. /\ Reached' = NextOffset /\ Coming' = page + 1
      /\ Complete' <=> LastPage
  <2>1. /\ state'.complete = LastPage /\ state'.nextOffset = NextOffset
        /\ state'.nextPage = page + 1
    BY <1>1
  <2> QED
    BY <1>5, <2>1 DEF Reached, Coming, Complete
<1>7. LastPage => NextOffset = Total
  BY <1>2, <1>3 DEF LastPage, NextOffset
<1>8. ~LastPage => page + 1 <= NextOffset
  BY <1>2, <1>3 DEF LastPage, NextOffset
<1>9. TypeOK'
  <2>1. CASE LastPage
    BY <1>1, <1>3, <1>4, <1>5, <2>1
    DEF WriteState, IInv, TypeOK, ProcessEnds, Answer, NoAnswer
  <2>2. CASE ~LastPage
    <3>1. /\ offset' = NextOffset /\ page' = page + 1 /\ left' = left - 1
          /\ pc' = "request" /\ answer' = answer
      BY <2>2 DEF WriteState
    <3>2. left \in Nat /\ left > 0
      BY <1>1 DEF IInv, TypeOK, ProcessAgrees
    <3> QED
      BY <1>1, <1>3, <1>4, <1>5, <3>1, <3>2 DEF IInv, TypeOK
  <2> QED
    BY <2>1, <2>2
<1>10. PagesContiguous'
  <2>1. \A p \in PageNumber : p < page + 1 <=> p < page \/ p = page
    BY <1>3 DEF PageNumber
  <2>2. \A p \in PageNumber :
          /\ p = page + 1 => pages[p] = None
          /\ p > page + 1 => pages[p] = None
    BY <1>2, <1>3 DEF IInv, PagesContiguous, PageNumber
  <2>3. pages[page].from = IF page = 0 THEN 0 ELSE pages[page - 1].to
    <3>1. page # 0 => page - 1 \in PageNumber /\ page - 1 < Coming
      BY <1>2, <1>3 DEF PageNumber
    <3> QED
      BY <1>2, <1>3, <3>1 DEF IInv, PagesContiguous
  <2>4. Coming' # 0 /\ Coming' \in Int
    BY <1>3, <1>6
  <2>5. ASSUME NEW p \in PageNumber, p < Coming'
        PROVE  /\ pages[p] # None
               /\ pages[p].from = IF p = 0 THEN 0 ELSE pages[p - 1].to
               /\ p = Coming' - 1 => pages[p].to = Reached'
    <3>1. CASE p = page
      <4>1. pages[page] \in Page
        BY <1>2, <1>3 DEF Page
      <4> QED
        BY <1>2, <1>3, <1>6, <2>3, <3>1, <4>1 DEF NextOffset
    <3>2. CASE p < page
      BY <1>2, <1>3, <1>6, <3>2 DEF IInv, PagesContiguous, PageNumber
    <3> QED
      BY <1>6, <2>1, <2>5, <3>1, <3>2
  <2>6. ASSUME NEW p \in PageNumber
        PROVE  /\ p = Coming' => pages[p] = None
               /\ p > Coming' => pages[p] = None
    BY <1>6, <2>2
  <2> QED
    BY <1>1, <2>4, <2>5, <2>6 DEF PagesContiguous
<1>11. Covered'
  <2> SUFFICES ASSUME NEW i \in 0 .. NextOffset - 1
               PROVE  \E p \in PageNumber :
                        pages[p] # None /\ pages[p].from <= i /\ i < pages[p].to
    BY <1>1, <1>6 DEF Covered
  <2>1. CASE i < offset
    BY <1>2, <1>3, <2>1 DEF IInv, Covered
  <2>2. CASE ~(i < offset)
    BY <1>2, <1>3, <2>2 DEF NextOffset, IInv, TypeOK, Page
  <2> QED
    BY <2>1, <2>2
<1>12. ProcessAgrees'
  BY <1>6 DEF WriteState, ProcessEnds, ProcessAgrees
<1> QED
  BY <1>3, <1>4, <1>6, <1>7, <1>8, <1>9, <1>10, <1>11, <1>12 DEF IInv

\* Every step of the harvest keeps the invariant.
LEMMA NextInv == IInv /\ [Next]_vars => IInv'
<1> SUFFICES ASSUME IInv, [Next]_vars
             PROVE  IInv'
  OBVIOUS
<1>1. ASSUME NEW maxPages \in PageLimits, Start(maxPages) PROVE IInv'
  BY <1>1, StartInv
<1>2. CASE ReachMaxPages
  BY <1>2, EndInv DEF ReachMaxPages, IInv, TypeOK
<1>3. ASSUME NEW size \in 0 .. Total, NEW total \in 0 .. Total,
             Fetch(size, total)
      PROVE  IInv'
  BY <1>3, FetchInv
<1>4. CASE WritePage
  BY <1>4, WritePageInv
<1>5. CASE RefuseOverwrite
  BY <1>5, EndInv DEF RefuseOverwrite, IInv, TypeOK
<1>6. CASE WriteState
  BY <1>6, WriteStateInv
<1>7. CASE Crash
  BY <1>7, EndInv DEF Crash, IInv, TypeOK
<1>8. CASE UNCHANGED vars
  <2>1. TypeOK'
    BY <1>8 DEF IInv, TypeOK, vars, files, procVars
  <2>2. ProcessAgrees'
    BY <1>8, FilesKept DEF IInv, ProcessAgrees, vars, files, procVars
  <2> QED
    BY <1>8, <2>1, <2>2, FilesKept DEF IInv, vars
<1> QED
  BY <1>1, <1>2, <1>3, <1>4, <1>5, <1>6, <1>7, <1>8 DEF Next, Step

\* The inductive invariant of the harvest.
THEOREM InvCorrect == Spec => []IInv
BY InitInv, NextInv, PTL DEF Spec

\* The harvest's variables keep their types, the page numbers their bound.
THEOREM TypeCorrect == Spec => []TypeOK
<1>1. IInv => TypeOK
  BY DEF IInv
<1> QED
  BY <1>1, InvCorrect, PTL

\* The pages are without gap or overlap up to where the state file says.
THEOREM PagesCorrect == Spec => []PagesContiguous
<1>1. IInv => PagesContiguous
  BY DEF IInv
<1> QED
  BY <1>1, InvCorrect, PTL

\* A complete harvest has every identifier of the window.
THEOREM CompleteCorrect == Spec => []CompleteMeansAll
<1>1. IInv => CompleteMeansAll
  BY DEF IInv, Covered, CompleteMeansAll
<1> QED
  BY <1>1, InvCorrect, PTL

\* A page that has been written is never changed, by this run or a later one.
THEOREM PagesStay == Spec => PagesRetained
<1>1. TypeOK /\ [Next]_vars =>
        [\A p \in PageNumber : pages[p] # None => pages'[p] = pages[p]]_vars
  <2> SUFFICES ASSUME TypeOK, Next
               PROVE  \A p \in PageNumber : pages[p] # None => pages'[p] = pages[p]
    OBVIOUS
  <2>1. CASE WritePage
    BY <2>1 DEF WritePage, TypeOK
  <2>2. CASE ~WritePage
    <3>1. pages' = pages
      BY <2>2 DEF Next, Step, Start, ReachMaxPages, Fetch, RefuseOverwrite,
                  WriteState, Crash, files
    <3> QED
      BY <3>1
  <2> QED
    BY <2>1, <2>2
<1> QED
  BY <1>1, TypeCorrect, PTL DEF Spec, PagesRetained
===============================================================================

------------------------------ MODULE Books_Proofs ------------------------------
(***************************************************************************)
(* The general ledger and the VAT periods, for any accounts, amounts,      *)
(* periods, expenses and number of requests.                               *)
(*                                                                         *)
(* The book changes in two ways only -- an entry is posted, or one is      *)
(* voided by its mirror -- and BookSteps says so; the theorems about       *)
(* entries and periods rest on it.  What a closed period comes to stays,   *)
(* because its entries do (ClosedAsFiled) and amounts never change         *)
(* (TotalsStay).  That an expense is doubled only by overlapping requests  *)
(* needs to know what each request has seen of its entries                 *)
(* (OneEditorKnows).                                                       *)
(*                                                                         *)
(* A VAT period has at most one standing adjustment: a close that is past  *)
(* the lock holds the row of the period (OneCloser), so what it looked up  *)
(* is still true when it posts (NoneBeforePosting).  Until a document is   *)
(* changed or an entry voided, that one entry is what the documents come   *)
(* to (AsComputed).                                                        *)
(***************************************************************************)
EXTENDS GeneralLedger, VatClose, SumTheorems

--------------------------------------------------------------------------------
(* The general ledger                                                      *)

\* An entry is added at the end.
Posted(e) ==
    /\ book' = Append(book, e)
    /\ e.reverses = 0
    /\ ~e.voided
    /\ Postable(e.day)

\* An entry is voided and its mirror added at the end.
Voids(i) == Voidable(i) /\ book' = Voided(i)

\* An expense has figures.
HasFigure == \A x \in Expenses : expense[x] # "none" => figure[x] \in Figures

\* A reversal is of an entry in the book.
ReversalsExist == \A k \in DOMAIN book : book[k].reverses \in DOMAIN book \cup {0}

\* What a request has found is in the book.
FoundExist == \A w \in Editors : found[w] \subseteq DOMAIN book

\* Who works on an expense that no two requests met at knows all its entries.
OnIt(w, x) == editor[w] # "idle" /\ editing[w] = x

KnowsOf(x) ==
    /\ \A v, w \in Editors : OnIt(v, x) /\ OnIt(w, x) => v = w
    /\ \A w \in Editors : OnIt(w, x) =>
          /\ editor[w] = "post" => Live(x) = {}
          /\ editor[w] = "void" => Live(x) \subseteq found[w]
    /\ \A i, j \in Live(x) : i = j
    /\ expense[x] \in {"none", "SUBMITTED", "REJECTED"} =>
          Live(x) = {} /\ \A w \in Editors : ~OnIt(w, x)

OneEditorKnows == \A x \in Expenses \ overlapped : KnowsOf(x)

GLInv ==
    /\ GLTypeOK
    /\ HasFigure
    /\ FoundExist
    /\ ReversalsExist
    /\ ClosedAsFiled
    /\ YearIsCleared
    /\ ReversedOnce
    /\ OneEditorKnows

\* The parts of a figure, and the entry it becomes.
LEMMA FigureParts ==
    /\ \A f \in Figures : f[1] \in [Accounts -> Int] /\ f[2] \in Days
    /\ \A d \in Days, m \in [Accounts -> Int], x \in Expenses \cup {NoExpense} :
          /\ NewEntry(d, m, x) \in Entry
          /\ NewEntry(d, m, x).day = d
          /\ NewEntry(d, m, x).source = x
          /\ NewEntry(d, m, x).reverses = 0
          /\ ~NewEntry(d, m, x).voided
BY LedgerConstants DEF Figures, NewEntry, Entry

\* The book with one entry more.
LEMMA OneLonger ==
    ASSUME book \in Seq(Entry), book' \in Seq(Entry), Len(book') = Len(book) + 1
    PROVE  /\ DOMAIN book' = DOMAIN book \cup {Len(book) + 1}
           /\ Len(book) + 1 \notin DOMAIN book
           /\ 0 \notin DOMAIN book'
<1>1. DOMAIN book = 1 .. Len(book) /\ DOMAIN book' = 1 .. Len(book') /\ Len(book) \in Nat
  OBVIOUS
<1> QED
  BY <1>1

\* The book after a posting.
LEMMA AfterPosting ==
    ASSUME NEW e \in Entry, book \in Seq(Entry), Posted(e)
    PROVE  /\ book' \in Seq(Entry)
           /\ Len(book') = Len(book) + 1
           /\ book'[Len(book) + 1] = e
           /\ \A k \in DOMAIN book : book'[k] = book[k]
BY DEF Posted

\* The book after a voiding.
LEMMA AfterVoiding ==
    ASSUME NEW i \in DOMAIN book, GLTypeOK, Voids(i)
    PROVE  /\ book' \in Seq(Entry)
           /\ Len(book') = Len(book) + 1
           /\ book'[Len(book) + 1].day = today
           /\ book'[Len(book) + 1].source = book[i].source
           /\ book'[Len(book) + 1].reverses = i
           /\ ~book'[Len(book) + 1].voided
           /\ \A a \in Accounts : book'[Len(book) + 1].moves[a] = -book[i].moves[a]
           /\ \A k \in DOMAIN book :
                 /\ book'[k].day = book[k].day
                 /\ book'[k].moves = book[k].moves
                 /\ book'[k].source = book[k].source
                 /\ book'[k].reverses = book[k].reverses
                 /\ book'[k].voided = (book[k].voided \/ k = i)
<1> DEFINE marked == [book EXCEPT ![i].voided = TRUE]
           against == [a \in Accounts |-> -book[i].moves[a]]
<1>1. book \in Seq(Entry) /\ today \in Days /\ i \in Nat
  BY DEF GLTypeOK
<1>2. \A k \in DOMAIN book : book[k] \in Entry
  BY <1>1
<1>3. against \in [Accounts -> Int]
  <2>1. \A a \in Accounts : book[i].moves[a] \in Int
    BY <1>2 DEF Entry
  <2> QED
    BY <2>1
<1>4. /\ Mirror(i) \in Entry
      /\ Mirror(i).day = today
      /\ Mirror(i).source = book[i].source
      /\ Mirror(i).reverses = i
      /\ ~Mirror(i).voided
      /\ \A a \in Accounts : Mirror(i).moves[a] = -book[i].moves[a]
  <2>1. book[i].source \in Expenses \cup {NoExpense}
    BY <1>2 DEF Entry
  <2> QED
    BY <1>1, <1>3, <2>1 DEF Mirror, NewEntry, Entry
<1>5. \A k \in DOMAIN book :
         /\ [book[k] EXCEPT !.voided = TRUE] \in Entry
         /\ [book[k] EXCEPT !.voided = TRUE].day = book[k].day
         /\ [book[k] EXCEPT !.voided = TRUE].moves = book[k].moves
         /\ [book[k] EXCEPT !.voided = TRUE].source = book[k].source
         /\ [book[k] EXCEPT !.voided = TRUE].reverses = book[k].reverses
         /\ [book[k] EXCEPT !.voided = TRUE].voided = TRUE
  BY <1>2 DEF Entry
<1>6. /\ DOMAIN marked = DOMAIN book
      /\ \A k \in DOMAIN book :
           marked[k] = IF k = i THEN [book[k] EXCEPT !.voided = TRUE] ELSE book[k]
  BY <1>1
<1>7. marked \in Seq(Entry) /\ Len(marked) = Len(book)
  BY <1>1, <1>5
<1>8. book' = Append(marked, Mirror(i))
  BY DEF Voids, Voided
<1> HIDE DEF marked
<1>9. /\ book' \in Seq(Entry)
      /\ Len(book') = Len(book) + 1
      /\ book'[Len(book) + 1] = Mirror(i)
      /\ \A k \in DOMAIN book : book'[k] = marked[k]
  BY <1>1, <1>4, <1>7, <1>8
<1>10. ASSUME NEW k \in DOMAIN book
       PROVE  /\ book'[k].day = book[k].day
              /\ book'[k].moves = book[k].moves
              /\ book'[k].source = book[k].source
              /\ book'[k].reverses = book[k].reverses
              /\ book'[k].voided = (book[k].voided \/ k = i)
  <2>1. CASE k = i
    <3>1. book'[k] = [book[k] EXCEPT !.voided = TRUE]
      BY <1>6, <1>9, <2>1
    <3>2. book'[k].voided = TRUE
      BY <1>5, <3>1
    <3> QED
      BY <1>5, <2>1, <3>1, <3>2
  <2>2. CASE k # i
    <3>1. book'[k] = book[k] /\ book[k].voided \in BOOLEAN
      BY <1>2, <1>6, <1>9, <2>2 DEF Entry
    <3> QED
      BY <2>2, <3>1
  <2> QED
    BY <2>1, <2>2
<1> QED
  BY <1>4, <1>9, <1>10

\* A new entry that passes the check of its day is a posting.
LEMMA NewIsPosted ==
    ASSUME NEW d \in Days, NEW m \in [Accounts -> Int], NEW x \in Expenses \cup {NoExpense},
           Postable(d), book' = Append(book, NewEntry(d, m, x))
    PROVE  \E e \in Entry : Posted(e) /\ e.day = d
<1>1. NewEntry(d, m, x) \in Entry /\ Posted(NewEntry(d, m, x)) /\ NewEntry(d, m, x).day = d
  BY FigureParts DEF Posted
<1> QED
  BY <1>1

\* What the entries of a period come to on an account is an integer, and so is
\* what a close moves away.
LEMMA TotalsAreInt ==
    ASSUME GLTypeOK, NEW p \in Periods
    PROVE  /\ IsFiniteSet(EntriesIn(p))
           /\ \A i \in EntriesIn(p), a \in Accounts : MovesOn(a)[i] \in Int
           /\ \A a \in Accounts : Total(p, a) \in Int
           /\ ClosingMoves(p) \in [Accounts -> Int]
<1>1. book \in Seq(Entry) /\ EntriesIn(p) \subseteq DOMAIN book
  BY DEF GLTypeOK, EntriesIn
<1>2. IsFiniteSet(EntriesIn(p))
  <2>1. DOMAIN book = 1 .. Len(book) /\ Len(book) \in Nat
    BY <1>1
  <2>2. IsFiniteSet(1 .. Len(book))
    BY <2>1, FS_Interval
  <2> QED
    BY <1>1, <2>1, <2>2, FS_Subset
<1>3. ASSUME NEW i \in EntriesIn(p), NEW a \in Accounts PROVE MovesOn(a)[i] \in Int
  <2>1. i \in DOMAIN book /\ book[i] \in Entry
    BY <1>1
  <2>2. book[i].moves[a] \in Int
    BY <2>1 DEF Entry
  <2> QED
    BY <2>1, <2>2 DEF MovesOn
<1>4. ASSUME NEW a \in Accounts PROVE Total(p, a) \in Int
  BY <1>2, <1>3, SumInt DEF Total
<1>5. ClosingMoves(p) \in [Accounts -> Int]
  BY <1>4 DEF ClosingMoves
<1> QED
  BY <1>2, <1>3, <1>4, <1>5

\* Whatever happens posts an entry, voids one, or leaves the book alone.
LEMMA BookSteps ==
    GLInv /\ [GLNext]_glVars =>
       \/ UNCHANGED book
       \/ \E e \in Entry : Posted(e)
       \/ \E i \in DOMAIN book : Voids(i)
<1> DEFINE Change == \/ UNCHANGED book
                     \/ \E e \in Entry : Posted(e)
                     \/ \E i \in DOMAIN book : Voids(i)
<1> SUFFICES ASSUME GLInv, [GLNext]_glVars PROVE Change
  OBVIOUS
<1> USE LedgerConstants
<1>1. ASSUME NEW d \in Days, NEW m \in Moves, PostJournal(d, m) PROVE Change
  <2>1. m \in [Accounts -> Int]
    OBVIOUS
  <2> QED
    BY <1>1, <2>1, NewIsPosted DEF PostJournal
<1>2. ASSUME NEW i \in DOMAIN book, VoidJournal(i) PROVE Change
  BY <1>2 DEF VoidJournal, Voids
<1>3. ASSUME NEW p \in Periods, CloseYear(p) PROVE Change
  <2>1. /\ LastDay[p] \in Days
        /\ ClosingMoves(p) \in [Accounts -> Int]
        /\ Postable(LastDay[p])
        /\ book' = Append(book, NewEntry(LastDay[p], ClosingMoves(p), NoExpense))
    BY <1>3, TotalsAreInt DEF CloseYear, GLInv
  <2> QED
    BY <2>1, NewIsPosted
<1>4. ASSUME NEW x \in Expenses, ApproveExpense(x) PROVE Change
  <2>1. figure[x] \in Figures
    BY <1>4 DEF ApproveExpense, GLInv, HasFigure
  <2>2. /\ figure[x][1] \in [Accounts -> Int] /\ figure[x][2] \in Days
        /\ Postable(figure[x][2])
        /\ book' = Append(book, NewEntry(figure[x][2], figure[x][1], x))
    BY <1>4, <2>1, FigureParts DEF ApproveExpense
  <2> QED
    BY <2>2, NewIsPosted
<1>5. ASSUME NEW w \in Editors, VoidFound(w) PROVE Change
  <2>1. found[w] \subseteq DOMAIN book
    BY DEF GLInv, FoundExist
  <2> QED
    BY <1>5, <2>1 DEF VoidFound, Voids
<1>6. ASSUME NEW w \in Editors, PostAgain(w) PROVE Change
  <2>1. CASE UNCHANGED book
    BY <2>1
  <2>2. CASE copy[w] # NoFigure /\ Postable(copy[w][2])
    <3>1. copy[w] \in Figures
      BY <2>2 DEF GLInv, GLTypeOK
    <3>2. editing[w] \in Expenses \cup {NoExpense}
      BY DEF GLInv, GLTypeOK
    <3>3. /\ copy[w][1] \in [Accounts -> Int] /\ copy[w][2] \in Days
          /\ Postable(copy[w][2])
          /\ book' = Append(book, NewEntry(copy[w][2], copy[w][1], editing[w]))
      BY <1>6, <2>2, <3>1, FigureParts DEF PostAgain
    <3> QED
      BY <3>2, <3>3, NewIsPosted
  <2> QED
    BY <1>6, <2>1, <2>2 DEF PostAgain
<1>7. CASE UNCHANGED book
  BY <1>7
<1> QED
  BY <1>1, <1>2, <1>3, <1>4, <1>5, <1>6, <1>7 DEF GLNext, glVars, NextDay,
      CreatePeriod, ReviewPeriod, ClosePeriod, ReopenPeriod, DeletePeriod,
      RejectExpense, SubmitExpense, DeleteExpense, RecordExpense, EditExpense,
      FindEntries, VoidFails, EditorDies

\* The book only grows, and its days stay as they are.
LEMMA BookGrows ==
    GLInv /\ [GLNext]_glVars =>
       /\ book' \in Seq(Entry)
       /\ Len(book') >= Len(book)
       /\ \A k \in DOMAIN book : book'[k].day = book[k].day
<1> SUFFICES ASSUME GLInv, [GLNext]_glVars
             PROVE  /\ book' \in Seq(Entry)
                    /\ Len(book') >= Len(book)
                    /\ \A k \in DOMAIN book : book'[k].day = book[k].day
  OBVIOUS
<1>1. GLTypeOK /\ book \in Seq(Entry)
  BY DEF GLInv, GLTypeOK
<1>2. CASE UNCHANGED book
  BY <1>1, <1>2
<1>3. ASSUME NEW e \in Entry, Posted(e)
      PROVE  /\ book' \in Seq(Entry) /\ Len(book') = Len(book) + 1
             /\ \A k \in DOMAIN book : book'[k].day = book[k].day
  BY <1>1, <1>3, AfterPosting
<1>4. ASSUME NEW i \in DOMAIN book, Voids(i)
      PROVE  /\ book' \in Seq(Entry) /\ Len(book') = Len(book) + 1
             /\ \A k \in DOMAIN book : book'[k].day = book[k].day
  BY <1>1, <1>4, AfterVoiding
<1> QED
  BY <1>1, <1>2, <1>3, <1>4, BookSteps

\* What a sign-off sees are two numbers, and what is filed are entries.
LEMMA PeriodTypes ==
    ASSUME GLTypeOK, NEW p \in Periods
    PROVE  Diagnostics(p) \in Nat \X Nat /\ EntriesIn(p) \in SUBSET Nat
<1>1. book \in Seq(Entry)
  BY DEF GLTypeOK
<1>2. DOMAIN book = 1 .. Len(book) /\ Len(book) \in Nat
  BY <1>1
<1>3. EntriesIn(p) \subseteq 1 .. Len(book)
  BY <1>2 DEF EntriesIn
<1>4. IsFiniteSet(1 .. Len(book))
  BY <1>2, FS_Interval
<1>5. /\ IsFiniteSet(EntriesIn(p))
      /\ IsFiniteSet({k \in EntriesIn(p) : book[k].voided})
  BY <1>3, <1>4, FS_Subset
<1> QED
  BY <1>2, <1>3, <1>5, FS_CardinalityType DEF Diagnostics

\* Every variable keeps its type.
LEMMA GLTypeStep ==
    GLInv /\ [GLNext]_glVars => GLTypeOK'
<1> SUFFICES ASSUME GLInv, [GLNext]_glVars PROVE GLTypeOK'
  OBVIOUS
<1> USE LedgerConstants, BookGrows
    DEF GLInv, GLTypeOK, periodVars, expenseVars, editorVars
<1>1. CASE NextDay
  BY <1>1 DEF NextDay
<1>2. ASSUME NEW d \in Days, NEW m \in Moves, PostJournal(d, m) PROVE GLTypeOK'
  BY <1>2 DEF PostJournal
<1>3. ASSUME NEW i \in DOMAIN book, VoidJournal(i) PROVE GLTypeOK'
  BY <1>3 DEF VoidJournal
<1>4. ASSUME NEW p \in Periods, CreatePeriod(p) PROVE GLTypeOK'
  BY <1>4 DEF CreatePeriod
<1>5. ASSUME NEW p \in Periods, ReviewPeriod(p) PROVE GLTypeOK'
  BY <1>5, PeriodTypes DEF ReviewPeriod, NoReview
<1>6. ASSUME NEW p \in Periods, ClosePeriod(p) PROVE GLTypeOK'
  BY <1>6, PeriodTypes DEF ClosePeriod
<1>7. ASSUME NEW p \in Periods, CloseYear(p) PROVE GLTypeOK'
  <2>1. EntriesIn(p) \cup {Len(book) + 1} \in SUBSET Nat
    <3>1. Len(book) + 1 \in Nat
      OBVIOUS
    <3> QED
      BY <3>1, PeriodTypes
  <2>2. filed' \in [Periods -> SUBSET Nat]
    BY <1>7, <2>1 DEF CloseYear
  <2>3. period' \in [Periods -> {"none", "open", "closed"}]
    BY <1>7 DEF CloseYear
  <2>4. UNCHANGED <<today, review, expenseVars, editorVars>>
    BY <1>7 DEF CloseYear
  <2> QED
    BY <2>2, <2>3, <2>4
<1>8. ASSUME NEW p \in Periods, ReopenPeriod(p) PROVE GLTypeOK'
  <2>1. review[p] \in [status : {"none", "signed", "stale"}, saw : Nat \X Nat]
    OBVIOUS
  <2>2. [review[p] EXCEPT !.status = "stale"] \in
           [status : {"none", "signed", "stale"}, saw : Nat \X Nat]
    BY <2>1
  <2>3. review' \in [Periods -> [status : {"none", "signed", "stale"}, saw : Nat \X Nat]]
    BY <1>8, <2>2 DEF ReopenPeriod
  <2>4. period' \in [Periods -> {"none", "open", "closed"}]
    BY <1>8 DEF ReopenPeriod
  <2>5. UNCHANGED <<today, filed, expenseVars, editorVars>>
    BY <1>8 DEF ReopenPeriod
  <2> QED
    BY <2>3, <2>4, <2>5
<1>9. ASSUME NEW p \in Periods, DeletePeriod(p) PROVE GLTypeOK'
  BY <1>9 DEF DeletePeriod
<1>10. ASSUME NEW x \in Expenses, ApproveExpense(x) PROVE GLTypeOK'
  BY <1>10 DEF ApproveExpense
<1>11. ASSUME NEW x \in Expenses, RejectExpense(x) PROVE GLTypeOK'
  BY <1>11 DEF RejectExpense
<1>12. ASSUME NEW x \in Expenses, NEW f \in Figures, SubmitExpense(x, f) PROVE GLTypeOK'
  BY <1>12 DEF SubmitExpense
<1>13. ASSUME NEW w \in Editors, NEW x \in Expenses, DeleteExpense(w, x) PROVE GLTypeOK'
  BY <1>13 DEF DeleteExpense, Start
<1>14. ASSUME NEW w \in Editors, NEW x \in Expenses, NEW f \in Figures, RecordExpense(w, x, f)
       PROVE GLTypeOK'
  BY <1>14 DEF RecordExpense, Start
<1>15. ASSUME NEW w \in Editors, NEW x \in Expenses, NEW f \in Figures, EditExpense(w, x, f)
       PROVE GLTypeOK'
  <2>1. figure' \in [Expenses -> Figures \cup {NoFigure}]
    BY <1>15 DEF EditExpense
  <2>2. UNCHANGED <<today, periodVars, expense>>
    BY <1>15 DEF EditExpense
  <2>3. CASE UNCHANGED editorVars
    BY <2>1, <2>2, <2>3
  <2>4. CASE Start(w, x, f, "find")
    BY <2>1, <2>2, <2>4 DEF Start
  <2> QED
    BY <1>15, <2>3, <2>4 DEF EditExpense
<1>16. ASSUME NEW w \in Editors, FindEntries(w) PROVE GLTypeOK'
  BY <1>16 DEF FindEntries, Live
<1>17. ASSUME NEW w \in Editors, VoidFound(w) PROVE GLTypeOK'
  BY <1>17 DEF VoidFound
<1>18. ASSUME NEW w \in Editors, VoidFails(w) PROVE GLTypeOK'
  BY <1>18 DEF VoidFails, Finish
<1>19. ASSUME NEW w \in Editors, PostAgain(w) PROVE GLTypeOK'
  BY <1>19 DEF PostAgain, Finish
<1>20. ASSUME NEW w \in Editors, EditorDies(w) PROVE GLTypeOK'
  BY <1>20 DEF EditorDies, Finish
<1>21. CASE UNCHANGED glVars
  BY <1>21 DEF glVars
<1> HIDE DEF GLInv, GLTypeOK
<1> QED
  BY <1>1, <1>2, <1>3, <1>4, <1>5, <1>6, <1>7, <1>8, <1>9, <1>10, <1>11, <1>12,
     <1>13, <1>14, <1>15, <1>16, <1>17, <1>18, <1>19, <1>20, <1>21
  DEF GLNext, glVars, periodVars, expenseVars, editorVars

\* Entries are found where they stay.
LEMMA FoundExistStep ==
    GLInv /\ GLTypeOK' /\ [GLNext]_glVars => FoundExist'
<1> SUFFICES ASSUME GLInv, GLTypeOK', [GLNext]_glVars PROVE FoundExist'
  OBVIOUS
<1> USE LedgerConstants, BookGrows
    DEF GLInv, GLTypeOK, FoundExist, periodVars, expenseVars, editorVars
<1>1. ASSUME NEW w \in Editors, NEW x \in Expenses, DeleteExpense(w, x) PROVE FoundExist'
  BY <1>1 DEF DeleteExpense, Start
<1>2. ASSUME NEW w \in Editors, NEW x \in Expenses, NEW f \in Figures, RecordExpense(w, x, f)
       PROVE FoundExist'
  BY <1>2 DEF RecordExpense, Start
<1>3. ASSUME NEW w \in Editors, NEW x \in Expenses, NEW f \in Figures, EditExpense(w, x, f)
       PROVE FoundExist'
  BY <1>3, ZenonT(30) DEF EditExpense, Start
<1>4. ASSUME NEW w \in Editors, FindEntries(w) PROVE FoundExist'
  BY <1>4 DEF FindEntries, Live
<1>5. ASSUME NEW w \in Editors, VoidFound(w) PROVE FoundExist'
  BY <1>5 DEF VoidFound
<1>6. ASSUME NEW w \in Editors, VoidFails(w) PROVE FoundExist'
  BY <1>6 DEF VoidFails, Finish
<1>7. ASSUME NEW w \in Editors, PostAgain(w) PROVE FoundExist'
  BY <1>7 DEF PostAgain, Finish
<1>8. ASSUME NEW w \in Editors, EditorDies(w) PROVE FoundExist'
  BY <1>8 DEF EditorDies, Finish
<1>9. CASE UNCHANGED found
  BY <1>9
<1> HIDE DEF GLInv, GLTypeOK, FoundExist
<1> QED
  BY <1>1, <1>2, <1>3, <1>4, <1>5, <1>6, <1>7, <1>8, <1>9
  DEF GLNext, glVars, periodVars, expenseVars, editorVars, NextDay, PostJournal,
      VoidJournal, CreatePeriod, ReviewPeriod, ClosePeriod, CloseYear, ReopenPeriod,
      DeletePeriod, ApproveExpense, RejectExpense, SubmitExpense

\* Figures come with the expense and are replaced by figures.
LEMMA HasFigureStep ==
    GLInv /\ GLTypeOK' /\ [GLNext]_glVars => HasFigure'
<1> SUFFICES ASSUME GLInv, GLTypeOK', [GLNext]_glVars PROVE HasFigure'
  OBVIOUS
<1> USE LedgerConstants
    DEF GLInv, GLTypeOK, HasFigure, periodVars, expenseVars, editorVars
<1>1. ASSUME NEW x \in Expenses, ApproveExpense(x) PROVE HasFigure'
  BY <1>1 DEF ApproveExpense
<1>2. ASSUME NEW x \in Expenses, RejectExpense(x) PROVE HasFigure'
  BY <1>2 DEF RejectExpense
<1>3. ASSUME NEW x \in Expenses, NEW f \in Figures, SubmitExpense(x, f) PROVE HasFigure'
  BY <1>3 DEF SubmitExpense
<1>4. ASSUME NEW w \in Editors, NEW x \in Expenses, DeleteExpense(w, x) PROVE HasFigure'
  BY <1>4 DEF DeleteExpense, Start
<1>5. ASSUME NEW w \in Editors, NEW x \in Expenses, NEW f \in Figures, RecordExpense(w, x, f)
       PROVE HasFigure'
  BY <1>5 DEF RecordExpense, Start
<1>6. ASSUME NEW w \in Editors, NEW x \in Expenses, NEW f \in Figures, EditExpense(w, x, f)
       PROVE HasFigure'
  BY <1>6 DEF EditExpense, Start
<1>7. CASE UNCHANGED <<expense, figure>>
  BY <1>7
<1> HIDE DEF GLInv, GLTypeOK, HasFigure
<1> QED
  BY <1>1, <1>2, <1>3, <1>4, <1>5, <1>6, <1>7
  DEF GLNext, glVars, periodVars, expenseVars, editorVars, NextDay, PostJournal,
      VoidJournal, CreatePeriod, ReviewPeriod, ClosePeriod, CloseYear, ReopenPeriod,
      DeletePeriod, FindEntries, VoidFound, VoidFails, PostAgain, EditorDies

\* Nothing is posted into a closed period.
LEMMA ClosedIsLeftAlone ==
    ASSUME GLInv, [GLNext]_glVars, NEW p \in Periods, period[p] = "closed"
    PROVE  EntriesIn(p)' = EntriesIn(p)
<1>1. GLTypeOK /\ book \in Seq(Entry)
  BY DEF GLInv, GLTypeOK
<1>2. CASE UNCHANGED book
  BY <1>2 DEF EntriesIn
<1>3. ASSUME NEW e \in Entry, Posted(e) PROVE EntriesIn(p)' = EntriesIn(p)
  <2>1. e.day \notin PeriodDays[p]
    BY <1>3 DEF Posted, Postable
  <2>2. DOMAIN book' = DOMAIN book \cup {Len(book) + 1} /\ Len(book) + 1 \notin DOMAIN book
    BY <1>1, <1>3, AfterPosting, OneLonger
  <2> QED
    BY <1>1, <1>3, <2>1, <2>2, AfterPosting DEF EntriesIn
<1>4. ASSUME NEW i \in DOMAIN book, Voids(i) PROVE EntriesIn(p)' = EntriesIn(p)
  <2>1. today \notin PeriodDays[p]
    BY <1>4 DEF Voids, Voidable, Postable
  <2>2. DOMAIN book' = DOMAIN book \cup {Len(book) + 1} /\ Len(book) + 1 \notin DOMAIN book
    BY <1>1, <1>4, AfterVoiding, OneLonger
  <2> QED
    BY <1>1, <1>4, <2>1, <2>2, AfterVoiding DEF EntriesIn
<1> QED
  BY <1>2, <1>3, <1>4, BookSteps

\* A close files what is there, its own entry included.
LEMMA ClosedAsFiledStep == GLInv /\ GLTypeOK' /\ [GLNext]_glVars => ClosedAsFiled'
<1> SUFFICES ASSUME GLInv, GLTypeOK', [GLNext]_glVars PROVE ClosedAsFiled'
  OBVIOUS
<1> USE LedgerConstants, ClosedIsLeftAlone DEF periodVars, ClosedAsFiled
<1>1. book \in Seq(Entry) /\ period \in [Periods -> {"none", "open", "closed"}]
                          /\ filed \in [Periods -> SUBSET Nat] /\ ClosedAsFiled
  BY DEF GLInv, GLTypeOK
<1>2. CASE UNCHANGED <<period, filed>>
  BY <1>1, <1>2
<1>3. ASSUME NEW p \in Periods, CreatePeriod(p) PROVE ClosedAsFiled'
  BY <1>1, <1>3 DEF CreatePeriod
<1>4. ASSUME NEW p \in Periods, ClosePeriod(p) PROVE ClosedAsFiled'
  <2>1. EntriesIn(p)' = EntriesIn(p)
    BY <1>4 DEF ClosePeriod, EntriesIn
  <2> QED
    BY <1>1, <1>4, <2>1 DEF ClosePeriod
<1>5. ASSUME NEW p \in Periods, CloseYear(p) PROVE ClosedAsFiled'
  <2>1. PICK e \in Entry : Posted(e) /\ e.day = LastDay[p]
    <3>1. /\ ClosingMoves(p) \in [Accounts -> Int] /\ LastDay[p] \in Days
          /\ Postable(LastDay[p])
          /\ book' = Append(book, NewEntry(LastDay[p], ClosingMoves(p), NoExpense))
      BY <1>5, TotalsAreInt DEF CloseYear, GLInv
    <3> QED
      BY <3>1, NewIsPosted
  <2>2. /\ book'[Len(book) + 1] = e
        /\ \A k \in DOMAIN book : book'[k] = book[k]
        /\ DOMAIN book' = DOMAIN book \cup {Len(book) + 1}
    BY <1>1, <2>1, AfterPosting, OneLonger
  <2>3. EntriesIn(p)' = EntriesIn(p) \cup {Len(book) + 1}
    BY <2>1, <2>2 DEF EntriesIn
  <2> QED
    BY <1>1, <1>5, <2>3 DEF CloseYear
<1>6. ASSUME NEW p \in Periods, ReopenPeriod(p) PROVE ClosedAsFiled'
  BY <1>1, <1>6 DEF ReopenPeriod
<1>7. ASSUME NEW p \in Periods, DeletePeriod(p) PROVE ClosedAsFiled'
  BY <1>1, <1>7 DEF DeletePeriod
<1> QED
  BY <1>2, <1>3, <1>4, <1>5, <1>6, <1>7 DEF GLNext, glVars, NextDay, PostJournal,
      VoidJournal, ReviewPeriod, ApproveExpense, RejectExpense, SubmitExpense,
      DeleteExpense, RecordExpense, EditExpense, FindEntries, VoidFound, VoidFails,
      PostAgain, EditorDies

\* No step changes the amounts of an entry that is there.
LEMMA MovesStay ==
    ASSUME GLInv, [GLNext]_glVars
    PROVE  \A k \in DOMAIN book : k \in DOMAIN book' /\ book'[k].moves = book[k].moves
<1>1. GLTypeOK /\ book \in Seq(Entry)
  BY DEF GLInv, GLTypeOK
<1>2. CASE UNCHANGED book
  BY <1>2
<1>3. ASSUME NEW e \in Entry, Posted(e)
      PROVE  \A k \in DOMAIN book : k \in DOMAIN book' /\ book'[k].moves = book[k].moves
  BY <1>1, <1>3, AfterPosting, OneLonger
<1>4. ASSUME NEW i \in DOMAIN book, Voids(i)
      PROVE  \A k \in DOMAIN book : k \in DOMAIN book' /\ book'[k].moves = book[k].moves
  BY <1>1, <1>4, AfterVoiding, OneLonger
<1> QED
  BY <1>2, <1>3, <1>4, BookSteps

\* What the entries of a period came to before a step, they come to after it.
LEMMA TotalsStay ==
    ASSUME GLInv, [GLNext]_glVars, NEW p \in Periods, NEW a \in Accounts
    PROVE  SumFunctionOnSet(MovesOn(a)', EntriesIn(p)) = Total(p, a)
<1>1. EntriesIn(p) \subseteq DOMAIN book /\ IsFiniteSet(EntriesIn(p))
  BY TotalsAreInt DEF EntriesIn, GLInv
<1>2. \A k \in EntriesIn(p) : MovesOn(a)'[k] = MovesOn(a)[k]
  BY <1>1, MovesStay DEF MovesOn
<1> QED
  BY <1>1, <1>2, SumSame DEF Total

\* A close leaves nothing on the accounts of its year, and nothing comes to a
\* closed one.
LEMMA YearStep == GLInv /\ GLTypeOK' /\ [GLNext]_glVars => YearIsCleared'
<1> SUFFICES ASSUME GLInv, GLTypeOK', [GLNext]_glVars,
                    NEW p \in Years, period'[p] = "closed", NEW a \in Accounts
             PROVE  Total(p, a)' = 0
  BY DEF YearIsCleared
<1>1. /\ GLTypeOK /\ YearIsCleared /\ p \in Periods /\ book \in Seq(Entry)
      /\ period \in [Periods -> {"none", "open", "closed"}]
  BY LedgerConstants DEF GLInv, GLTypeOK
<1>2. CASE period[p] = "closed"
  <2>1. EntriesIn(p)' = EntriesIn(p) /\ Total(p, a) = 0
    BY <1>1, <1>2, ClosedIsLeftAlone DEF YearIsCleared
  <2>2. SumFunctionOnSet(MovesOn(a)', EntriesIn(p)) = Total(p, a)
    BY <1>1, TotalsStay
  <2> QED
    BY <2>1, <2>2 DEF Total
<1>3. CASE ClosePeriod(p)
  <2>1. \A i \in EntriesIn(p) : MovesOn(a)[i] = 0
    BY <1>3 DEF ClosePeriod, LocksOnly, MovesOn, EntriesIn
  <2>2. Total(p, a) = 0
    BY <1>1, <2>1, TotalsAreInt, SumZero DEF Total
  <2>3. SumFunctionOnSet(MovesOn(a)', EntriesIn(p)) = 0 /\ EntriesIn(p)' = EntriesIn(p)
    BY <1>1, <1>3, <2>2, TotalsStay DEF ClosePeriod, EntriesIn
  <2> QED
    BY <2>3 DEF Total
<1>4. CASE CloseYear(p)
  <2> DEFINE e == NewEntry(LastDay[p], ClosingMoves(p), NoExpense)
             n == Len(book) + 1
  <2>1. ClosingMoves(p) \in [Accounts -> Int] /\ LastDay[p] \in PeriodDays[p] /\ LastDay[p] \in Days
    BY <1>1, TotalsAreInt, LedgerConstants
  <2>2. e \in Entry /\ e.day = LastDay[p] /\ e.moves[a] = -Total(p, a) /\ Posted(e)
    <3>1. e.moves = ClosingMoves(p) /\ ClosingMoves(p)[a] = -Total(p, a)
      BY DEF NewEntry, ClosingMoves
    <3>2. e \in Entry /\ e.day = LastDay[p] /\ e.reverses = 0 /\ ~e.voided
      BY <2>1, FigureParts
    <3>3. book' = Append(book, e) /\ Postable(LastDay[p])
      BY <1>4 DEF CloseYear
    <3> HIDE DEF e
    <3> QED
      BY <3>1, <3>2, <3>3 DEF Posted
  <2> HIDE DEF e
  <2>3. /\ book'[n] = e
        /\ \A k \in DOMAIN book : book'[k] = book[k]
        /\ DOMAIN book' = DOMAIN book \cup {n}
        /\ n \notin DOMAIN book
    BY <1>1, <2>2, AfterPosting, OneLonger
  <2> HIDE DEF n
  <2>4. EntriesIn(p)' = EntriesIn(p) \cup {n} /\ n \notin EntriesIn(p)
    BY <2>1, <2>2, <2>3 DEF EntriesIn
  <2>5. MovesOn(a)'[n] = -Total(p, a)
    BY <2>2, <2>3 DEF MovesOn
  <2>6. IsFiniteSet(EntriesIn(p)) /\ Total(p, a) \in Int
    BY <1>1, TotalsAreInt
  <2>7. \A k \in EntriesIn(p) \cup {n} : MovesOn(a)'[k] \in Int
    <3>1. \A k \in EntriesIn(p) : MovesOn(a)[k] \in Int /\ k \in DOMAIN book /\ k \in DOMAIN book'
      BY <1>1, <2>3, TotalsAreInt DEF EntriesIn
    <3>2. \A k \in EntriesIn(p) : MovesOn(a)'[k] = MovesOn(a)[k]
      BY <2>3, <3>1 DEF MovesOn
    <3> QED
      BY <2>5, <2>6, <3>1, <3>2
  <2>8. SumFunctionOnSet(MovesOn(a)', EntriesIn(p) \cup {n})
           = MovesOn(a)'[n] + SumFunctionOnSet(MovesOn(a)', EntriesIn(p))
    BY <2>4, <2>6, <2>7, SumAdd
  <2>9. SumFunctionOnSet(MovesOn(a)', EntriesIn(p)) = Total(p, a)
    BY <1>1, TotalsStay
  <2>10. SumFunctionOnSet(MovesOn(a)', EntriesIn(p)') = 0
    BY <2>4, <2>5, <2>6, <2>8, <2>9
  <2> QED
    BY <2>10 DEF Total
<1>5. CASE period[p] # "closed" /\ ~ClosePeriod(p) /\ ~CloseYear(p)
  <2>1. ASSUME NEW q \in Periods,
               \/ CreatePeriod(q) \/ ReopenPeriod(q) \/ DeletePeriod(q)
               \/ ClosePeriod(q) /\ q # p
               \/ CloseYear(q) /\ q # p
        PROVE  FALSE
    BY <1>1, <1>5, <2>1 DEF CreatePeriod, ReopenPeriod, DeletePeriod, ClosePeriod, CloseYear
  <2>2. CASE UNCHANGED period
    BY <1>5, <2>2
  <2> QED
    BY <1>5, <2>1, <2>2 DEF GLNext, glVars, periodVars, NextDay, PostJournal,
       VoidJournal, ReviewPeriod, ApproveExpense, RejectExpense, SubmitExpense,
       DeleteExpense, RecordExpense, EditExpense, FindEntries, VoidFound, VoidFails,
       PostAgain, EditorDies
<1> QED
  BY <1>2, <1>3, <1>4, <1>5

\* A mirror is of an entry that is there.
LEMMA ReversalsExistStep == GLInv /\ [GLNext]_glVars => ReversalsExist'
<1> SUFFICES ASSUME GLInv, [GLNext]_glVars PROVE ReversalsExist'
  OBVIOUS
<1>1. GLTypeOK /\ book \in Seq(Entry) /\ ReversalsExist
  BY DEF GLInv, GLTypeOK
<1>2. CASE UNCHANGED book
  BY <1>1, <1>2 DEF ReversalsExist
<1>3. ASSUME NEW e \in Entry, Posted(e) PROVE ReversalsExist'
  <2>1. e.reverses = 0
    BY <1>3 DEF Posted
  <2> QED
    BY <1>1, <1>3, <2>1, AfterPosting, OneLonger DEF ReversalsExist
<1>4. ASSUME NEW i \in DOMAIN book, Voids(i) PROVE ReversalsExist'
  BY <1>1, <1>4, AfterVoiding, OneLonger DEF ReversalsExist
<1> QED
  BY <1>2, <1>3, <1>4, BookSteps

\* A reversal comes with the mark on what it reverses, which carried none.
LEMMA ReversedOnceStep == GLInv /\ [GLNext]_glVars => ReversedOnce'
<1> SUFFICES ASSUME GLInv, [GLNext]_glVars PROVE ReversedOnce'
  OBVIOUS
<1>1. GLTypeOK /\ book \in Seq(Entry) /\ ReversedOnce
  BY DEF GLInv, GLTypeOK
<1>2. ReversalsExist
  BY DEF GLInv
<1> USE DEF ReversalsExist
<1>3. CASE UNCHANGED book
  BY <1>1, <1>3 DEF ReversedOnce
<1>4. ASSUME NEW e \in Entry, Posted(e) PROVE ReversedOnce'
  <2>1. /\ book'[Len(book) + 1] = e
        /\ \A k \in DOMAIN book : book'[k] = book[k]
        /\ DOMAIN book' = DOMAIN book \cup {Len(book) + 1}
        /\ Len(book) + 1 \notin DOMAIN book
        /\ Len(book) + 1 # 0
    BY <1>1, <1>4, AfterPosting, OneLonger
  <2>2. e.reverses = 0 /\ ~e.voided
    BY <1>4 DEF Posted
  <2>3. \A k \in DOMAIN book : book[k].reverses # Len(book) + 1
    BY <1>1, <1>2
  <2> QED
    BY <1>1, <1>2, <2>1, <2>2, <2>3 DEF ReversedOnce
<1>5. ASSUME NEW i \in DOMAIN book, Voids(i) PROVE ReversedOnce'
  <2>1. /\ book'[Len(book) + 1].reverses = i
        /\ ~book'[Len(book) + 1].voided
        /\ \A a \in Accounts : book'[Len(book) + 1].moves[a] = -book[i].moves[a]
        /\ \A k \in DOMAIN book :
              /\ book'[k].moves = book[k].moves
              /\ book'[k].reverses = book[k].reverses
              /\ book'[k].voided = (book[k].voided \/ k = i)
        /\ DOMAIN book' = DOMAIN book \cup {Len(book) + 1}
        /\ Len(book) + 1 \notin DOMAIN book
        /\ Len(book) + 1 # 0
    BY <1>1, <1>5, AfterVoiding, OneLonger
  <2>2. ~book[i].voided /\ i # 0
    BY <1>1, <1>5 DEF Voids, Voidable
  <2>3. \A k \in DOMAIN book : book[k].reverses # i /\ book[k].reverses # Len(book) + 1
    BY <1>1, <1>2, <2>1, <2>2 DEF ReversedOnce
  <2>4. ASSUME NEW k \in DOMAIN book'
        PROVE  book'[k].voided <=> \E j \in DOMAIN book' : book'[j].reverses = k
    <3>1. CASE k = i
      BY <2>1, <3>1
    <3>2. CASE k = Len(book) + 1
      BY <2>1, <2>3, <3>2
    <3>3. CASE k \in DOMAIN book /\ k # i
      <4>1. book'[k].voided <=> book[k].voided
        BY <2>1, <3>3
      <4>2. (\E j \in DOMAIN book' : book'[j].reverses = k)
              <=> (\E j \in DOMAIN book : book[j].reverses = k)
        BY <2>1, <3>3
      <4> QED
        BY <1>1, <3>3, <4>1, <4>2 DEF ReversedOnce
    <3> QED
      BY <2>1, <3>1, <3>2, <3>3
  <2>5. \A k, j \in DOMAIN book' :
           book'[k].reverses = book'[j].reverses /\ book'[k].reverses # 0 => k = j
    BY <1>1, <2>1, <2>3 DEF ReversedOnce
  <2>6. ASSUME NEW k \in DOMAIN book', book'[k].reverses # 0, NEW a \in Accounts
        PROVE  book'[k].moves[a] = -book'[book'[k].reverses].moves[a]
    <3>1. CASE k = Len(book) + 1
      BY <2>1, <3>1
    <3>2. CASE k \in DOMAIN book
      <4>1. book[k].reverses # 0 /\ book[k].reverses \in DOMAIN book
        BY <1>2, <2>1, <2>6, <3>2
      <4>2. book[k].moves[a] = -book[book[k].reverses].moves[a]
        BY <1>1, <3>2, <4>1 DEF ReversedOnce
      <4> QED
        BY <2>1, <3>2, <4>1, <4>2
    <3> QED
      BY <2>1, <3>1, <3>2
  <2> QED
    BY <2>4, <2>5, <2>6 DEF ReversedOnce
<1> QED
  BY <1>3, <1>4, <1>5, BookSteps

\* The live entries of an expense after a posting and after a voiding.
LEMMA LiveAfter ==
    ASSUME GLInv, NEW x \in Expenses
    PROVE  /\ UNCHANGED book => Live(x)' = Live(x)
           /\ \A e \in Entry : Posted(e) =>
                 Live(x)' = Live(x) \cup {k \in {Len(book) + 1} : e.source = x}
           /\ \A i \in DOMAIN book : Voids(i) => Live(x)' = Live(x) \ {i}
<1>1. GLTypeOK /\ book \in Seq(Entry)
  BY DEF GLInv, GLTypeOK
<1>2. ASSUME NEW e \in Entry, Posted(e)
      PROVE  Live(x)' = Live(x) \cup {k \in {Len(book) + 1} : e.source = x}
  <2>1. e.reverses = 0 /\ ~e.voided
    BY <1>2 DEF Posted
  <2> QED
    BY <1>1, <1>2, <2>1, AfterPosting, OneLonger DEF Live
<1>3. ASSUME NEW i \in DOMAIN book, Voids(i) PROVE Live(x)' = Live(x) \ {i}
  <2>1. /\ DOMAIN book' = DOMAIN book \cup {Len(book) + 1}
        /\ book'[Len(book) + 1].reverses # 0
    BY <1>1, <1>3, AfterVoiding, OneLonger
  <2>2. \A k \in DOMAIN book :
           /\ book'[k].source = book[k].source
           /\ book'[k].reverses = book[k].reverses
           /\ book'[k].voided = (book[k].voided \/ k = i)
    BY <1>1, <1>3, AfterVoiding
  <2>3. Len(book) + 1 \notin Live(x)'
    BY <2>1 DEF Live
  <2>4. ASSUME NEW k \in DOMAIN book PROVE k \in Live(x)' <=> k \in Live(x) /\ k # i
    <3>1. ~book'[k].voided <=> ~book[k].voided /\ k # i
      BY <2>2
    <3>2. k \in DOMAIN book'
      BY <2>1
    <3> QED
      BY <2>2, <3>1, <3>2 DEF Live
  <2>5. Live(x)' \subseteq DOMAIN book' /\ Live(x) \subseteq DOMAIN book
    BY DEF Live
  <2> QED
    BY <2>1, <2>3, <2>4, <2>5
<1> QED
  BY <1>2, <1>3 DEF Live

\* The live entries of an expense after a new entry is posted.
LEMMA LiveAfterNew ==
    ASSUME GLInv, NEW x \in Expenses, NEW d \in Days, NEW m \in [Accounts -> Int],
           NEW y \in Expenses \cup {NoExpense}, Postable(d),
           book' = Append(book, NewEntry(d, m, y))
    PROVE  /\ y = x => Live(x)' = Live(x) \cup {Len(book) + 1}
           /\ y # x => Live(x)' = Live(x)
<1> DEFINE e == NewEntry(d, m, y)
<1>1. e \in Entry /\ e.source = y /\ e.day = d /\ e.reverses = 0 /\ ~e.voided
  BY FigureParts
<1> HIDE DEF e
<1>2. Posted(e)
  BY <1>1 DEF Posted, e
<1>3. Live(x)' = Live(x) \cup {k \in {Len(book) + 1} : y = x}
  BY <1>1, <1>2, LiveAfter
<1> QED
  BY <1>3

\* A new entry leaves the live entries of every other expense alone.
LEMMA LiveOfOthers ==
    ASSUME GLInv, NEW x \in Expenses, NEW d \in Days, NEW m \in [Accounts -> Int],
           NEW y \in Expenses \cup {NoExpense}, y # x, Postable(d),
           book' = Append(book, NewEntry(d, m, y))
    PROVE  Live(x)' = Live(x)
BY LiveAfterNew

\* What is known of an expense stays known while its entries only go and no
\* request comes to it.
LEMMA StillKnown ==
    ASSUME NEW x \in Expenses, KnowsOf(x),
           Live(x)' \subseteq Live(x), expense'[x] = expense[x],
           \A v \in Editors : OnIt(v, x)' =>
              OnIt(v, x) /\ editor'[v] = editor[v] /\ found'[v] = found[v]
    PROVE  KnowsOf(x)'
BY DEF KnowsOf

\* A request learns the entries of its expense, and others are overlaps.
LEMMA OneEditorKnowsStep == GLInv /\ GLTypeOK' /\ [GLNext]_glVars => OneEditorKnows'
<1> SUFFICES ASSUME GLInv, GLTypeOK', [GLNext]_glVars,
                    NEW x \in Expenses, x \notin overlapped'
             PROVE  KnowsOf(x)'
  BY DEF OneEditorKnows
<1>1. /\ editor \in [Editors -> {"idle", "find", "void", "post"}]
      /\ editing \in [Editors -> Expenses \cup {NoExpense}]
      /\ found \in [Editors -> SUBSET Nat]
      /\ expense \in [Expenses -> {"none", "SUBMITTED", "APPROVED", "REJECTED", "deleted"}]
  BY DEF GLInv, GLTypeOK
<1>2. x \notin overlapped => KnowsOf(x)
  BY DEF GLInv, OneEditorKnows
<1> USE LedgerConstants DEF editorVars, expenseVars, OnIt
<1>3. CASE UNCHANGED <<book, expense, editor, editing, found, overlapped>>
  BY <1>2, <1>3, StillKnown, LiveAfter
<1>4. ASSUME NEW d \in Days, NEW m \in Moves, PostJournal(d, m) PROVE KnowsOf(x)'
  <2>1. m \in [Accounts -> Int] /\ NoExpense # x
    OBVIOUS
  <2>2. Live(x)' = Live(x)
    BY <1>4, <2>1, LiveAfterNew DEF PostJournal
  <2> QED
    BY <1>2, <1>4, <2>2, StillKnown DEF PostJournal
<1>5. ASSUME NEW i \in DOMAIN book, VoidJournal(i) PROVE KnowsOf(x)'
  <2>1. Live(x)' \subseteq Live(x)
    BY <1>5, LiveAfter DEF VoidJournal, Voids
  <2> QED
    BY <1>2, <1>5, <2>1, StillKnown DEF VoidJournal
<1>6. ASSUME NEW p \in Periods, CloseYear(p) PROVE KnowsOf(x)'
  <2>1. /\ ClosingMoves(p) \in [Accounts -> Int] /\ LastDay[p] \in Days /\ Postable(LastDay[p])
        /\ book' = Append(book, NewEntry(LastDay[p], ClosingMoves(p), NoExpense))
    BY <1>6, TotalsAreInt DEF CloseYear, GLInv
  <2>2. NoExpense # x
    OBVIOUS
  <2>3. Live(x)' = Live(x)
    BY <2>1, <2>2, LiveAfterNew
  <2> QED
    BY <1>2, <1>6, <2>3, StillKnown DEF CloseYear
<1>7. ASSUME NEW y \in Expenses, ApproveExpense(y) PROVE KnowsOf(x)'
  <2>1. figure[y] \in Figures /\ UNCHANGED editorVars
    BY <1>7 DEF ApproveExpense, GLInv, HasFigure
  <2>2. /\ figure[y][1] \in [Accounts -> Int] /\ figure[y][2] \in Days
        /\ Postable(figure[y][2])
        /\ book' = Append(book, NewEntry(figure[y][2], figure[y][1], y))
    BY <1>7, <2>1, FigureParts DEF ApproveExpense
  <2>3. CASE x = y
    <3>1. KnowsOf(x) /\ Live(x) = {} /\ \A w \in Editors : ~OnIt(w, x)
      BY <1>2, <1>7, <2>1, <2>3 DEF ApproveExpense, KnowsOf
    <3>2. Live(x)' = {Len(book) + 1}
      BY <2>2, <2>3, <3>1, LiveAfterNew
    <3>4. expense'[x] = "APPROVED"
      BY <1>1, <1>7, <2>3 DEF ApproveExpense
    <3>3. \A w \in Editors : ~OnIt(w, x)'
      BY <2>1, <3>1
    <3> QED
      BY <3>2, <3>3, <3>4 DEF KnowsOf
  <2>4. CASE x # y
    <3>1. Live(x)' = Live(x)
      BY <2>2, <2>4, LiveOfOthers
    <3>2. expense'[x] = expense[x]
      BY <1>1, <1>7, <2>4 DEF ApproveExpense
    <3> QED
      BY <1>2, <2>1, <3>1, <3>2, StillKnown
  <2> QED
    BY <2>3, <2>4
<1>8. ASSUME NEW y \in Expenses, RejectExpense(y) PROVE KnowsOf(x)'
  BY <1>1, <1>2, <1>8, LiveAfter DEF RejectExpense, KnowsOf
<1>9. ASSUME NEW y \in Expenses, NEW f \in Figures, SubmitExpense(y, f) PROVE KnowsOf(x)'
  BY <1>1, <1>2, <1>9, LiveAfter DEF SubmitExpense, KnowsOf
<1>10. ASSUME NEW w \in Editors, NEW y \in Expenses, DeleteExpense(w, y) PROVE KnowsOf(x)'
  BY <1>1, <1>2, <1>10, LiveAfter DEF DeleteExpense, Start, KnowsOf
<1>11. ASSUME NEW w \in Editors, NEW y \in Expenses, NEW f \in Figures, RecordExpense(w, y, f)
       PROVE  KnowsOf(x)'
  BY <1>1, <1>2, <1>11, LiveAfter DEF RecordExpense, Start, KnowsOf
<1>12. ASSUME NEW w \in Editors, NEW y \in Expenses, NEW f \in Figures, EditExpense(w, y, f)
       PROVE  KnowsOf(x)'
  <2>1. CASE expense[y] = "APPROVED"
    <3>1. /\ UNCHANGED <<book, expense>>
          /\ editor' = [editor EXCEPT ![w] = "find"]
          /\ editing' = [editing EXCEPT ![w] = y]
          /\ found' = [found EXCEPT ![w] = {}]
          /\ editor[w] = "idle"
          /\ overlapped \subseteq overlapped'
          /\ (\E v \in Editors : editor[v] # "idle" /\ editing[v] = y) => y \in overlapped'
      BY <1>12, <2>1 DEF EditExpense, Start
    <3>2. KnowsOf(x) /\ Live(x)' = Live(x)
      BY <1>2, <3>1, LiveAfter
    <3>3. CASE x # y
      BY <1>1, <3>1, <3>2, <3>3, StillKnown
    <3>4. CASE x = y
      <4>1. \A v \in Editors : ~OnIt(v, x)
        BY <3>1, <3>4
      <4>2. \A v \in Editors : OnIt(v, x)' => v = w /\ editor'[v] = "find"
        BY <1>1, <3>1, <4>1
      <4>3. expense'[x] = "APPROVED"
        BY <2>1, <3>1, <3>4
      <4> QED
        BY <3>2, <4>2, <4>3 DEF KnowsOf
    <3> QED
      BY <3>3, <3>4
  <2>2. CASE expense[y] # "APPROVED"
    BY <1>1, <1>2, <1>12, <2>2, LiveAfter, StillKnown DEF EditExpense
  <2> QED
    BY <2>1, <2>2
<1>13. ASSUME NEW w \in Editors, FindEntries(w) PROVE KnowsOf(x)'
  BY <1>1, <1>2, <1>13, LiveAfter DEF FindEntries, KnowsOf
<1>14. ASSUME NEW w \in Editors, VoidFound(w) PROVE KnowsOf(x)'
  <2>1. PICK i \in found[w] : Voids(i) /\ found' = [found EXCEPT ![w] = @ \ {i}]
    BY <1>14 DEF VoidFound, Voids
  <2>2. i \in DOMAIN book
    BY DEF GLInv, FoundExist
  <2>3. Live(x)' = Live(x) \ {i}
    BY <2>1, <2>2, LiveAfter
  <2>4. UNCHANGED <<expense, editor, editing, overlapped>>
    BY <1>14 DEF VoidFound
  <2> QED
    BY <1>1, <1>2, <2>1, <2>3, <2>4 DEF KnowsOf
<1>15. ASSUME NEW w \in Editors, VoidFails(w) PROVE KnowsOf(x)'
  BY <1>1, <1>2, <1>15, LiveAfter, StillKnown DEF VoidFails, Finish
<1>16. ASSUME NEW w \in Editors, PostAgain(w) PROVE KnowsOf(x)'
  <2>1. /\ UNCHANGED <<expense, overlapped>>
        /\ editor' = [editor EXCEPT ![w] = "idle"]
        /\ editing' = [editing EXCEPT ![w] = NoExpense]
        /\ found' = [found EXCEPT ![w] = {}]
    BY <1>16 DEF PostAgain, Finish
  <2>2. \A v \in Editors : OnIt(v, x)' =>
           OnIt(v, x) /\ v # w /\ editor'[v] = editor[v] /\ found'[v] = found[v]
    BY <1>1, <2>1
  <2>3. KnowsOf(x)
    BY <1>2, <2>1
  <2>4. CASE UNCHANGED book
    BY <2>1, <2>2, <2>3, <2>4, LiveAfter, StillKnown
  <2>5. CASE copy[w] # NoFigure /\ Postable(copy[w][2])
    <3>1. copy[w] \in Figures /\ editing[w] \in Expenses \cup {NoExpense}
      BY <2>5 DEF GLInv, GLTypeOK
    <3>2. /\ copy[w][1] \in [Accounts -> Int] /\ copy[w][2] \in Days
          /\ Postable(copy[w][2])
          /\ book' = Append(book, NewEntry(copy[w][2], copy[w][1], editing[w]))
      BY <1>16, <2>5, <3>1, FigureParts DEF PostAgain
    <3>3. CASE editing[w] # x
      <4>1. Live(x)' = Live(x)
        BY <3>1, <3>2, <3>3, LiveOfOthers
      <4> QED
        BY <2>1, <2>2, <2>3, <4>1, StillKnown
    <3>4. CASE editing[w] = x
      <4>1. OnIt(w, x)
        BY <1>16, <3>4 DEF PostAgain, Cleared
      <4>2. Live(x) = {}
        BY <1>16, <2>3, <4>1 DEF PostAgain, Cleared, KnowsOf
      <4>3. \A v \in Editors : ~OnIt(v, x)'
        BY <2>2, <2>3, <4>1 DEF KnowsOf
      <4>4. Live(x)' = {Len(book) + 1}
        BY <3>1, <3>2, <3>4, <4>2, LiveAfterNew
      <4>5. expense'[x] \notin {"none", "SUBMITTED", "REJECTED"}
        BY <2>1, <2>3, <4>1 DEF KnowsOf
      <4> QED
        BY <4>3, <4>4, <4>5 DEF KnowsOf
    <3> QED
      BY <3>3, <3>4
  <2> QED
    BY <1>16, <2>4, <2>5 DEF PostAgain
<1>17. ASSUME NEW w \in Editors, EditorDies(w) PROVE KnowsOf(x)'
  BY <1>1, <1>2, <1>17, LiveAfter, StillKnown DEF EditorDies, Finish
<1> QED
  BY <1>3, <1>4, <1>5, <1>6, <1>7, <1>8, <1>9, <1>10, <1>11, <1>12, <1>13, <1>14,
     <1>15, <1>16, <1>17
  DEF GLNext, glVars, NextDay, CreatePeriod, ReviewPeriod, ClosePeriod,
      ReopenPeriod, DeletePeriod

\* The ledger is empty at the start.
LEMMA GLInitInv == GLInit => GLInv
<1> SUFFICES ASSUME GLInit PROVE GLInv
  OBVIOUS
<1>1. book \in Seq(Entry) /\ DOMAIN book = {} /\ (\A x : Live(x) = {}) /\ (\A p : EntriesIn(p) = {})
  BY DEF GLInit, Live, EntriesIn
<1>2. GLTypeOK /\ HasFigure /\ FoundExist
  <2>1. NoReview \in [status : {"none", "signed", "stale"}, saw : Nat \X Nat]
    BY DEF NoReview
  <2>2. figure \in [Expenses -> Figures \cup {NoFigure}]
    BY DEF GLInit
  <2> QED
    BY <1>1, <2>1, <2>2 DEF GLInit, GLTypeOK, HasFigure, FoundExist
<1>3. ReversalsExist /\ ReversedOnce
  BY <1>1 DEF ReversalsExist, ReversedOnce
<1>4. ClosedAsFiled /\ YearIsCleared
  BY LedgerConstants DEF GLInit, ClosedAsFiled, YearIsCleared
<1>5. OneEditorKnows
  BY <1>1 DEF GLInit, OneEditorKnows, KnowsOf, OnIt
<1> QED
  BY <1>2, <1>3, <1>4, <1>5 DEF GLInv

\* Every state has the inductive invariant.
THEOREM GLInvariant == GLSpec => []GLInv
<1>1. GLInv /\ [GLNext]_glVars => GLInv'
  BY GLTypeStep, HasFigureStep, FoundExistStep, ReversalsExistStep, ClosedAsFiledStep,
     YearStep, ReversedOnceStep, OneEditorKnowsStep
  DEF GLInv
<1> QED
  BY GLInitInv, <1>1, PTL DEF GLSpec

\* Every variable keeps its type.
THEOREM LedgerTypeCorrect == GLSpec => []GLTypeOK
BY GLInvariant, PTL DEF GLInv

\* A closed period holds what it was filed with.
THEOREM ClosedPeriodsStay == GLSpec => []ClosedAsFiled
BY GLInvariant, PTL DEF GLInv

\* A closed year has nothing left on its accounts.
THEOREM ClosedYearsCleared == GLSpec => []YearIsCleared
BY GLInvariant, PTL DEF GLInv

\* An entry is reversed once, exactly, and only when it is voided.
THEOREM EntriesReversedOnce == GLSpec => []ReversedOnce
BY GLInvariant, PTL DEF GLInv

\* Only overlapping requests double an expense.
THEOREM OnlyOverlapDoubles == GLSpec => []DoubledByOverlap
<1>1. GLInv => DoubledByOverlap
  <2> SUFFICES ASSUME GLInv, NEW x \in Expenses, x \notin overlapped
               PROVE  ~(Cardinality(Live(x)) > 1)
    BY DEF DoubledByOverlap
  <2>1. \A i, j \in Live(x) : i = j
    BY DEF GLInv, OneEditorKnows, KnowsOf
  <2>2. CASE Live(x) = {}
    BY <2>2, FS_EmptySet
  <2>3. CASE Live(x) # {}
    <3>1. PICK i : Live(x) = {i}
      BY <2>1, <2>3
    <3> QED
      BY <3>1, FS_Singleton
  <2> QED
    BY <2>2, <2>3
<1> QED
  BY GLInvariant, <1>1, PTL

--------------------------------------------------------------------------------
(* VAT periods                                                             *)

\* A close past the lock holds the row.
OneCloser == \A c \in Closers : closer[c] \in {"compute", "post", "save"} => row = c

\* Nothing that is not voided exists while a close is about to post.
NoneBeforePosting == \A c \in Closers : closer[c] = "post" => AdjustmentsFound = {}

\* What the ledger holds for the period, while nothing is voided.
Held == IF DOMAIN entries = {} THEN 0 ELSE restricted

\* A close that is past the lookup works on an open period.  While nobody has
\* meddled, every entry stands and is what the documents come to, and what a
\* close is about to save, or has saved, is what the ledger holds.
Undisturbed ==
    /\ \A i \in DOMAIN entries : Standing(i) /\ entries[i].amount = restricted
    /\ \A c \in Closers : closer[c] = "save" => computed[c] = Held
    /\ vat = "closed" => recorded = Held

AsComputed ==
    /\ \A c \in Closers : closer[c] \in {"post", "save"} => vat = "open"
    /\ ~meddled => Undisturbed

VatInv ==
    /\ VatTypeOK
    /\ OneCloser
    /\ NoneBeforePosting
    /\ AdjustedOnce
    /\ AsComputed

\* What voiding entry i makes of the entries: i is voided, and a reversal is
\* added at the end.
LEMMA VoidedEntries ==
    ASSUME NEW i \in DOMAIN entries, VatTypeOK, VoidAdjustment(i)
    PROVE  /\ entries' \in Seq(Adjustment)
           /\ Len(entries') = Len(entries) + 1
           /\ entries'[Len(entries) + 1].reverses = i
           /\ \A k \in DOMAIN entries :
                 /\ entries'[k].reverses = entries[k].reverses
                 /\ entries'[k].voided = (entries[k].voided \/ k = i)
<1> DEFINE marked == [entries EXCEPT ![i].voided = TRUE]
           mirror == [amount |-> -entries[i].amount, voided |-> FALSE, reverses |-> i]
<1>1. entries \in Seq(Adjustment) /\ i \in 1 .. Len(entries) /\ entries[i] \in Adjustment
  BY DEF VatTypeOK
<1>2. mirror \in Adjustment
  BY <1>1 DEF Adjustment
<1>3. [entries[i] EXCEPT !.voided = TRUE] \in Adjustment
  BY <1>1 DEF Adjustment
<1>4. marked \in Seq(Adjustment) /\ Len(marked) = Len(entries)
  BY <1>1, <1>3
<1>5. \A k \in DOMAIN entries :
         /\ marked[k].reverses = entries[k].reverses
         /\ marked[k].voided = (entries[k].voided \/ k = i)
  <2> SUFFICES ASSUME NEW k \in DOMAIN entries
               PROVE  /\ marked[k].reverses = entries[k].reverses
                      /\ marked[k].voided = (entries[k].voided \/ k = i)
    OBVIOUS
  <2>1. entries[k] \in Adjustment
    BY <1>1
  <2>2. CASE k = i
    BY <1>1, <2>1, <2>2 DEF Adjustment
  <2>3. CASE k # i
    BY <1>1, <2>1, <2>3 DEF Adjustment
  <2> QED
    BY <2>2, <2>3
<1>6. entries' = Append(marked, mirror)
  BY DEF VoidAdjustment
<1>7. \A k \in DOMAIN entries : entries'[k] = marked[k]
  BY <1>1, <1>2, <1>4, <1>6
<1>8. /\ entries' \in Seq(Adjustment)
      /\ Len(entries') = Len(entries) + 1
      /\ entries'[Len(entries) + 1] = mirror
  BY <1>1, <1>2, <1>4, <1>6
<1>9. mirror.reverses = i
  OBVIOUS
<1> HIDE DEF marked, mirror
<1> QED
  BY <1>1, <1>5, <1>7, <1>8, <1>9

\* What a posting makes of them: one entry more.
LEMMA PostedEntries ==
    ASSUME NEW c \in Closers, VatTypeOK, PostAdjustment(c)
    PROVE  /\ entries' \in Seq(Adjustment)
           /\ Len(entries') = Len(entries) + 1
           /\ \A k \in DOMAIN entries : entries'[k] = entries[k]
<1> DEFINE posted == [amount |-> computed[c], voided |-> FALSE, reverses |-> 0]
<1>1. computed[c] \in Restricted \cup {0} /\ Restricted \subseteq Nat
  BY VatConstants DEF VatTypeOK
<1>2. entries \in Seq(Adjustment)
  BY DEF VatTypeOK
<1>3. posted \in Adjustment
  <2>1. CASE computed[c] = 0
    BY <2>1 DEF Adjustment
  <2>2. CASE computed[c] \in Restricted
    <3>1. computed[c] \in Nat
      BY <1>1, <2>2
    <3> QED
      BY <3>1 DEF Adjustment
  <2> QED
    BY <1>1, <2>1, <2>2
<1>4. entries' = Append(entries, posted)
  BY DEF PostAdjustment
<1> QED
  BY <1>2, <1>3, <1>4

\* Every variable keeps its type.
LEMMA VatTypeStep == VatTypeOK /\ [VatNext]_vatVars => VatTypeOK'
<1> SUFFICES ASSUME VatTypeOK, [VatNext]_vatVars PROVE VatTypeOK'
  OBVIOUS
<1> USE VatConstants DEF VatTypeOK, closerVars
<1>1. CASE Prepare
  BY <1>1 DEF Prepare
<1>2. CASE Review
  BY <1>2 DEF Review
<1>3. CASE ReopenVat
  BY <1>3 DEF ReopenVat
<1>4. ASSUME NEW k \in Bookkeepers, CheckPeriod(k) PROVE VatTypeOK'
  BY <1>4 DEF CheckPeriod
<1>5. ASSUME NEW k \in Bookkeepers, EditDocument(k) PROVE VatTypeOK'
  BY <1>5 DEF EditDocument
<1>6. ASSUME NEW i \in DOMAIN entries, VoidAdjustment(i) PROVE VatTypeOK'
  BY <1>6, VoidedEntries DEF VoidAdjustment
<1>7. ASSUME NEW c \in Closers, RequestClose(c) PROVE VatTypeOK'
  BY <1>7 DEF RequestClose
<1>8. ASSUME NEW c \in Closers, LockRow(c) PROVE VatTypeOK'
  BY <1>8 DEF LockRow
<1>9. ASSUME NEW c \in Closers, ComputeReturn(c) PROVE VatTypeOK'
  BY <1>9 DEF ComputeReturn
<1>10. ASSUME NEW c \in Closers, PostAdjustment(c) PROVE VatTypeOK'
  BY <1>10, PostedEntries DEF PostAdjustment
<1>11. ASSUME NEW c \in Closers, SaveClose(c) PROVE VatTypeOK'
  BY <1>11 DEF SaveClose, CloserReturns
<1>12. ASSUME NEW c \in Closers, CloseFails(c) PROVE VatTypeOK'
  BY <1>12 DEF CloseFails, CloserReturns
<1>13. CASE UNCHANGED vatVars
  BY <1>13 DEF vatVars
<1> QED
  BY <1>1, <1>2, <1>3, <1>4, <1>5, <1>6, <1>7, <1>8, <1>9, <1>10, <1>11, <1>12,
     <1>13
  DEF VatNext, vatVars, closerVars

\* The row is taken when nobody holds it, and given back by who holds it.
LEMMA OneCloserStep == VatInv /\ [VatNext]_vatVars => OneCloser'
<1> SUFFICES ASSUME VatInv, [VatNext]_vatVars PROVE OneCloser'
  OBVIOUS
<1> USE VatConstants DEF VatInv, VatTypeOK, OneCloser, closerVars
<1>1. ASSUME NEW c \in Closers, RequestClose(c) PROVE OneCloser'
  BY <1>1 DEF RequestClose
<1>2. ASSUME NEW c \in Closers, LockRow(c) PROVE OneCloser'
  BY <1>2 DEF LockRow
<1>3. ASSUME NEW c \in Closers, ComputeReturn(c) PROVE OneCloser'
  BY <1>3 DEF ComputeReturn
<1>4. ASSUME NEW c \in Closers, PostAdjustment(c) PROVE OneCloser'
  BY <1>4 DEF PostAdjustment
<1>5. ASSUME NEW c \in Closers, SaveClose(c) PROVE OneCloser'
  BY <1>5 DEF SaveClose, CloserReturns
<1>6. ASSUME NEW c \in Closers, CloseFails(c) PROVE OneCloser'
  BY <1>6 DEF CloseFails, CloserReturns
<1>7. CASE UNCHANGED <<row, closer>>
  BY <1>7
<1> QED
  BY <1>1, <1>2, <1>3, <1>4, <1>5, <1>6, <1>7
  DEF VatNext, vatVars, closerVars, Prepare, Review, ReopenVat, CheckPeriod,
      EditDocument, VoidAdjustment

\* The close that looked the entries up is the only one that posts.
LEMMA NoneBeforePostingStep == VatInv /\ [VatNext]_vatVars => NoneBeforePosting'
<1> SUFFICES ASSUME VatInv, [VatNext]_vatVars PROVE NoneBeforePosting'
  OBVIOUS
<1> USE VatConstants DEF VatInv, VatTypeOK, OneCloser, NoneBeforePosting, closerVars
<1>1. ASSUME NEW i \in DOMAIN entries, VoidAdjustment(i) PROVE NoneBeforePosting'
  <2>1. i \in AdjustmentsFound
    BY <1>1 DEF VoidAdjustment, AdjustmentsFound
  <2> QED
    BY <1>1, <2>1 DEF VoidAdjustment
<1>2. ASSUME NEW c \in Closers, RequestClose(c) PROVE NoneBeforePosting'
  BY <1>2 DEF AdjustmentsFound, RequestClose
<1>3. ASSUME NEW c \in Closers, LockRow(c) PROVE NoneBeforePosting'
  BY <1>3 DEF AdjustmentsFound, LockRow
<1>4. ASSUME NEW c \in Closers, ComputeReturn(c) PROVE NoneBeforePosting'
  <2>1. UNCHANGED entries /\ (closer'[c] = "post" => AdjustmentsFound = {})
    BY <1>4 DEF ComputeReturn
  <2>2. \A d \in Closers \ {c} : closer'[d] = closer[d]
    BY <1>4 DEF ComputeReturn
  <2>3. AdjustmentsFound' = AdjustmentsFound
    BY <2>1 DEF AdjustmentsFound
  <2> QED
    BY <2>1, <2>2, <2>3
<1>5. ASSUME NEW c \in Closers, PostAdjustment(c) PROVE NoneBeforePosting'
  <2>1. \A d \in Closers : closer'[d] # "post"
    BY <1>5 DEF PostAdjustment
  <2> QED
    BY <2>1
<1>6. ASSUME NEW c \in Closers, SaveClose(c) PROVE NoneBeforePosting'
  BY <1>6 DEF AdjustmentsFound, SaveClose, CloserReturns
<1>7. ASSUME NEW c \in Closers, CloseFails(c) PROVE NoneBeforePosting'
  BY <1>7 DEF AdjustmentsFound, CloseFails, CloserReturns
<1>8. CASE UNCHANGED <<closer, entries>>
  BY <1>8 DEF AdjustmentsFound
<1> QED
  BY <1>1, <1>2, <1>3, <1>4, <1>5, <1>6, <1>7, <1>8
  DEF VatNext, vatVars, closerVars, Prepare, Review, ReopenVat, CheckPeriod,
      EditDocument

\* An adjustment is posted when no entry stands, and a reversal is none.
LEMMA AdjustedOnceStep == VatInv /\ [VatNext]_vatVars => AdjustedOnce'
<1> SUFFICES ASSUME VatInv, [VatNext]_vatVars PROVE AdjustedOnce'
  OBVIOUS
<1> USE VatConstants DEF VatInv, VatTypeOK, AdjustedOnce, closerVars
<1>1. ASSUME NEW i \in DOMAIN entries, VoidAdjustment(i) PROVE AdjustedOnce'
  <2>1. entries \in Seq(Adjustment) /\ entries' \in Seq(Adjustment)
    BY <1>1, VoidedEntries
  <2>2. /\ Len(entries') = Len(entries) + 1
        /\ entries'[Len(entries) + 1].reverses = i
        /\ \A k \in DOMAIN entries :
              /\ entries'[k].reverses = entries[k].reverses
              /\ entries'[k].voided = (entries[k].voided \/ k = i)
    BY <1>1, VoidedEntries
  <2>3. \A k \in DOMAIN entries' : k \in DOMAIN entries \/ k = Len(entries) + 1
    BY <2>1, <2>2
  <2>4. \A k \in DOMAIN entries' : k = Len(entries) + 1 => ~Standing(k)'
    BY <2>1, <2>2 DEF Standing
  <2>5. \A k \in DOMAIN entries : Standing(k)' => Standing(k)
    BY <2>2 DEF Standing
  <2> QED
    BY <2>3, <2>4, <2>5
<1>2. ASSUME NEW c \in Closers, PostAdjustment(c) PROVE AdjustedOnce'
  <2>1. /\ entries \in Seq(Adjustment)
        /\ entries' \in Seq(Adjustment)
        /\ Len(entries') = Len(entries) + 1
        /\ \A k \in DOMAIN entries : entries'[k] = entries[k]
    BY <1>2, PostedEntries
  <2>2. AdjustmentsFound = {}
    BY <1>2 DEF PostAdjustment, NoneBeforePosting
  <2>3. \A k \in DOMAIN entries : ~Standing(k)'
    BY <2>1, <2>2 DEF Standing, AdjustmentsFound
  <2>4. \A k \in DOMAIN entries' : k \in DOMAIN entries \/ k = Len(entries) + 1
    BY <2>1
  <2> QED
    BY <2>3, <2>4
<1>3. CASE UNCHANGED entries
  BY <1>3 DEF Standing
<1> QED
  BY <1>1, <1>2, <1>3
  DEF VatNext, vatVars, closerVars, Prepare, Review, ReopenVat, CheckPeriod,
      EditDocument, RequestClose, LockRow, ComputeReturn, SaveClose, CloseFails

\* The close that posts finds no entry; one that does not post has restricted
\* nothing or has found the entry.
LEMMA AsComputedStep == VatInv /\ [VatNext]_vatVars => AsComputed'
<1> SUFFICES ASSUME VatInv, [VatNext]_vatVars PROVE AsComputed'
  OBVIOUS
<1> USE VatConstants DEF VatInv, VatTypeOK, OneCloser, AsComputed, closerVars
<1>0. entries \in Seq(Adjustment) /\ (entries = <<>> <=> DOMAIN entries = {})
  BY DEF VatTypeOK
<1>1. CASE UNCHANGED <<vat, restricted, closer, computed, entries, recorded, meddled>>
  BY <1>1 DEF Undisturbed, Held, Standing
<1>2. ASSUME NEW k \in Bookkeepers, EditDocument(k) PROVE AsComputed'
  <2>1. UNCHANGED <<vat, closer, computed, entries, recorded>>
    BY <1>2 DEF EditDocument
  <2>2. ASSUME ~meddled' PROVE Undisturbed'
    <3>1. ~meddled /\ entries = <<>>
      BY <1>2, <2>2 DEF EditDocument
    <3> QED
      BY <1>0, <2>1, <3>1 DEF Undisturbed, Held
  <2> QED
    BY <2>1, <2>2
<1>3. ASSUME NEW i \in DOMAIN entries, VoidAdjustment(i) PROVE AsComputed'
  BY <1>3 DEF VoidAdjustment
<1>4. ASSUME NEW c \in Closers, RequestClose(c) PROVE AsComputed'
  BY <1>4 DEF RequestClose, Undisturbed, Held, Standing
<1>5. ASSUME NEW c \in Closers, LockRow(c) PROVE AsComputed'
  BY <1>5 DEF LockRow, Undisturbed, Held, Standing
<1>6. ASSUME NEW c \in Closers, ComputeReturn(c) PROVE AsComputed'
  <2>1. /\ UNCHANGED <<vat, restricted, entries, recorded, meddled>>
        /\ vat = "open"
        /\ closer'[c] = "save" => restricted = 0 \/ AdjustmentsFound # {}
        /\ computed'[c] = restricted
        /\ restricted = 0 => closer'[c] = "save"
    BY <1>6 DEF ComputeReturn
  <2>2. \A d \in Closers \ {c} : closer'[d] = closer[d] /\ computed'[d] = computed[d]
    BY <1>6 DEF ComputeReturn
  <2>3. ASSUME ~meddled, closer'[c] = "save" PROVE computed'[c] = Held
    <3>1. CASE DOMAIN entries = {}
      BY <2>1, <2>3, <3>1 DEF Held, AdjustmentsFound
    <3>2. CASE DOMAIN entries # {}
      BY <2>1, <3>2 DEF Held
    <3> QED
      BY <3>1, <3>2
  <2>4. ASSUME ~meddled PROVE Undisturbed'
    <3>1. Undisturbed /\ Held' = Held
      BY <2>1, <2>4 DEF Held
    <3> QED
      BY <2>1, <2>2, <2>3, <2>4, <3>1 DEF Undisturbed, Standing
  <2> QED
    BY <2>1, <2>2, <2>4
<1>7. ASSUME NEW c \in Closers, PostAdjustment(c) PROVE AsComputed'
  <2>1. /\ closer[c] = "post"
        /\ UNCHANGED <<vat, restricted, row, computed, recorded>>
        /\ entries' = Append(entries, [amount |-> computed[c], voided |-> FALSE, reverses |-> 0])
        /\ meddled' = (meddled \/ restricted # computed[c])
        /\ \A d \in Closers \ {c} : closer'[d] = closer[d]
    BY <1>7 DEF PostAdjustment
  <2>2. vat' = "open"
    BY <2>1
  <2>3. ASSUME ~meddled' PROVE Undisturbed'
    <3>1. Undisturbed /\ restricted = computed[c]
      BY <2>1, <2>3
    <3>2. DOMAIN entries = {}
      BY <2>1, <3>1 DEF Undisturbed, Standing, NoneBeforePosting, AdjustmentsFound
    <3>3. /\ DOMAIN entries' = {1}
          /\ entries'[1] = [amount |-> restricted, voided |-> FALSE, reverses |-> 0]
      <4> DEFINE e == [amount |-> computed[c], voided |-> FALSE, reverses |-> 0]
      <4>1. e \in Adjustment /\ e = [amount |-> restricted, voided |-> FALSE, reverses |-> 0]
        BY <3>1 DEF Adjustment
      <4>2. Len(entries) = 0 /\ entries' = Append(entries, e)
        BY <1>0, <2>1, <3>2
      <4> HIDE DEF e
      <4>3. /\ entries' \in Seq(Adjustment)
            /\ Len(entries') = 1
            /\ entries'[1] = e
        BY <1>0, <4>1, <4>2
      <4>4. DOMAIN entries' = {1}
        <5>1. DOMAIN entries' = 1 .. 1
          BY <4>3
        <5> QED
          BY <5>1
      <4> QED
        BY <4>1, <4>3, <4>4
    <3>4. \A i \in DOMAIN entries' : Standing(i)' /\ entries'[i].amount = restricted'
      BY <2>1, <3>3 DEF Standing
    <3>5. Held' = restricted
      BY <2>1, <3>3 DEF Held
    <3>6. \A d \in Closers : closer'[d] = "save" => d = c
      BY <2>1
    <3> QED
      BY <2>1, <2>2, <3>1, <3>4, <3>5, <3>6 DEF Undisturbed
  <2> QED
    BY <2>2, <2>3
<1>8. ASSUME NEW c \in Closers, SaveClose(c) PROVE AsComputed'
  <2>1. /\ closer[c] = "save" /\ recorded' = computed[c]
        /\ UNCHANGED <<restricted, entries, meddled>>
        /\ closer' = [closer EXCEPT ![c] = "idle"]
    BY <1>8 DEF SaveClose, CloserReturns
  <2>2. \A d \in Closers : closer'[d] \notin {"post", "save"}
    BY <2>1
  <2> QED
    BY <2>1, <2>2 DEF Undisturbed, Held, Standing
<1>9. ASSUME NEW c \in Closers, CloseFails(c) PROVE AsComputed'
  BY <1>9 DEF CloseFails, CloserReturns, Undisturbed, Held, Standing
<1>10. CASE ReopenVat
  BY <1>10 DEF ReopenVat, Undisturbed, Held, Standing
<1> QED
  BY <1>1, <1>2, <1>3, <1>4, <1>5, <1>6, <1>7, <1>8, <1>9, <1>10
  DEF VatNext, vatVars, closerVars, Prepare, Review, CheckPeriod

\* No close has begun at the start, and nothing is posted.
LEMMA VatInitInv == VatInit => VatInv
<1> SUFFICES ASSUME VatInit PROVE VatInv
  OBVIOUS
<1>1. entries \in Seq(Adjustment) /\ DOMAIN entries = {}
  BY DEF VatInit
<1>2. VatTypeOK
  BY <1>1, VatConstants DEF VatInit, VatTypeOK
<1>3. OneCloser /\ NoneBeforePosting
  BY DEF VatInit, OneCloser, NoneBeforePosting
<1>4. AdjustedOnce
  BY <1>1 DEF AdjustedOnce
<1>5. AsComputed
  BY <1>1 DEF VatInit, AsComputed, Undisturbed
<1> QED
  BY <1>2, <1>3, <1>4, <1>5 DEF VatInv

\* Every state has the inductive invariant.
THEOREM VatInvariant == VatSpec => []VatInv
<1>1. VatInv /\ [VatNext]_vatVars => VatInv'
  BY VatTypeStep, OneCloserStep, NoneBeforePostingStep, AdjustedOnceStep, AsComputedStep
  DEF VatInv
<1> QED
  BY VatInitInv, <1>1, PTL DEF VatSpec

\* Every variable keeps its type.
THEOREM VatTypeCorrect == VatSpec => []VatTypeOK
BY VatInvariant, PTL DEF VatInv

\* At most one adjustment of the period stands, whatever fails or overlaps.
THEOREM AdjustmentPostedOnce == VatSpec => []AdjustedOnce
BY VatInvariant, PTL DEF VatInv

\* While nobody changes a document or voids an entry after a posting, what a
\* closed period records as its adjustment is what the ledger holds of it.
THEOREM AdjustmentIsRecorded == VatSpec => []AdjustmentStands
<1>1. VatInv => AdjustmentStands
  <2> SUFFICES ASSUME VatInv, vat = "closed", ~meddled
               PROVE  SumFunctionOnSet(Amounts, DOMAIN entries) = recorded
    BY DEF AdjustmentStands
  <2>1. Undisturbed /\ recorded = Held
    BY DEF VatInv, AsComputed, Undisturbed
  <2>2. CASE DOMAIN entries = {}
    BY <2>1, <2>2, SumEmpty DEF Held
  <2>3. CASE DOMAIN entries # {}
    <3>1. entries \in Seq(Adjustment)
      BY DEF VatInv, VatTypeOK
    <3>2. 1 \in DOMAIN entries
      BY <2>3, <3>1
    <3>3. DOMAIN entries = {} \cup {1}
      BY <2>1, <3>2 DEF Undisturbed, VatInv, AdjustedOnce
    <3>4. Amounts[1] = restricted /\ recorded = restricted
      BY <2>1, <2>3, <3>2 DEF Amounts, Undisturbed, Held
    <3>5. restricted \in Int
      BY VatConstants DEF VatInv, VatTypeOK
    <3>6. SumFunctionOnSet(Amounts, {} \cup {1}) = Amounts[1] + SumFunctionOnSet(Amounts, {})
      BY <3>4, <3>5, FS_EmptySet, SumAdd
    <3> QED
      BY <3>3, <3>4, <3>5, <3>6, SumEmpty
  <2> QED
    BY <2>2, <2>3
<1> QED
  BY VatInvariant, <1>1, PTL
================================================================================

----------------------------- MODULE GeneralLedger -----------------------------
(***************************************************************************)
(* The general ledger of one tenant: entries, their voiding by a mirror    *)
(* entry, the periods that are reviewed, closed and reopened, and the      *)
(* expenses that post here and are reversed and posted again when edited.  *)
(*                                                                         *)
(* post, voidEntry and the close hold the advisory lock gl:<tenant> to the *)
(* end of their transaction, so each is one step.  An expense edit is not: *)
(* it changes the row, looks for its entries, voids each, and posts the    *)
(* new figures, all in transactions of their own.  An editor is one such   *)
(* request.  An entry is kept by what it does to the revenue and expense   *)
(* accounts; the balance sheet side is implied.                            *)
(***************************************************************************)
EXTENDS Integers, Sequences, FiniteSets, Functions

CONSTANTS
    Days,        \* dates, as an interval of numbers
    Accounts,    \* revenue and expense accounts
    Moves,       \* what one expense may do to them
    Periods,     \* possible rows of gl_periods
    Years,       \* those of period_type YEAR
    PeriodDays,  \* the dates of a period
    LastDay,     \* its period_end
    Expenses,
    NoExpense,   \* source_id of an entry that is not an expense's
    Editors,
    NoFigure,    \* the copy of an editor that deletes
    MaxEntries   \* bound on the ledger

Figures == Moves \X Days

ASSUME LedgerConstants ==
    /\ Days \subseteq Nat
    /\ Days # {}
    /\ Moves \subseteq [Accounts -> Int]
    /\ Years \subseteq Periods
    /\ PeriodDays \in [Periods -> SUBSET Days]
    /\ LastDay \in [Periods -> Days]
    /\ \A p \in Periods : LastDay[p] \in PeriodDays[p]
    /\ NoExpense \notin Expenses
    /\ NoFigure \notin Figures
    /\ MaxEntries \in Nat

VARIABLES
    book,        \* journal_entries, in the order of their numbers
    today,       \* the date a reversal is posted at
    period,      \* "none", or gl_periods.status
    review,      \* the latest sign-off: its status and what it saw
    filed,       \* the entries a close left in the period, by number
    expense,     \* "none", finance_expenses.status, or "deleted"
    figure,      \* its figures
    editor,      \* where each editor is
    editing,     \* its expense
    copy,        \* the figures it has to post
    found,       \* the entries it has to void
    overlapped   \* history: expenses two editors worked on at a time

periodVars  == <<period, review, filed>>
expenseVars == <<expense, figure>>
editorVars  == <<editor, editing, copy, found, overlapped>>
glVars      == <<book, today, periodVars, expenseVars, editorVars>>

NoReview == [status |-> "none", saw |-> <<0, 0>>]

Entry == [day : Days, moves : [Accounts -> Int], source : Expenses \cup {NoExpense},
          reverses : Nat, voided : BOOLEAN]

GLInit ==
    /\ book = <<>>
    /\ today \in {d \in Days : \A e \in Days : d <= e}
    /\ period     = [p \in Periods |-> "none"]
    /\ review     = [p \in Periods |-> NoReview]
    /\ filed      = [p \in Periods |-> {}]
    /\ expense    = [x \in Expenses |-> "none"]
    /\ figure     \in [Expenses -> {NoFigure}]
    /\ editor     = [w \in Editors |-> "idle"]
    /\ editing    = [w \in Editors |-> NoExpense]
    /\ copy       = [w \in Editors |-> NoFigure]
    /\ found      = [w \in Editors |-> {}]
    /\ overlapped = {}

NextDay ==
    /\ today + 1 \in Days
    /\ today' = today + 1
    /\ UNCHANGED <<book, periodVars, expenseVars, editorVars>>
--------------------------------------------------------------------------------
(* Posting and voiding                                                     *)

\* The one check every posting passes.
Postable(d) == \A p \in Periods : period[p] = "closed" => d \notin PeriodDays[p]

Room == Len(book) < MaxEntries

NewEntry(d, m, x) ==
    [day |-> d, moves |-> m, source |-> x, reverses |-> 0, voided |-> FALSE]

\* A mutated Mirror: the reversal is dated like the entry it reverses.
MirrorOnItsDay(i) ==
    [NewEntry(book[i].day, [a \in Accounts |-> -book[i].moves[a]], book[i].source)
        EXCEPT !.reverses = i]

\* The reversal: debit and credit swapped, same source, tagged, and dated today.
Mirror(i) ==
    [NewEntry(today, [a \in Accounts |-> -book[i].moves[a]], book[i].source)
        EXCEPT !.reverses = i]

\* A mutated Voidable: whether the entry is voided is not read again.
VoidableUnread(i) == Postable(today)

Voidable(i) == ~book[i].voided /\ Postable(today)

Voided(i) == Append([book EXCEPT ![i].voided = TRUE], Mirror(i))

\* POST /journal-entries, and every other source of entries.
PostJournal(d, m) ==
    /\ Room
    /\ Postable(d)
    /\ book' = Append(book, NewEntry(d, m, NoExpense))
    /\ UNCHANGED <<today, periodVars, expenseVars, editorVars>>

VoidJournal(i) ==
    /\ Room
    /\ Voidable(i)
    /\ book' = Voided(i)
    /\ UNCHANGED <<today, periodVars, expenseVars, editorVars>>
--------------------------------------------------------------------------------
(* Periods                                                                 *)

EntriesIn(p) == {i \in DOMAIN book : book[i].day \in PeriodDays[p]}

MovesOn(a)  == [i \in DOMAIN book |-> book[i].moves[a]]
Total(p, a) == SumFunctionOnSet(MovesOn(a), EntriesIn(p))

\* What closeDiagnostics sees of the ledger: entries, and when one last changed.
Diagnostics(p) ==
    <<Cardinality(EntriesIn(p)), Cardinality({i \in EntriesIn(p) : book[i].voided})>>

CreatePeriod(p) ==
    /\ period[p] = "none"
    /\ period' = [period EXCEPT ![p] = "open"]
    /\ UNCHANGED <<book, today, review, filed, expenseVars, editorVars>>

\* An expense that waits for its approval blocks the sign-off and the close.
Blocked(p) == \E x \in Expenses : expense[x] = "SUBMITTED" /\ figure[x][2] \in PeriodDays[p]

ReviewPeriod(p) ==
    /\ period[p] = "open"
    /\ ~Blocked(p)
    /\ review' = [review EXCEPT ![p] = [status |-> "signed", saw |-> Diagnostics(p)]]
    /\ UNCHANGED <<book, today, period, filed, expenseVars, editorVars>>

\* A mutated ClosingMoves: voided entries are left out, their reversals are not.
ClosingMovesOfLive(p) ==
    [a \in Accounts |-> -SumFunctionOnSet(MovesOn(a), {i \in EntriesIn(p) : ~book[i].voided})]

\* The close of a year moves what is left on each account to retained earnings.
ClosingMoves(p) == [a \in Accounts |-> -Total(p, a)]

Reviewed(p) == review[p].status = "signed" /\ review[p].saw = Diagnostics(p)

\* The close of a month, or of a year without movement, only locks.
LocksOnly(p) ==
    \/ p \notin Years
    \/ \A i \in EntriesIn(p), a \in Accounts : book[i].moves[a] = 0

ClosePeriod(p) ==
    /\ period[p] = "open"
    /\ Reviewed(p)
    /\ ~Blocked(p)
    /\ LocksOnly(p)
    /\ period' = [period EXCEPT ![p] = "closed"]
    /\ filed' = [filed EXCEPT ![p] = EntriesIn(p)]
    /\ UNCHANGED <<book, today, review, expenseVars, editorVars>>

\* The closing entry passes post's own checks: its day, and that it has a line.
CloseYear(p) ==
    /\ period[p] = "open"
    /\ Reviewed(p)
    /\ ~Blocked(p)
    /\ ~LocksOnly(p)
    /\ Room
    /\ Postable(LastDay[p])
    /\ \E a \in Accounts : ClosingMoves(p)[a] # 0
    /\ book' = Append(book, NewEntry(LastDay[p], ClosingMoves(p), NoExpense))
    /\ period' = [period EXCEPT ![p] = "closed"]
    /\ filed' = [filed EXCEPT ![p] = EntriesIn(p) \cup {Len(book) + 1}]
    /\ UNCHANGED <<today, review, expenseVars, editorVars>>

\* The status was read without a lock: the reopening may come when another one
\* has reopened the period, and again outdates the sign-off.
ReopenPeriod(p) ==
    /\ period[p] = "closed" \/ review[p].status = "stale" \/ filed[p] # {}
    /\ period[p] # "none"
    /\ period' = [period EXCEPT ![p] = "open"]
    /\ review' = [review EXCEPT ![p].status = "stale"]
    /\ UNCHANGED <<book, today, filed, expenseVars, editorVars>>

\* Never closed, and not referred to by a sign-off.
DeletePeriod(p) ==
    /\ period[p] = "open"
    /\ review[p] = NoReview
    /\ period' = [period EXCEPT ![p] = "none"]
    /\ UNCHANGED <<book, today, review, filed, expenseVars, editorVars>>
--------------------------------------------------------------------------------
(* Expenses                                                                *)

SubmitExpense(x, f) ==
    /\ expense[x] = "none"
    /\ expense' = [expense EXCEPT ![x] = "SUBMITTED"]
    /\ figure' = [figure EXCEPT ![x] = f]
    /\ UNCHANGED <<book, today, periodVars, editorVars>>

ApproveExpense(x) ==
    /\ expense[x] = "SUBMITTED"
    /\ Room
    /\ Postable(figure[x][2])
    /\ book' = Append(book, NewEntry(figure[x][2], figure[x][1], x))
    /\ expense' = [expense EXCEPT ![x] = "APPROVED"]
    /\ UNCHANGED <<today, periodVars, figure, editorVars>>

RejectExpense(x) ==
    /\ expense[x] = "SUBMITTED"
    /\ expense' = [expense EXCEPT ![x] = "REJECTED"]
    /\ UNCHANGED <<book, today, periodVars, figure, editorVars>>

Start(w, x, f, at) ==
    /\ editor' = [editor EXCEPT ![w] = at]
    /\ editing' = [editing EXCEPT ![w] = x]
    /\ copy' = [copy EXCEPT ![w] = f]
    /\ found' = [found EXCEPT ![w] = {}]
    /\ overlapped' = IF \E v \in Editors : editor[v] # "idle" /\ editing[v] = x
                        THEN overlapped \cup {x} ELSE overlapped

Finish(w) ==
    /\ editor' = [editor EXCEPT ![w] = "idle"]
    /\ editing' = [editing EXCEPT ![w] = NoExpense]
    /\ copy' = [copy EXCEPT ![w] = NoFigure]
    /\ found' = [found EXCEPT ![w] = {}]
    /\ UNCHANGED overlapped

\* Without approval a new expense is APPROVED and then posted.
RecordExpense(w, x, f) ==
    /\ editor[w] = "idle"
    /\ expense[x] = "none"
    /\ expense' = [expense EXCEPT ![x] = "APPROVED"]
    /\ figure' = [figure EXCEPT ![x] = f]
    /\ Start(w, x, f, "post")
    /\ UNCHANGED <<book, today, periodVars>>

EditExpense(w, x, f) ==
    /\ editor[w] = "idle"
    /\ expense[x] \in {"SUBMITTED", "APPROVED", "REJECTED"}
    /\ figure' = [figure EXCEPT ![x] = f]
    /\ IF expense[x] = "APPROVED" THEN Start(w, x, f, "find")
                                  ELSE UNCHANGED editorVars
    /\ UNCHANGED <<book, today, periodVars, expense>>

DeleteExpense(w, x) ==
    /\ editor[w] = "idle"
    /\ expense[x] \in {"SUBMITTED", "APPROVED", "REJECTED"}
    /\ expense' = [expense EXCEPT ![x] = "deleted"]
    /\ Start(w, x, NoFigure, "find")
    /\ UNCHANGED <<book, today, periodVars, figure>>

\* The entries reverseBySource finds.
Live(x) == {i \in DOMAIN book :
               book[i].source = x /\ ~book[i].voided /\ book[i].reverses = 0}

FindEntries(w) ==
    /\ editor[w] = "find"
    /\ found' = [found EXCEPT ![w] = Live(editing[w])]
    /\ editor' = [editor EXCEPT ![w] = "void"]
    /\ UNCHANGED <<book, today, periodVars, expenseVars, editing, copy, overlapped>>

VoidFound(w) ==
    /\ editor[w] = "void"
    /\ Room
    /\ \E i \in found[w] :
          /\ Voidable(i)
          /\ book' = Voided(i)
          /\ found' = [found EXCEPT ![w] = @ \ {i}]
    /\ UNCHANGED <<today, periodVars, expenseVars, editor, editing, copy, overlapped>>

\* voidEntry throws: another editor was first, or today is closed.  The error
\* is logged and nothing is posted again.
VoidFails(w) ==
    /\ editor[w] = "void"
    /\ \E i \in found[w] : ~Voidable(i)
    /\ Finish(w)
    /\ UNCHANGED <<book, today, periodVars, expenseVars>>

\* A mutated Cleared: the new figures do not wait for the reversals.
ClearedAtOnce(w) == editor[w] = "void"

Cleared(w) == editor[w] = "void" /\ found[w] = {}

PostAgain(w) ==
    /\ Cleared(w) \/ editor[w] = "post"
    /\ IF copy[w] # NoFigure /\ Postable(copy[w][2])
          THEN Room /\ book' = Append(book, NewEntry(copy[w][2], copy[w][1], editing[w]))
          ELSE UNCHANGED book
    /\ Finish(w)
    /\ UNCHANGED <<today, periodVars, expenseVars>>

EditorDies(w) ==
    /\ editor[w] # "idle"
    /\ Finish(w)
    /\ UNCHANGED <<book, today, periodVars, expenseVars>>
--------------------------------------------------------------------------------
GLNext ==
    \/ NextDay
    \/ \E d \in Days, m \in Moves : PostJournal(d, m)
    \/ \E i \in DOMAIN book : VoidJournal(i)
    \/ \E p \in Periods : \/ CreatePeriod(p) \/ ReviewPeriod(p) \/ ClosePeriod(p)
                          \/ CloseYear(p) \/ ReopenPeriod(p) \/ DeletePeriod(p)
    \/ \E x \in Expenses : ApproveExpense(x) \/ RejectExpense(x)
    \/ \E x \in Expenses, f \in Figures : SubmitExpense(x, f)
    \/ \E w \in Editors, x \in Expenses :
          \/ DeleteExpense(w, x)
          \/ \E f \in Figures : RecordExpense(w, x, f) \/ EditExpense(w, x, f)
    \/ \E w \in Editors : \/ FindEntries(w) \/ VoidFound(w) \/ VoidFails(w)
                          \/ PostAgain(w) \/ EditorDies(w)

GLSpec == GLInit /\ [][GLNext]_glVars
--------------------------------------------------------------------------------
GLTypeOK ==
    /\ book \in Seq(Entry)
    /\ today \in Days
    /\ period \in [Periods -> {"none", "open", "closed"}]
    /\ review \in [Periods -> [status : {"none", "signed", "stale"}, saw : Nat \X Nat]]
    /\ filed \in [Periods -> SUBSET Nat]
    /\ expense \in [Expenses -> {"none", "SUBMITTED", "APPROVED", "REJECTED", "deleted"}]
    /\ figure \in [Expenses -> Figures \cup {NoFigure}]
    /\ editor \in [Editors -> {"idle", "find", "void", "post"}]
    /\ editing \in [Editors -> Expenses \cup {NoExpense}]
    /\ copy \in [Editors -> Figures \cup {NoFigure}]
    /\ found \in [Editors -> SUBSET Nat]
    /\ overlapped \subseteq Expenses

\* A closed period holds the entries it was filed with, the closing entry
\* included, and no other: nothing that is posted, voided, re-posted or closed
\* elsewhere falls into it.
ClosedAsFiled == \A p \in Periods : period[p] = "closed" => EntriesIn(p) = filed[p]

\* A closed year has nothing left on its accounts, however often it was
\* reopened, posted to and closed again.
YearIsCleared ==
    \A p \in Years : period[p] = "closed" => \A a \in Accounts : Total(p, a) = 0

\* An entry is reversed once, by its exact mirror, if and only if it is voided:
\* two editors that found it, or an editor and a voiding by hand, do not both
\* reverse it.
ReversedOnce ==
    /\ \A i \in DOMAIN book : book[i].voided <=> \E j \in DOMAIN book : book[j].reverses = i
    /\ \A i, j \in DOMAIN book : book[i].reverses = book[j].reverses /\ book[i].reverses # 0 => i = j
    /\ \A i \in DOMAIN book : book[i].reverses # 0 =>
          \A a \in Accounts : book[i].moves[a] = -book[book[i].reverses].moves[a]

\* An expense is in the ledger twice only when two requests worked on it at a
\* time: neither a request that died nor one that was refused leaves it doubled.
DoubledByOverlap == \A x \in Expenses : Cardinality(Live(x)) > 1 => x \in overlapped

\* "a changed amount/category/direction never double-counts in P&L"
NeverDoubleCounts == \A x \in Expenses : Cardinality(Live(x)) <= 1
================================================================================

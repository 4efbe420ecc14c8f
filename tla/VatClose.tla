-------------------------------- MODULE VatClose --------------------------------
(***************************************************************************)
(* One VAT period: its preparation and approval, the close that files the  *)
(* return and posts the partial-exemption adjustment, and its reopening.   *)
(*                                                                         *)
(* The close holds the row of the period (taxPreparationContext locks it)  *)
(* but posts the adjustment in a transaction of its own, which survives a  *)
(* close that fails afterwards.  Documents of the period are changed under *)
(* no lock at all: an edit checks that the period is open and writes       *)
(* later.  All that is kept of the documents is the input tax the period   *)
(* restricts.                                                              *)
(***************************************************************************)
EXTENDS Integers, Sequences, Functions

CONSTANTS
    Restricted,   \* amounts of restricted input tax
    Closers,      \* requests to close the period in progress
    Bookkeepers,  \* edits of a document in progress
    NoCloser,     \* the row of the period is not locked
    MaxAdjustments \* bound on the entries of the period

ASSUME VatConstants ==
    /\ Restricted \subseteq Nat
    /\ NoCloser \notin Closers
    /\ MaxAdjustments \in Nat

VARIABLES
    vat,          \* status of the period
    restricted,   \* what its documents come to now
    preparation,  \* the preparation of these very documents
    row,          \* who holds the row of the period
    closer,       \* where each close is
    computed,     \* the restricted amount it has computed
    entries,      \* journal entries with this period as their source
    recorded,     \* adjustment_amount
    bookkeeper,   \* "idle", or "checked" once it has seen the period open
    meddled       \* history: documents changed or an entry voided, after a posting

closerVars == <<closer, computed>>
vatVars    == <<vat, restricted, preparation, row, closerVars, entries, recorded,
                bookkeeper, meddled>>

VatInit ==
    /\ vat = "open"
    /\ restricted \in Restricted
    /\ preparation = "none"
    /\ row = NoCloser
    /\ closer   = [c \in Closers |-> "idle"]
    /\ computed = [c \in Closers |-> 0]
    /\ entries = <<>>
    /\ recorded = 0
    /\ bookkeeper = [k \in Bookkeepers |-> "idle"]
    /\ meddled = FALSE
--------------------------------------------------------------------------------
(* Preparation: the row is locked and the status read under the lock       *)

Prepare ==
    /\ row = NoCloser
    /\ vat = "open"
    /\ preparation' = "prepared"
    /\ UNCHANGED <<vat, restricted, row, closerVars, entries, recorded, bookkeeper, meddled>>

Review ==
    /\ row = NoCloser
    /\ vat = "open"
    /\ preparation = "prepared"
    /\ preparation' \in {"approved", "none"}
    /\ UNCHANGED <<vat, restricted, row, closerVars, entries, recorded, bookkeeper, meddled>>
--------------------------------------------------------------------------------
(* Documents and their ledger                                              *)

CheckPeriod(k) ==
    /\ bookkeeper[k] = "idle"
    /\ vat = "open"
    /\ bookkeeper' = [bookkeeper EXCEPT ![k] = "checked"]
    /\ UNCHANGED <<vat, restricted, preparation, row, closerVars, entries, recorded, meddled>>

\* The write comes whatever has become of the period.  Its updated_at makes
\* the hash of every preparation outdated.
EditDocument(k) ==
    /\ bookkeeper[k] = "checked"
    /\ bookkeeper' = [bookkeeper EXCEPT ![k] = "idle"]
    /\ restricted' \in Restricted
    /\ preparation' = "none"
    /\ meddled' = (meddled \/ entries # <<>>)
    /\ UNCHANGED <<vat, row, closerVars, entries, recorded>>

\* POST /journal-entries/:id/void; the reversal has the same source.
VoidAdjustment(i) ==
    /\ Len(entries) < MaxAdjustments
    /\ ~entries[i].voided
    /\ entries' = Append([entries EXCEPT ![i].voided = TRUE],
                         [amount |-> -entries[i].amount, voided |-> FALSE, reverses |-> i])
    /\ meddled' = TRUE
    /\ UNCHANGED <<vat, restricted, preparation, row, closerVars, recorded, bookkeeper>>
--------------------------------------------------------------------------------
(* The close                                                               *)

CloserReturns(c) ==
    /\ closer' = [closer EXCEPT ![c] = "idle"]
    /\ computed' = [computed EXCEPT ![c] = 0]

RequestClose(c) ==
    /\ closer[c] = "idle"
    /\ vat = "open"
    /\ closer' = [closer EXCEPT ![c] = "lock"]
    /\ UNCHANGED <<vat, restricted, preparation, row, computed, entries, recorded,
                   bookkeeper, meddled>>

LockRow(c) ==
    /\ closer[c] = "lock"
    /\ row = NoCloser
    /\ preparation = "approved"
    /\ row' = c
    /\ closer' = [closer EXCEPT ![c] = "compute"]
    /\ UNCHANGED <<vat, restricted, preparation, computed, entries, recorded, bookkeeper,
                   meddled>>

\* A mutated AdjustmentsFound: an earlier posting is not looked for.
NothingFound == {}

\* Entries of the period that are not voided -- reversals are among them.
AdjustmentsFound == {i \in DOMAIN entries : ~entries[i].voided}

\* closeVatPeriod reads the status again, now with the row locked.
ComputeReturn(c) ==
    /\ closer[c] = "compute"
    /\ vat = "open"
    /\ computed' = [computed EXCEPT ![c] = restricted]
    /\ closer' = [closer EXCEPT ![c] =
          IF restricted > 0 /\ AdjustmentsFound = {} THEN "post" ELSE "save"]
    /\ UNCHANGED <<vat, restricted, preparation, row, entries, recorded, bookkeeper, meddled>>

\* A transaction of its own: it commits at once.
PostAdjustment(c) ==
    /\ closer[c] = "post"
    /\ Len(entries) < MaxAdjustments
    /\ entries' = Append(entries, [amount |-> computed[c], voided |-> FALSE, reverses |-> 0])
    /\ meddled' = (meddled \/ restricted # computed[c])
    /\ closer' = [closer EXCEPT ![c] = "save"]
    /\ UNCHANGED <<vat, restricted, preparation, row, computed, recorded, bookkeeper>>

SaveClose(c) ==
    /\ closer[c] = "save"
    /\ vat' = "closed"
    /\ recorded' = computed[c]
    /\ row' = NoCloser
    /\ CloserReturns(c)
    /\ UNCHANGED <<restricted, preparation, entries, bookkeeper, meddled>>

\* A 409, a posting that is refused, a commit that fails, a process that dies:
\* the transaction rolls back, but not the adjustment.
CloseFails(c) ==
    /\ closer[c] # "idle"
    /\ row' = IF row = c THEN NoCloser ELSE row
    /\ CloserReturns(c)
    /\ UNCHANGED <<vat, restricted, preparation, entries, recorded, bookkeeper, meddled>>

\* The snapshot and the adjustment stay.
ReopenVat ==
    /\ vat = "closed"
    /\ row = NoCloser
    /\ vat' = "open"
    /\ UNCHANGED <<restricted, preparation, row, closerVars, entries, recorded, bookkeeper, meddled>>
--------------------------------------------------------------------------------
VatNext ==
    \/ Prepare \/ Review \/ ReopenVat
    \/ \E k \in Bookkeepers : CheckPeriod(k) \/ EditDocument(k)
    \/ \E i \in DOMAIN entries : VoidAdjustment(i)
    \/ \E c \in Closers : \/ RequestClose(c) \/ LockRow(c) \/ ComputeReturn(c)
                          \/ PostAdjustment(c) \/ SaveClose(c) \/ CloseFails(c)

VatSpec == VatInit /\ [][VatNext]_vatVars
--------------------------------------------------------------------------------
Adjustment == [amount : Int, voided : BOOLEAN, reverses : Nat]

VatTypeOK ==
    /\ vat \in {"open", "closed"}
    /\ restricted \in Restricted
    /\ preparation \in {"none", "prepared", "approved"}
    /\ row \in Closers \cup {NoCloser}
    /\ closer \in [Closers -> {"idle", "lock", "compute", "post", "save"}]
    /\ computed \in [Closers -> Restricted \cup {0}]
    /\ entries \in Seq(Adjustment)
    /\ recorded \in Restricted \cup {0}
    /\ bookkeeper \in [Bookkeepers -> {"idle", "checked"}]
    /\ meddled \in BOOLEAN

Standing(i) == entries[i].reverses = 0 /\ ~entries[i].voided

\* "a close that fails after posting can be retried without double-posting the
\* adjustment": whatever fails, overlaps or is reopened, there is at most one
\* adjustment that is not voided.
AdjustedOnce == \A i, j \in DOMAIN entries : Standing(i) /\ Standing(j) => i = j

\* What each entry puts on the account, by its position.
Amounts == [i \in DOMAIN entries |-> entries[i].amount]

\* While nobody changes a document or voids an entry after the first posting,
\* what a closed period records as its adjustment is what the ledger holds.
AdjustmentStands ==
    vat = "closed" /\ ~meddled =>
        SumFunctionOnSet(Amounts, DOMAIN entries) = recorded
================================================================================

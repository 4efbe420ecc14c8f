------------------------------- MODULE StockLedger -------------------------------
(***************************************************************************)
(* The stock of one item (one batch): movements, the reservations of jobs  *)
(* (finance_stock_allocations), the quality hold of the batch, and a stock *)
(* count that is posted as corrections.                                    *)
(*                                                                         *)
(* A clerk is one request, that is one transaction; it is cut where it     *)
(* waits for a lock and between what it reads and what it writes.  Every   *)
(* movement and reservation locks the row of the item; what concerns a job *)
(* locks the job first, and then the allocation.  A cancelled job and a    *)
(* quality hold change allocations without the lock of the item, and the   *)
(* count reads its session without any.                                    *)
(***************************************************************************)
EXTENDS Integers, FiniteSets, Functions

CONSTANTS
    Locations,
    Allocations,   \* possible rows of finance_stock_allocations
    Jobs,          \* rows of finance_industry_work
    JobOf,         \* the job of an allocation
    PlaceOf,       \* its location
    Quantities,    \* positive quantities
    Clerks,
    NoAllocation,  \* a request that concerns none
    NoClerk,       \* a lock is free
    MaxStock       \* bound on the stock of a location

ASSUME StockConstants ==
    /\ JobOf \in [Allocations -> Jobs]
    /\ PlaceOf \in [Allocations -> Locations]
    /\ Quantities \subseteq Nat \ {0}
    /\ NoClerk \notin Clerks
    /\ NoAllocation \notin Allocations
    /\ MaxStock \in Nat

VARIABLES
    hand,        \* inventory_stock_levels.qty_on_hand
    quantity,    \* quantity of an allocation, 0 before the row exists
    sent,        \* its dispatched_quantity
    released,    \* allocations that are released
    held,        \* allocations on quality hold
    closedJobs,  \* jobs completed or cancelled
    itemLock,    \* who holds the row of the item
    jobLock,     \* who holds the row of a job
    clerk,       \* where each clerk is
    doing,       \* its operation
    about,       \* the allocation it has locked, or makes
    change,      \* what it does to the stock
    saw,         \* the unreserved stock it has read
    session,     \* status of the count session
    variance,    \* counted_qty - expected_qty of its lines
    corrected,   \* history: times the variance was posted, up to 2
    crossed      \* history: requests for the session have overlapped

allocVars   == <<quantity, sent, released, held, closedJobs>>
lockVars    == <<itemLock, jobLock>>
clerkVars   == <<clerk, doing, about, change, saw>>
sessionVars == <<session, variance, corrected, crossed>>
stockVars   == <<hand, allocVars, lockVars, clerkVars, sessionVars>>

Operation == {"none", "move", "allocate", "dispatch", "release", "correct", "cancel"}

Nothing == [l \in Locations |-> 0]
At(l, q) == [Nothing EXCEPT ![l] = q]

StockInit ==
    /\ hand       = Nothing
    /\ quantity   = [a \in Allocations |-> 0]
    /\ sent       = [a \in Allocations |-> 0]
    /\ released   = {}
    /\ held       = {}
    /\ closedJobs = {}
    /\ itemLock   = NoClerk
    /\ jobLock    = [j \in Jobs |-> NoClerk]
    /\ clerk      = [c \in Clerks |-> "idle"]
    /\ doing      = [c \in Clerks |-> "none"]
    /\ about      = [c \in Clerks |-> NoAllocation]
    /\ change     = [c \in Clerks |-> Nothing]
    /\ saw        = [c \in Clerks |-> Nothing]
    /\ session    = "none"
    /\ variance   = Nothing
    /\ corrected  = 0
    /\ crossed    = FALSE

Reserving(a) == quantity[a] > 0 /\ a \notin released
ReservedAt(l) == {a \in Allocations : Reserving(a) /\ PlaceOf[a] = l}
Outstanding  == [a \in Allocations |-> quantity[a] - sent[a]]
Reserved(l)  == SumFunctionOnSet(Outstanding, ReservedAt(l))
Unreserved   == [l \in Locations |-> hand[l] - Reserved(l)]
--------------------------------------------------------------------------------
(* The requests                                                            *)

Ask(c, op, a, ch) ==
    /\ clerk[c] = "idle"
    /\ clerk' = [clerk EXCEPT ![c] = "item"]
    /\ doing' = [doing EXCEPT ![c] = op]
    /\ about' = [about EXCEPT ![c] = a]
    /\ change' = [change EXCEPT ![c] = ch]
    /\ UNCHANGED saw

Leave(c) ==
    /\ clerk' = [clerk EXCEPT ![c] = "idle"]
    /\ doing' = [doing EXCEPT ![c] = "none"]
    /\ about' = [about EXCEPT ![c] = NoAllocation]
    /\ change' = [change EXCEPT ![c] = Nothing]
    /\ saw' = [saw EXCEPT ![c] = Nothing]
    /\ itemLock' = IF itemLock = c THEN NoClerk ELSE itemLock
    /\ jobLock' = [j \in Jobs |-> IF jobLock[j] = c THEN NoClerk ELSE jobLock[j]]

\* The row of the job, which must be active.
LockJob(c, j) ==
    /\ jobLock[j] = NoClerk
    /\ j \notin closedJobs
    /\ jobLock' = [jobLock EXCEPT ![j] = c]
    /\ UNCHANGED itemLock

\* A mutated ItemFree: nobody waits for the row of the item.
ItemAlwaysFree == TRUE

ItemFree == itemLock = NoClerk

TakeItem(c) ==
    /\ ItemFree
    /\ itemLock' = c
    /\ saw' = [saw EXCEPT ![c] = Unreserved]
    /\ clerk' = [clerk EXCEPT ![c] = "write"]

\* Receipt, return and adjustment upwards; issue and adjustment downwards; transfer.
Movements ==
    {At(l, q) : l \in Locations, q \in Quantities}
        \cup {At(l, -q) : l \in Locations, q \in Quantities}
        \cup {[At(l, -q) EXCEPT ![k] = q] : l \in Locations, k \in Locations, q \in Quantities}

RecordMovement(c, m) ==
    /\ clerk[c] = "idle"
    /\ TakeItem(c)
    /\ doing' = [doing EXCEPT ![c] = "move"]
    /\ change' = [change EXCEPT ![c] = m]
    /\ UNCHANGED <<hand, allocVars, jobLock, about, sessionVars>>

AllocateStock(c, a, q) ==
    /\ quantity[a] = 0
    /\ LockJob(c, JobOf[a])
    /\ Ask(c, "allocate", a, At(PlaceOf[a], -q))
    /\ UNCHANGED <<hand, allocVars, sessionVars>>

DispatchAllocation(c, a, q) ==
    /\ Reserving(a)
    /\ a \notin held
    /\ q <= quantity[a] - sent[a]
    /\ LockJob(c, JobOf[a])
    /\ Ask(c, "dispatch", a, At(PlaceOf[a], -q))
    /\ UNCHANGED <<hand, allocVars, sessionVars>>

ReleaseAllocation(c, a) ==
    /\ Reserving(a)
    /\ LockJob(c, JobOf[a])
    /\ Ask(c, "release", a, Nothing)
    /\ UNCHANGED <<hand, allocVars, sessionVars>>

LockItem(c) ==
    /\ clerk[c] = "item"
    /\ doing[c] # "cancel"
    /\ TakeItem(c)
    /\ UNCHANGED <<hand, allocVars, jobLock, doing, about, change, sessionVars>>

\* What is taken must be there unreserved -- for a dispatch, without its own
\* reservation, which it has already lowered.
Fits(c) ==
    \A l \in Locations :
        change[c][l] < 0 => IF doing[c] = "dispatch" THEN saw[c][l] >= 0
                                                     ELSE saw[c][l] + change[c][l] >= 0

Moved(c) == [l \in Locations |-> hand[l] + change[c][l]]

CommitMovement(c) ==
    /\ clerk[c] = "write"
    /\ doing[c] = "move"
    /\ Fits(c)
    /\ \A l \in Locations : Moved(c)[l] <= MaxStock
    /\ hand' = Moved(c)
    /\ Leave(c)
    /\ UNCHANGED <<allocVars, sessionVars>>

CommitAllocation(c) ==
    /\ clerk[c] = "write"
    /\ doing[c] = "allocate"
    /\ Fits(c)
    /\ quantity' = [quantity EXCEPT ![about[c]] = -change[c][PlaceOf[about[c]]]]
    /\ Leave(c)
    /\ UNCHANGED <<hand, sent, released, held, closedJobs, sessionVars>>

CommitDispatch(c) ==
    /\ clerk[c] = "write"
    /\ doing[c] = "dispatch"
    /\ Fits(c)
    /\ sent' = [sent EXCEPT ![about[c]] = @ - change[c][PlaceOf[about[c]]]]
    /\ hand' = Moved(c)
    /\ Leave(c)
    /\ UNCHANGED <<quantity, released, held, closedJobs, sessionVars>>

CommitRelease(c) ==
    /\ clerk[c] = "write"
    /\ doing[c] = "release"
    /\ released' = released \cup {about[c]}
    /\ Leave(c)
    /\ UNCHANGED <<hand, quantity, sent, held, closedJobs, sessionVars>>

\* Refused, failed or dead: the transaction rolls back.
Rollback(c) ==
    /\ clerk[c] # "idle"
    /\ Leave(c)
    /\ UNCHANGED <<hand, allocVars, sessionVars>>
--------------------------------------------------------------------------------
(* Jobs and the quality hold: no lock of the item                          *)

CancelJob(j) ==
    /\ jobLock[j] = NoClerk
    /\ j \notin closedJobs
    /\ closedJobs' = closedJobs \cup {j}
    /\ released' = released \cup {a \in Allocations : quantity[a] > 0 /\ JobOf[a] = j}
    /\ UNCHANGED <<hand, quantity, sent, held, lockVars, clerkVars, sessionVars>>

CompleteJob(j) ==
    /\ jobLock[j] = NoClerk
    /\ j \notin closedJobs
    /\ ~\E a \in Allocations : JobOf[a] = j /\ Reserving(a) /\ quantity[a] > sent[a]
    /\ closedJobs' = closedJobs \cup {j}
    /\ UNCHANGED <<hand, quantity, sent, released, held, lockVars, clerkVars, sessionVars>>

\* A mutated RowLocked: the update does not wait for a dispatch.
NeverLocked(a) == FALSE

\* An allocation being dispatched or released is locked.
RowLocked(a) == \E c \in Clerks : about[c] = a /\ doing[c] \in {"dispatch", "release"}

\* An inspection of the batch fails; or the hold is lifted.
HoldBatch ==
    /\ \A a \in Allocations : ~RowLocked(a)
    /\ held' \in {held \cup {a \in Allocations : Reserving(a)}, {a \in held : ~Reserving(a)}}
    /\ held' # held
    /\ UNCHANGED <<hand, quantity, sent, released, closedJobs, lockVars, clerkVars, sessionVars>>
--------------------------------------------------------------------------------
(* The stock count                                                         *)

StartCount ==
    /\ session = "none"
    /\ session' = "open"
    /\ UNCHANGED <<hand, allocVars, lockVars, clerkVars, variance, corrected, crossed>>

CountLine(l, v) ==
    /\ session = "open"
    /\ variance' = [variance EXCEPT ![l] = v]
    /\ UNCHANGED <<hand, allocVars, lockVars, clerkVars, session, corrected, crossed>>

\* A mutated SessionOpen: the status is not looked at.
SessionThere == session # "none"

SessionOpen == session = "open"

OnSession(op) == op \in {"correct", "cancel"}

\* The session and its lines are read, and the status checked, under no lock.
RequestOnSession(c, op) ==
    /\ OnSession(op)
    /\ SessionOpen
    /\ Ask(c, op, NoAllocation, IF op = "correct" THEN variance ELSE Nothing)
    /\ crossed' = (crossed \/ \E d \in Clerks : OnSession(doing[d]))
    /\ UNCHANGED <<hand, allocVars, lockVars, session, variance, corrected>>

\* All lines are corrected in the transaction that marks the session posted.
PostCount(c) ==
    /\ clerk[c] = "write"
    /\ doing[c] = "correct"
    /\ Fits(c)
    /\ \A l \in Locations : Moved(c)[l] <= MaxStock
    /\ hand' = Moved(c)
    /\ session' = "posted"
    /\ corrected' = IF corrected = 0 THEN 1 ELSE 2
    /\ Leave(c)
    /\ UNCHANGED <<allocVars, variance, crossed>>

CancelCount(c) ==
    /\ clerk[c] = "item"
    /\ doing[c] = "cancel"
    /\ session' = "cancelled"
    /\ Leave(c)
    /\ UNCHANGED <<hand, allocVars, variance, corrected, crossed>>
--------------------------------------------------------------------------------
StockNext ==
    \/ \E c \in Clerks, m \in Movements : RecordMovement(c, m)
    \/ \E c \in Clerks, a \in Allocations, q \in Quantities :
          AllocateStock(c, a, q) \/ DispatchAllocation(c, a, q)
    \/ \E c \in Clerks, a \in Allocations : ReleaseAllocation(c, a)
    \/ \E c \in Clerks : \/ LockItem(c) \/ CommitMovement(c) \/ CommitAllocation(c)
                         \/ CommitDispatch(c) \/ CommitRelease(c) \/ Rollback(c)
                         \/ PostCount(c) \/ CancelCount(c)
    \/ \E c \in Clerks, op \in Operation : RequestOnSession(c, op)
    \/ \E j \in Jobs : CancelJob(j) \/ CompleteJob(j)
    \/ HoldBatch \/ StartCount
    \/ \E l \in Locations, q \in Quantities, s \in {-1, 1} : CountLine(l, s * q)

StockSpec == StockInit /\ [][StockNext]_stockVars
--------------------------------------------------------------------------------
StockTypeOK ==
    /\ hand \in [Locations -> Nat]
    /\ quantity \in [Allocations -> Nat]
    /\ sent \in [Allocations -> Nat]
    /\ released \subseteq Allocations
    /\ held \subseteq Allocations
    /\ closedJobs \subseteq Jobs
    /\ itemLock \in Clerks \cup {NoClerk}
    /\ jobLock \in [Jobs -> Clerks \cup {NoClerk}]
    /\ clerk \in [Clerks -> {"idle", "item", "write"}]
    /\ doing \in [Clerks -> Operation]
    /\ about \in [Clerks -> Allocations \cup {NoAllocation}]
    /\ change \in [Clerks -> [Locations -> Int]]
    /\ saw \in [Clerks -> [Locations -> Int]]
    /\ session \in {"none", "open", "posted", "cancelled"}
    /\ variance \in [Locations -> Int]
    /\ corrected \in 0..2
    /\ crossed \in BOOLEAN

\* What is reserved for jobs is on hand: no issue, transfer, correction or other
\* reservation takes it away, whatever requests overlap.
ReservedIsCovered == \A l \in Locations : Reserved(l) <= hand[l]

\* Nothing is dispatched from an allocation that is on quality hold, not by a
\* dispatch that was let in before the hold either.
HeldStays == [][\A a \in held : sent'[a] = sent[a]]_stockVars

\* Unless requests for the session overlap, its variance reaches the stock
\* once, and exactly when the session is posted.
CountedOnce == ~crossed => corrected = IF session = "posted" THEN 1 ELSE 0
================================================================================

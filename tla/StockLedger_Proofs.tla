---------------------------- MODULE StockLedger_Proofs ----------------------------
(***************************************************************************)
(* The stock of an item for any locations, allocations, jobs, quantities   *)
(* and number of clerks.                                                   *)
(*                                                                         *)
(* That reservations are covered is a statement about a sum over the       *)
(* allocations: the rows that exist are finitely many, because a request   *)
(* makes at most one (StockRows).  Who holds the row of the item           *)
(* (OneAtItem) has seen no more than what is unreserved (SawCovered), for  *)
(* what changes without that lock only lowers reservations; and what it    *)
(* does to its allocation is possible, for it holds the row of the job     *)
(* (Requested).                                                            *)
(***************************************************************************)
EXTENDS StockLedger, SumTheorems

ClerksOK ==
    /\ clerk \in [Clerks -> {"idle", "item", "write"}]
    /\ doing \in [Clerks -> Operation]
    /\ about \in [Clerks -> Allocations \cup {NoAllocation}]
    /\ \A c \in Clerks : clerk[c] = "idle" => doing[c] = "none"
    /\ DOMAIN sent = Allocations
    /\ held \subseteq Allocations

\* A dispatch that was let in keeps its allocation off the hold.
DispatchedIsFree ==
    \A c \in Clerks : doing[c] = "dispatch" => about[c] \in Allocations \ held

\* Requests for the session that do not overlap find it open, one at a time.
OneOnSession ==
    ~crossed =>
       /\ \A c, d \in Clerks : OnSession(doing[c]) /\ OnSession(doing[d]) => c = d
       /\ \A c \in Clerks : OnSession(doing[c]) => session = "open"

\* What the variables are, but that no amount is negative.
StockShape ==
    /\ hand \in [Locations -> Int]
    /\ quantity \in [Allocations -> Int]
    /\ sent \in [Allocations -> Int]
    /\ released \subseteq Allocations
    /\ closedJobs \subseteq Jobs
    /\ itemLock \in Clerks \cup {NoClerk}
    /\ jobLock \in [Jobs -> Clerks \cup {NoClerk}]
    /\ change \in [Clerks -> [Locations -> Int]]
    /\ saw \in [Clerks -> [Locations -> Int]]
    /\ session \in {"none", "open", "posted", "cancelled"}
    /\ variance \in [Locations -> Int]
    /\ corrected \in 0..2
    /\ crossed \in BOOLEAN

\* There are finitely many allocations, released ones among them, and none has
\* more dispatched than allocated.
Rows == {a \in Allocations : quantity[a] > 0}

StockRows ==
    /\ IsFiniteSet(Rows)
    /\ released \subseteq Rows
    /\ \A a \in Allocations : 0 <= sent[a] /\ sent[a] <= quantity[a]

\* The request changes the stock where its allocation is, downwards.
OnJob(c) == doing[c] \in {"allocate", "dispatch", "release"}
Takes(c) ==
    /\ change[c][PlaceOf[about[c]]] < 0
    /\ \A l \in Locations \ {PlaceOf[about[c]]} : change[c][l] = 0

\* What was checked of an allocation when its job was locked is still so.
Requested ==
    \A c \in Clerks :
       /\ OnJob(c) => about[c] \in Allocations /\ jobLock[JobOf[about[c]]] = c
       /\ doing[c] = "allocate" => quantity[about[c]] = 0 /\ Takes(c)
       /\ doing[c] \in {"dispatch", "release"} => Reserving(about[c])
       /\ doing[c] = "dispatch" =>
            /\ Takes(c)
            /\ sent[about[c]] - change[c][PlaceOf[about[c]]] <= quantity[about[c]]

\* Who is to write holds the row of the item...
OneAtItem == \A c \in Clerks : clerk[c] = "write" => itemLock = c

\* ...and has seen no more unreserved stock than there is.
SawCovered ==
    \A c \in Clerks : clerk[c] = "write" =>
       \A l \in Locations : saw[c][l] <= hand[l] - Reserved(l)

StockInv ==
    /\ ClerksOK
    /\ StockShape
    /\ StockRows
    /\ Requested
    /\ OneAtItem
    /\ SawCovered
    /\ ReservedIsCovered
    /\ DispatchedIsFree
    /\ OneOnSession
    /\ CountedOnce

\* Requests keep their shape.
LEMMA ClerksStep == StockInv /\ [StockNext]_stockVars => ClerksOK'
<1> SUFFICES ASSUME StockInv, [StockNext]_stockVars PROVE ClerksOK'
  OBVIOUS
<1> USE StockConstants DEF allocVars, lockVars, clerkVars, sessionVars, Operation,
        StockInv, ClerksOK
<1>1. ASSUME NEW c \in Clerks, NEW m \in Movements, RecordMovement(c, m)
       PROVE ClerksOK'
  BY <1>1 DEF RecordMovement, TakeItem
<1>2. ASSUME NEW c \in Clerks, NEW a \in Allocations, NEW q \in Quantities, AllocateStock(c, a, q)
       PROVE ClerksOK'
  BY <1>2 DEF AllocateStock, Ask
<1>3. ASSUME NEW c \in Clerks, NEW a \in Allocations, NEW q \in Quantities, DispatchAllocation(c, a, q)
       PROVE ClerksOK'
  BY <1>3 DEF DispatchAllocation, Ask
<1>4. ASSUME NEW c \in Clerks, NEW a \in Allocations, ReleaseAllocation(c, a)
       PROVE ClerksOK'
  BY <1>4 DEF ReleaseAllocation, Ask
<1>5. ASSUME NEW c \in Clerks, LockItem(c) PROVE ClerksOK'
  BY <1>5 DEF LockItem, TakeItem
<1>6. ASSUME NEW c \in Clerks, CommitMovement(c) PROVE ClerksOK'
  BY <1>6 DEF CommitMovement, Leave
<1>7. ASSUME NEW c \in Clerks, CommitAllocation(c) PROVE ClerksOK'
  BY <1>7 DEF CommitAllocation, Leave
<1>8. ASSUME NEW c \in Clerks, CommitDispatch(c) PROVE ClerksOK'
  BY <1>8 DEF CommitDispatch, Leave
<1>9. ASSUME NEW c \in Clerks, CommitRelease(c) PROVE ClerksOK'
  BY <1>9 DEF CommitRelease, Leave
<1>10. ASSUME NEW c \in Clerks, Rollback(c) PROVE ClerksOK'
  BY <1>10 DEF Rollback, Leave
<1>11. ASSUME NEW c \in Clerks, PostCount(c) PROVE ClerksOK'
  BY <1>11 DEF PostCount, Leave
<1>12. ASSUME NEW c \in Clerks, CancelCount(c) PROVE ClerksOK'
  BY <1>12 DEF CancelCount, Leave
<1>13. ASSUME NEW c \in Clerks, NEW op \in Operation, RequestOnSession(c, op)
       PROVE ClerksOK'
  BY <1>13 DEF RequestOnSession, Ask
<1>14. CASE HoldBatch
  BY <1>14 DEF HoldBatch
<1>15. CASE UNCHANGED <<sent, held, clerk, doing, about>>
  BY <1>15
<1> HIDE DEF StockInv, ClerksOK
<1> QED
  BY <1>1, <1>2, <1>3, <1>4, <1>5, <1>6, <1>7, <1>8, <1>9, <1>10, <1>11, <1>12,
     <1>13, <1>14, <1>15
  DEF StockNext, stockVars, CancelJob, CompleteJob, StartCount, CountLine

\* A hold waits for a dispatch, and a dispatch is not let in under a hold.
LEMMA DispatchStep == StockInv /\ [StockNext]_stockVars => DispatchedIsFree'
<1> SUFFICES ASSUME StockInv, [StockNext]_stockVars PROVE DispatchedIsFree'
  OBVIOUS
<1> USE StockConstants DEF allocVars, lockVars, clerkVars, sessionVars, Operation,
        StockInv, ClerksOK, DispatchedIsFree
<1>1. ASSUME NEW c \in Clerks, NEW m \in Movements, RecordMovement(c, m)
       PROVE DispatchedIsFree'
  BY <1>1 DEF RecordMovement, TakeItem
<1>2. ASSUME NEW c \in Clerks, NEW a \in Allocations, NEW q \in Quantities, AllocateStock(c, a, q)
       PROVE DispatchedIsFree'
  BY <1>2 DEF AllocateStock, Ask
<1>3. ASSUME NEW c \in Clerks, NEW a \in Allocations, NEW q \in Quantities, DispatchAllocation(c, a, q)
       PROVE DispatchedIsFree'
  BY <1>3 DEF DispatchAllocation, Ask
<1>4. ASSUME NEW c \in Clerks, NEW a \in Allocations, ReleaseAllocation(c, a)
       PROVE DispatchedIsFree'
  BY <1>4 DEF ReleaseAllocation, Ask
<1>5. ASSUME NEW c \in Clerks, LockItem(c) PROVE DispatchedIsFree'
  BY <1>5 DEF LockItem, TakeItem
<1>6. ASSUME NEW c \in Clerks, CommitMovement(c) PROVE DispatchedIsFree'
  BY <1>6 DEF CommitMovement, Leave
<1>7. ASSUME NEW c \in Clerks, CommitAllocation(c) PROVE DispatchedIsFree'
  BY <1>7 DEF CommitAllocation, Leave
<1>8. ASSUME NEW c \in Clerks, CommitDispatch(c) PROVE DispatchedIsFree'
  BY <1>8 DEF CommitDispatch, Leave
<1>9. ASSUME NEW c \in Clerks, CommitRelease(c) PROVE DispatchedIsFree'
  BY <1>9 DEF CommitRelease, Leave
<1>10. ASSUME NEW c \in Clerks, Rollback(c) PROVE DispatchedIsFree'
  BY <1>10 DEF Rollback, Leave
<1>11. ASSUME NEW c \in Clerks, PostCount(c) PROVE DispatchedIsFree'
  BY <1>11 DEF PostCount, Leave
<1>12. ASSUME NEW c \in Clerks, CancelCount(c) PROVE DispatchedIsFree'
  BY <1>12 DEF CancelCount, Leave
<1>13. ASSUME NEW c \in Clerks, NEW op \in Operation, RequestOnSession(c, op)
       PROVE DispatchedIsFree'
  BY <1>13 DEF RequestOnSession, Ask, OnSession
<1>14. CASE HoldBatch
  BY <1>14 DEF HoldBatch, RowLocked
<1>15. CASE UNCHANGED <<held, doing, about>>
  BY <1>15
<1> HIDE DEF StockInv, ClerksOK, DispatchedIsFree
<1> QED
  BY <1>1, <1>2, <1>3, <1>4, <1>5, <1>6, <1>7, <1>8, <1>9, <1>10, <1>11, <1>12,
     <1>13, <1>14, <1>15
  DEF StockNext, stockVars, CancelJob, CompleteJob, StartCount, CountLine

\* A request that finds no other on the session settles it alone.
LEMMA SessionStep == StockInv /\ [StockNext]_stockVars => (OneOnSession /\ CountedOnce)'
<1> SUFFICES ASSUME StockInv, [StockNext]_stockVars PROVE (OneOnSession /\ CountedOnce)'
  OBVIOUS
<1> USE StockConstants DEF allocVars, lockVars, clerkVars, sessionVars, Operation,
        StockInv, ClerksOK, OneOnSession, CountedOnce, OnSession
<1>1. ASSUME NEW c \in Clerks, NEW m \in Movements, RecordMovement(c, m)
       PROVE (OneOnSession /\ CountedOnce)'
  BY <1>1 DEF RecordMovement, TakeItem
<1>2. ASSUME NEW c \in Clerks, NEW a \in Allocations, NEW q \in Quantities, AllocateStock(c, a, q)
       PROVE (OneOnSession /\ CountedOnce)'
  BY <1>2 DEF AllocateStock, Ask
<1>3. ASSUME NEW c \in Clerks, NEW a \in Allocations, NEW q \in Quantities, DispatchAllocation(c, a, q)
       PROVE (OneOnSession /\ CountedOnce)'
  BY <1>3 DEF DispatchAllocation, Ask
<1>4. ASSUME NEW c \in Clerks, NEW a \in Allocations, ReleaseAllocation(c, a)
       PROVE (OneOnSession /\ CountedOnce)'
  BY <1>4 DEF ReleaseAllocation, Ask
<1>5. ASSUME NEW c \in Clerks, LockItem(c)
       PROVE (OneOnSession /\ CountedOnce)'
  BY <1>5 DEF LockItem, TakeItem
<1>6. ASSUME NEW c \in Clerks, CommitMovement(c)
       PROVE (OneOnSession /\ CountedOnce)'
  BY <1>6 DEF CommitMovement, Leave
<1>7. ASSUME NEW c \in Clerks, CommitAllocation(c)
       PROVE (OneOnSession /\ CountedOnce)'
  BY <1>7 DEF CommitAllocation, Leave
<1>8. ASSUME NEW c \in Clerks, CommitDispatch(c)
       PROVE (OneOnSession /\ CountedOnce)'
  BY <1>8 DEF CommitDispatch, Leave
<1>9. ASSUME NEW c \in Clerks, CommitRelease(c)
       PROVE (OneOnSession /\ CountedOnce)'
  BY <1>9 DEF CommitRelease, Leave
<1>10. ASSUME NEW c \in Clerks, Rollback(c)
       PROVE (OneOnSession /\ CountedOnce)'
  BY <1>10 DEF Rollback, Leave
<1>11. ASSUME NEW c \in Clerks, PostCount(c)
       PROVE (OneOnSession /\ CountedOnce)'
  BY <1>11 DEF PostCount, Leave
<1>12. ASSUME NEW c \in Clerks, CancelCount(c)
       PROVE (OneOnSession /\ CountedOnce)'
  BY <1>12 DEF CancelCount, Leave
<1>13. ASSUME NEW c \in Clerks, NEW op \in Operation, RequestOnSession(c, op)
       PROVE (OneOnSession /\ CountedOnce)'
  BY <1>13 DEF RequestOnSession, Ask, SessionOpen
<1>14. CASE StartCount
  BY <1>14 DEF StartCount
<1>15. CASE UNCHANGED <<doing, session, corrected, crossed>>
  BY <1>15
<1> HIDE DEF StockInv, ClerksOK, OneOnSession, CountedOnce, OnSession
<1> QED
  BY <1>1, <1>2, <1>3, <1>4, <1>5, <1>6, <1>7, <1>8, <1>9, <1>10, <1>11, <1>12,
     <1>13, <1>14, <1>15
  DEF StockNext, stockVars, CancelJob, CompleteJob, HoldBatch, CountLine

--------------------------------------------------------------------------------
(* The locks, the rows and what is reserved                                *)

\* A quantity at one location, and what a movement is.
LEMMA ChangesAreInt ==
    /\ Nothing \in [Locations -> Int]
    /\ \A p \in Locations, q \in Int :
          /\ At(p, q) \in [Locations -> Int]
          /\ At(p, q)[p] = q
          /\ \A l \in Locations \ {p} : At(p, q)[l] = 0
    /\ \A q \in Quantities : q \in Int /\ -q \in Int /\ q > 0
    /\ Movements \subseteq [Locations -> Int]
<1>1. Nothing \in [Locations -> Int]
  BY DEF Nothing
<1>2. ASSUME NEW p \in Locations, NEW q \in Int
      PROVE  /\ At(p, q) \in [Locations -> Int]
             /\ At(p, q)[p] = q
             /\ \A l \in Locations \ {p} : At(p, q)[l] = 0
  BY DEF At, Nothing
<1>3. \A q \in Quantities : q \in Int /\ -q \in Int /\ q > 0
  BY StockConstants
<1>4. ASSUME NEW m \in Movements PROVE m \in [Locations -> Int]
  <2>1. CASE \E l \in Locations, q \in Quantities : m = At(l, q) \/ m = At(l, -q)
    BY <1>2, <1>3, <2>1
  <2>2. ASSUME NEW l \in Locations, NEW k \in Locations, NEW q \in Quantities,
               m = [At(l, -q) EXCEPT ![k] = q]
        PROVE  m \in [Locations -> Int]
    <3>1. At(l, -q) \in [Locations -> Int] /\ q \in Int
      BY <1>2, <1>3
    <3> QED
      BY <2>2, <3>1
  <2> QED
    BY <2>1, <2>2 DEF Movements
<1> QED
  BY <1>1, <1>2, <1>3, <1>4

\* What is reserved at a location is a sum of finitely many amounts.
LEMMA ReservedNat ==
    ASSUME StockShape, StockRows, NEW l \in Locations
    PROVE  /\ IsFiniteSet(ReservedAt(l))
           /\ ReservedAt(l) \subseteq Allocations
           /\ \A a \in Allocations : Outstanding[a] \in Nat
           /\ Reserved(l) \in Nat
<1>1. ReservedAt(l) \subseteq Rows /\ ReservedAt(l) \subseteq Allocations
  BY DEF ReservedAt, Reserving, Rows
<1>2. IsFiniteSet(ReservedAt(l))
  BY <1>1, FS_Subset DEF StockRows
<1>3. \A a \in Allocations : Outstanding[a] \in Nat
  BY DEF Outstanding, StockShape, StockRows
<1>4. \A a \in ReservedAt(l) : Outstanding[a] \in Nat
  BY <1>1, <1>3
<1>5. SumFunctionOnSet(Outstanding, ReservedAt(l)) \in Nat
  BY <1>2, <1>4, SumNat
<1> QED
  BY <1>1, <1>2, <1>3, <1>5 DEF Reserved

\* What is not reserved is a number.
LEMMA UnreservedInt ==
    ASSUME StockShape, StockRows
    PROVE  Unreserved \in [Locations -> Int]
BY ReservedNat DEF Unreserved, StockShape

\* Releasing lowers what is reserved.
LEMMA ReservedFalls ==
    ASSUME StockShape, StockRows, UNCHANGED <<quantity, sent>>, released \subseteq released',
           NEW l \in Locations
    PROVE  Reserved(l)' <= Reserved(l)
<1>1. Outstanding' = Outstanding
  BY DEF Outstanding
<1>2. ReservedAt(l)' \subseteq ReservedAt(l)
  BY DEF ReservedAt, Reserving
<1>3. \A a \in ReservedAt(l) : Outstanding[a] \in Nat
  BY ReservedNat
<1>4. SumFunctionOnSet(Outstanding, ReservedAt(l)')
         <= SumFunctionOnSet(Outstanding, ReservedAt(l))
  BY <1>2, <1>3, ReservedNat, SumMonotone
<1> QED
  BY <1>1, <1>4 DEF Reserved

\* A new allocation adds its quantity to what is reserved where it is.
LEMMA ReservedAllocated ==
    ASSUME StockInv, NEW c \in Clerks, CommitAllocation(c), NEW l \in Locations
    PROVE  Reserved(l)' = Reserved(l) - change[c][l]
<1> DEFINE a == about[c]
           q == -change[c][PlaceOf[a]]
<1>1. a \in Allocations /\ quantity[a] = 0 /\ a \notin released /\ sent[a] = 0
  <2>1. a \in Allocations /\ quantity[a] = 0
    BY DEF CommitAllocation, StockInv, Requested, OnJob
  <2>2. a \notin released
    BY <2>1 DEF StockInv, StockRows, Rows
  <2>3. sent[a] = 0
    BY <2>1 DEF StockInv, StockRows, StockShape
  <2> QED
    BY <2>1, <2>2, <2>3
<1>2. /\ PlaceOf[a] \in Locations /\ q \in Int /\ q > 0
      /\ change[c][l] \in Int
      /\ l # PlaceOf[a] => change[c][l] = 0
      /\ l = PlaceOf[a] => change[c][l] = -q
  <2>1. PlaceOf[a] \in Locations /\ change[c] \in [Locations -> Int]
    BY <1>1, StockConstants DEF StockInv, StockShape
  <2>2. Takes(c)
    BY DEF CommitAllocation, StockInv, Requested
  <2> QED
    BY <2>1, <2>2 DEF Takes
<1>3. quantity' = [quantity EXCEPT ![a] = q] /\ UNCHANGED <<sent, released>>
  BY DEF CommitAllocation
<1>4. /\ quantity'[a] = q
      /\ \A x \in Allocations \ {a} : quantity'[x] = quantity[x]
  BY <1>1, <1>3 DEF StockInv, StockShape
<1>5. StockShape /\ StockRows
  BY DEF StockInv
<1> HIDE DEF a, q
<1>6. \A x \in Allocations \ {a} : Outstanding'[x] = Outstanding[x]
  BY <1>3, <1>4 DEF Outstanding
<1>7. Outstanding'[a] = q
  BY <1>1, <1>2, <1>3, <1>4 DEF Outstanding
<1>8. a \notin ReservedAt(l)
  BY <1>1 DEF ReservedAt, Reserving
<1>9. SumFunctionOnSet(Outstanding', ReservedAt(l)) = Reserved(l)
  BY <1>5, <1>6, <1>8, ReservedNat, SumSame DEF Reserved
<1>10. CASE l = PlaceOf[a]
  <2>1. ReservedAt(l)' = ReservedAt(l) \cup {a}
    BY <1>1, <1>2, <1>3, <1>4, <1>10 DEF ReservedAt, Reserving
  <2>2. \A x \in ReservedAt(l) \cup {a} : Outstanding'[x] \in Int
    BY <1>2, <1>5, <1>6, <1>7, ReservedNat
  <2>3. SumFunctionOnSet(Outstanding', ReservedAt(l) \cup {a})
           = q + SumFunctionOnSet(Outstanding', ReservedAt(l))
    BY <1>5, <1>7, <1>8, <2>2, ReservedNat, SumAdd
  <2>4. Reserved(l) \in Int
    BY <1>5, ReservedNat
  <2> QED
    BY <1>2, <1>9, <1>10, <2>1, <2>3, <2>4 DEF Reserved
<1>11. CASE l # PlaceOf[a]
  <2>1. ReservedAt(l)' = ReservedAt(l)
    BY <1>1, <1>3, <1>4, <1>11 DEF ReservedAt, Reserving
  <2>2. Reserved(l) \in Int
    BY <1>5, ReservedNat
  <2> QED
    BY <1>2, <1>9, <1>11, <2>1, <2>2 DEF Reserved
<1> QED
  BY <1>10, <1>11

\* A dispatch takes its quantity off what is reserved.
LEMMA ReservedDispatched ==
    ASSUME StockInv, NEW c \in Clerks, CommitDispatch(c), NEW l \in Locations
    PROVE  Reserved(l)' = Reserved(l) + change[c][l]
<1> DEFINE a == about[c]
           q == change[c][PlaceOf[a]]
<1>1. a \in Allocations /\ Reserving(a)
  BY DEF CommitDispatch, StockInv, Requested, OnJob
<1>2. /\ PlaceOf[a] \in Locations /\ q \in Int
      /\ change[c][l] \in Int
      /\ l # PlaceOf[a] => change[c][l] = 0
      /\ l = PlaceOf[a] => change[c][l] = q
  <2>1. PlaceOf[a] \in Locations /\ change[c] \in [Locations -> Int]
    BY <1>1, StockConstants DEF StockInv, StockShape
  <2>2. Takes(c)
    BY DEF CommitDispatch, StockInv, Requested
  <2> QED
    BY <2>1, <2>2 DEF Takes
<1>3. sent' = [sent EXCEPT ![a] = @ - q] /\ UNCHANGED <<quantity, released>>
  BY DEF CommitDispatch
<1>4. StockShape /\ StockRows
  BY DEF StockInv
<1> HIDE DEF a, q
<1>5. \A x \in Allocations \ {a} : Outstanding'[x] = Outstanding[x]
  BY <1>3, <1>4 DEF Outstanding, StockShape
<1>6. Outstanding'[a] = Outstanding[a] + q /\ Outstanding[a] \in Int
  BY <1>1, <1>2, <1>3, <1>4 DEF Outstanding, StockShape
<1>7. ReservedAt(l)' = ReservedAt(l)
  BY <1>3 DEF ReservedAt, Reserving
<1>8. CASE l = PlaceOf[a]
  <2>1. a \in ReservedAt(l)
    BY <1>1, <1>8 DEF ReservedAt
  <2>2. \A x \in ReservedAt(l) : Outstanding[x] \in Int /\ Outstanding'[x] \in Int
    BY <1>2, <1>4, <1>5, <1>6, ReservedNat
  <2>3. \A x \in ReservedAt(l) \ {a} : Outstanding[x] = Outstanding'[x]
    BY <1>4, <1>5, ReservedNat
  <2>4. SumFunctionOnSet(Outstanding', ReservedAt(l))
           = SumFunctionOnSet(Outstanding, ReservedAt(l)) + Outstanding'[a] - Outstanding[a]
    BY <1>4, <2>1, <2>2, <2>3, ReservedNat, SumChange
  <2>5. SumFunctionOnSet(Outstanding, ReservedAt(l)) \in Int
    BY <1>4, ReservedNat DEF Reserved
  <2> QED
    BY <1>2, <1>6, <1>7, <1>8, <2>4, <2>5 DEF Reserved
<1>9. CASE l # PlaceOf[a]
  <2>1. \A x \in ReservedAt(l) : Outstanding'[x] = Outstanding[x]
    BY <1>5, <1>9 DEF ReservedAt
  <2>2. Reserved(l) \in Int
    BY <1>4, ReservedNat
  <2>3. SumFunctionOnSet(Outstanding', ReservedAt(l))
           = SumFunctionOnSet(Outstanding, ReservedAt(l))
    BY <1>4, <2>1, ReservedNat, SumSame
  <2> QED
    BY <1>2, <1>7, <1>9, <2>2, <2>3 DEF Reserved
<1> QED
  BY <1>8, <1>9

\* Every variable keeps its shape.
LEMMA ShapeStep == StockInv /\ [StockNext]_stockVars => StockShape'
<1> SUFFICES ASSUME StockInv, [StockNext]_stockVars PROVE StockShape'
  OBVIOUS
<1>0. StockShape /\ StockRows /\ ClerksOK
  BY DEF StockInv
<1> USE <1>0, StockConstants, ChangesAreInt
    DEF StockShape, allocVars, lockVars, clerkVars, sessionVars
<1>1. ASSUME NEW c \in Clerks, NEW m \in Movements, RecordMovement(c, m)
      PROVE  StockShape'
  BY <1>1, UnreservedInt DEF RecordMovement, TakeItem
<1>2. ASSUME NEW c \in Clerks, NEW a \in Allocations, NEW q \in Quantities, AllocateStock(c, a, q)
      PROVE  StockShape'
  BY <1>2 DEF AllocateStock, Ask, LockJob
<1>3. ASSUME NEW c \in Clerks, NEW a \in Allocations, NEW q \in Quantities, DispatchAllocation(c, a, q)
      PROVE  StockShape'
  BY <1>3 DEF DispatchAllocation, Ask, LockJob
<1>4. ASSUME NEW c \in Clerks, NEW a \in Allocations, ReleaseAllocation(c, a)
      PROVE  StockShape'
  BY <1>4 DEF ReleaseAllocation, Ask, LockJob
<1>5. ASSUME NEW c \in Clerks, LockItem(c) PROVE StockShape'
  BY <1>5, UnreservedInt DEF LockItem, TakeItem
<1>6. ASSUME NEW c \in Clerks, CommitMovement(c) PROVE StockShape'
  BY <1>6 DEF CommitMovement, Leave, Moved
<1>7. ASSUME NEW c \in Clerks, CommitAllocation(c) PROVE StockShape'
  <2>1. about[c] \in Allocations /\ -change[c][PlaceOf[about[c]]] \in Int
    BY <1>7 DEF CommitAllocation, StockInv, Requested, OnJob
  <2> QED
    BY <1>7, <2>1 DEF CommitAllocation, Leave
<1>8. ASSUME NEW c \in Clerks, CommitDispatch(c) PROVE StockShape'
  <2>1. about[c] \in Allocations /\ change[c][PlaceOf[about[c]]] \in Int
    BY <1>8 DEF CommitDispatch, StockInv, Requested, OnJob
  <2>2. hand' \in [Locations -> Int]
    BY <1>8 DEF CommitDispatch, Moved
  <2>3. sent' \in [Allocations -> Int]
    BY <1>8, <2>1 DEF CommitDispatch
  <2>4. /\ jobLock' \in [Jobs -> Clerks \cup {NoClerk}]
        /\ itemLock' \in Clerks \cup {NoClerk}
        /\ change' \in [Clerks -> [Locations -> Int]]
        /\ saw' \in [Clerks -> [Locations -> Int]]
    BY <1>8 DEF CommitDispatch, Leave
  <2> QED
    BY <1>8, <2>2, <2>3, <2>4 DEF CommitDispatch
<1>9. ASSUME NEW c \in Clerks, CommitRelease(c) PROVE StockShape'
  <2>1. about[c] \in Allocations
    BY <1>9 DEF CommitRelease, StockInv, Requested, OnJob
  <2> QED
    BY <1>9, <2>1 DEF CommitRelease, Leave
<1>10. ASSUME NEW c \in Clerks, Rollback(c) PROVE StockShape'
  BY <1>10 DEF Rollback, Leave
<1>11. ASSUME NEW c \in Clerks, PostCount(c) PROVE StockShape'
  BY <1>11 DEF PostCount, Leave, Moved
<1>12. ASSUME NEW c \in Clerks, CancelCount(c) PROVE StockShape'
  BY <1>12 DEF CancelCount, Leave
<1>13. ASSUME NEW c \in Clerks, NEW op \in Operation, RequestOnSession(c, op)
      PROVE  StockShape'
  BY <1>13 DEF RequestOnSession, Ask
<1>14. ASSUME NEW j \in Jobs, CancelJob(j) PROVE StockShape'
  BY <1>14 DEF CancelJob
<1>15. ASSUME NEW j \in Jobs, CompleteJob(j) PROVE StockShape'
  BY <1>15 DEF CompleteJob
<1>16. ASSUME NEW l \in Locations, NEW q \in Quantities, NEW s \in {-1, 1}, CountLine(l, s * q)
      PROVE  StockShape'
  BY <1>16 DEF CountLine
<1>17. CASE HoldBatch
  BY <1>17 DEF HoldBatch
<1>18. CASE StartCount
  BY <1>18 DEF StartCount
<1>19. CASE UNCHANGED stockVars
  BY <1>19 DEF stockVars
<1> HIDE DEF StockShape
<1> QED
  BY <1>1, <1>2, <1>3, <1>4, <1>5, <1>6, <1>7, <1>8, <1>9, <1>10, <1>11,
     <1>12, <1>13, <1>14, <1>15, <1>16, <1>17, <1>18, <1>19 DEF StockNext

\* A request makes at most one row, dispatches no more than is left, and
\* releases what exists.
LEMMA RowsStep == StockInv /\ [StockNext]_stockVars => StockRows'
<1> SUFFICES ASSUME StockInv, [StockNext]_stockVars PROVE StockRows'
  OBVIOUS
<1>0. StockShape /\ StockRows /\ Requested
  BY DEF StockInv
<1> USE <1>0, StockConstants DEF allocVars, lockVars, clerkVars, sessionVars
<1>1. ASSUME NEW c \in Clerks, CommitAllocation(c) PROVE StockRows'
  <2> DEFINE a == about[c]
             q == -change[c][PlaceOf[a]]
  <2>1. a \in Allocations /\ quantity[a] = 0 /\ q \in Int /\ q > 0
    BY <1>1 DEF CommitAllocation, Requested, OnJob, Takes, StockShape
  <2>2. quantity' = [quantity EXCEPT ![a] = q] /\ UNCHANGED <<sent, released>>
    BY <1>1 DEF CommitAllocation
  <2> HIDE DEF a, q
  <2>3. Rows' = Rows \cup {a}
    BY <2>1, <2>2 DEF Rows, StockShape
  <2>4. IsFiniteSet(Rows')
    BY <2>3, FS_AddElement DEF StockRows
  <2>5. \A x \in Allocations : 0 <= sent'[x] /\ sent'[x] <= quantity'[x]
    BY <2>1, <2>2 DEF StockRows, StockShape
  <2> QED
    BY <2>2, <2>3, <2>4, <2>5 DEF StockRows
<1>2. ASSUME NEW c \in Clerks, CommitDispatch(c) PROVE StockRows'
  <2> DEFINE a == about[c]
             q == change[c][PlaceOf[a]]
  <2>1. a \in Allocations /\ q \in Int /\ q < 0 /\ sent[a] - q <= quantity[a]
    BY <1>2 DEF CommitDispatch, Requested, OnJob, Takes, StockShape
  <2>2. sent' = [sent EXCEPT ![a] = @ - q] /\ UNCHANGED <<quantity, released>>
    BY <1>2 DEF CommitDispatch
  <2> HIDE DEF a, q
  <2>3. \A x \in Allocations : 0 <= sent'[x] /\ sent'[x] <= quantity'[x]
    BY <2>1, <2>2 DEF StockRows, StockShape
  <2> QED
    BY <2>2, <2>3 DEF StockRows, Rows
<1>3. ASSUME NEW c \in Clerks, CommitRelease(c) PROVE StockRows'
  <2>1. about[c] \in Rows
    BY <1>3 DEF CommitRelease, Requested, OnJob, Reserving, Rows
  <2> QED
    BY <1>3, <2>1 DEF CommitRelease, StockRows, Rows
<1>4. ASSUME NEW j \in Jobs, CancelJob(j) PROVE StockRows'
  BY <1>4 DEF CancelJob, StockRows, Rows
<1>5. CASE UNCHANGED <<quantity, sent, released>>
  BY <1>5 DEF StockRows, Rows
<1> QED
  BY <1>1, <1>2, <1>3, <1>4, <1>5
  DEF StockNext, stockVars, RecordMovement, AllocateStock, DispatchAllocation,
      ReleaseAllocation, LockItem, CommitMovement, Rollback, PostCount,
      CancelCount, RequestOnSession, CompleteJob, HoldBatch, StartCount,
      CountLine

\* Two requests that hold a job are not about the same allocation.
LEMMA OwnAllocation ==
    ASSUME Requested, NEW c \in Clerks, NEW d \in Clerks, OnJob(c), OnJob(d), about[c] = about[d]
    PROVE  c = d
BY DEF Requested

\* What was checked stays so: who changes an allocation holds its job.
LEMMA RequestedStep == StockInv /\ [StockNext]_stockVars => Requested'
<1> SUFFICES ASSUME StockInv, [StockNext]_stockVars PROVE Requested'
  OBVIOUS
<1>0. StockShape /\ ClerksOK /\ Requested /\ StockRows
  BY DEF StockInv
<1> USE <1>0, StockConstants
    DEF StockShape, ClerksOK, Requested, OnJob, Takes, Reserving, Operation, allocVars,
        lockVars, clerkVars, sessionVars
<1>1. ASSUME NEW c \in Clerks, NEW m \in Movements, RecordMovement(c, m)
      PROVE  Requested'
  BY <1>1 DEF RecordMovement, TakeItem
<1>job. ASSUME NEW c \in Clerks, NEW a \in Allocations, NEW op, NEW ch,
              LockJob(c, JobOf[a]), Ask(c, op, a, ch), UNCHANGED <<quantity, sent, released>>,
              op \in {"allocate", "dispatch", "release"},
              op = "allocate" => quantity[a] = 0,
              op # "allocate" => Reserving(a),
              op # "release" => /\ ch[PlaceOf[a]] < 0
                                /\ \A l \in Locations \ {PlaceOf[a]} : ch[l] = 0,
              op = "dispatch" => sent[a] - ch[PlaceOf[a]] <= quantity[a]
       PROVE  Requested'
  <2>1. /\ doing' = [doing EXCEPT ![c] = op] /\ about' = [about EXCEPT ![c] = a]
        /\ change' = [change EXCEPT ![c] = ch]
        /\ jobLock' = [jobLock EXCEPT ![JobOf[a]] = c] /\ jobLock[JobOf[a]] = NoClerk
    BY <1>job DEF Ask, LockJob
  <2>2. /\ doing'[c] = op /\ about'[c] = a /\ change'[c] = ch /\ jobLock'[JobOf[a]] = c
        /\ \A d \in Clerks \ {c} :
              doing'[d] = doing[d] /\ about'[d] = about[d] /\ change'[d] = change[d]
    BY <2>1
  <2>3. ASSUME NEW d \in Clerks \ {c}, OnJob(d)
        PROVE  about[d] \in Allocations /\ jobLock'[JobOf[about[d]]] = d
    BY <2>1, <2>3
  <2> QED
    BY <1>job, <2>2, <2>3
<1>2. ASSUME NEW c \in Clerks, NEW a \in Allocations, NEW q \in Quantities, AllocateStock(c, a, q)
      PROVE  Requested'
  <2>1. PlaceOf[a] \in Locations /\ -q \in Int /\ -q < 0
    BY ChangesAreInt
  <2>2. /\ At(PlaceOf[a], -q)[PlaceOf[a]] = -q
        /\ \A l \in Locations \ {PlaceOf[a]} : At(PlaceOf[a], -q)[l] = 0
    BY <2>1, ChangesAreInt
  <2>3. /\ LockJob(c, JobOf[a]) /\ Ask(c, "allocate", a, At(PlaceOf[a], -q))
        /\ UNCHANGED <<quantity, sent, released>> /\ quantity[a] = 0
    BY <1>2 DEF AllocateStock
  <2>4. /\ At(PlaceOf[a], -q)[PlaceOf[a]] < 0
        /\ "allocate" \in {"allocate", "dispatch", "release"} /\ "allocate" # "dispatch"
    BY <2>1, <2>2
  <2> HIDE DEF Requested
  <2> QED
    BY <1>job, <2>2, <2>3, <2>4
<1>3. ASSUME NEW c \in Clerks, NEW a \in Allocations, NEW q \in Quantities, DispatchAllocation(c, a, q)
      PROVE  Requested'
  <2>1. PlaceOf[a] \in Locations /\ -q \in Int /\ -q < 0 /\ q \in Int
    BY ChangesAreInt
  <2>2. /\ At(PlaceOf[a], -q)[PlaceOf[a]] = -q
        /\ \A l \in Locations \ {PlaceOf[a]} : At(PlaceOf[a], -q)[l] = 0
    BY <2>1, ChangesAreInt
  <2>3. /\ LockJob(c, JobOf[a]) /\ Ask(c, "dispatch", a, At(PlaceOf[a], -q))
        /\ UNCHANGED <<quantity, sent, released>> /\ Reserving(a)
    BY <1>3 DEF DispatchAllocation
  <2>4. /\ At(PlaceOf[a], -q)[PlaceOf[a]] < 0
        /\ "dispatch" \in {"allocate", "dispatch", "release"} /\ "dispatch" # "allocate"
    BY <2>1, <2>2
  <2>5. sent[a] - At(PlaceOf[a], -q)[PlaceOf[a]] <= quantity[a]
    BY <1>3, <2>1, <2>2 DEF DispatchAllocation
  <2> HIDE DEF Requested
  <2> QED
    BY <1>job, <2>2, <2>3, <2>4, <2>5
<1>4. ASSUME NEW c \in Clerks, NEW a \in Allocations, ReleaseAllocation(c, a)
      PROVE  Requested'
  BY <1>4, <1>job DEF ReleaseAllocation
<1>5. ASSUME NEW c \in Clerks, LockItem(c) PROVE Requested'
  BY <1>5 DEF LockItem, TakeItem
<1>6. ASSUME NEW c \in Clerks, CommitMovement(c) PROVE Requested'
  BY <1>6 DEF CommitMovement, Leave
<1>7. ASSUME NEW c \in Clerks, CommitAllocation(c) PROVE Requested'
  BY <1>7, OwnAllocation DEF CommitAllocation, Leave
<1>8. ASSUME NEW c \in Clerks, CommitDispatch(c) PROVE Requested'
  BY <1>8, OwnAllocation DEF CommitDispatch, Leave
<1>9. ASSUME NEW c \in Clerks, CommitRelease(c) PROVE Requested'
  BY <1>9, OwnAllocation DEF CommitRelease, Leave
<1>10. ASSUME NEW c \in Clerks, Rollback(c) PROVE Requested'
  BY <1>10 DEF Rollback, Leave
<1>11. ASSUME NEW c \in Clerks, PostCount(c) PROVE Requested'
  BY <1>11 DEF PostCount, Leave
<1>12. ASSUME NEW c \in Clerks, CancelCount(c) PROVE Requested'
  BY <1>12 DEF CancelCount, Leave
<1>13. ASSUME NEW c \in Clerks, NEW op \in Operation, RequestOnSession(c, op)
      PROVE  Requested'
  BY <1>13 DEF RequestOnSession, Ask, OnSession
<1>14. ASSUME NEW j \in Jobs, CancelJob(j) PROVE Requested'
  BY <1>14 DEF CancelJob
<1>15. CASE UNCHANGED <<quantity, sent, released, jobLock, doing, about, change>>
  BY <1>15
<1> HIDE DEF StockShape, ClerksOK, Requested
<1> QED
  BY <1>1, <1>2, <1>3, <1>4, <1>5, <1>6, <1>7, <1>8, <1>9, <1>10, <1>11, <1>12,
     <1>13, <1>14, <1>15
  DEF StockNext, stockVars, CompleteJob, HoldBatch, StartCount, CountLine

\* The row of the item is taken when it is free, and given back on leaving.
LEMMA ItemStep == StockInv /\ [StockNext]_stockVars => OneAtItem'
<1> SUFFICES ASSUME StockInv, [StockNext]_stockVars PROVE OneAtItem'
  OBVIOUS
<1> USE StockConstants DEF StockInv, ClerksOK, OneAtItem, allocVars, lockVars, clerkVars,
        sessionVars
<1>1. ASSUME NEW c \in Clerks, NEW m \in Movements, RecordMovement(c, m)
      PROVE  OneAtItem'
  BY <1>1 DEF RecordMovement, TakeItem, ItemFree
<1>2. ASSUME NEW c \in Clerks, NEW a \in Allocations, NEW q \in Quantities, AllocateStock(c, a, q)
      PROVE  OneAtItem'
  BY <1>2 DEF AllocateStock, Ask, LockJob
<1>3. ASSUME NEW c \in Clerks, NEW a \in Allocations, NEW q \in Quantities, DispatchAllocation(c, a, q)
      PROVE  OneAtItem'
  BY <1>3 DEF DispatchAllocation, Ask, LockJob
<1>4. ASSUME NEW c \in Clerks, NEW a \in Allocations, ReleaseAllocation(c, a)
      PROVE  OneAtItem'
  BY <1>4 DEF ReleaseAllocation, Ask, LockJob
<1>5. ASSUME NEW c \in Clerks, LockItem(c) PROVE OneAtItem'
  BY <1>5 DEF LockItem, TakeItem, ItemFree
<1>6. ASSUME NEW c \in Clerks, CommitMovement(c) PROVE OneAtItem'
  BY <1>6 DEF CommitMovement, Leave
<1>7. ASSUME NEW c \in Clerks, CommitAllocation(c) PROVE OneAtItem'
  BY <1>7 DEF CommitAllocation, Leave
<1>8. ASSUME NEW c \in Clerks, CommitDispatch(c) PROVE OneAtItem'
  BY <1>8 DEF CommitDispatch, Leave
<1>9. ASSUME NEW c \in Clerks, CommitRelease(c) PROVE OneAtItem'
  BY <1>9 DEF CommitRelease, Leave
<1>10. ASSUME NEW c \in Clerks, Rollback(c) PROVE OneAtItem'
  BY <1>10 DEF Rollback, Leave
<1>11. ASSUME NEW c \in Clerks, PostCount(c) PROVE OneAtItem'
  BY <1>11 DEF PostCount, Leave
<1>12. ASSUME NEW c \in Clerks, CancelCount(c) PROVE OneAtItem'
  BY <1>12 DEF CancelCount, Leave
<1>13. ASSUME NEW c \in Clerks, NEW op \in Operation, RequestOnSession(c, op)
      PROVE  OneAtItem'
  BY <1>13 DEF RequestOnSession, Ask, OnSession
<1>14. CASE UNCHANGED <<itemLock, clerk>>
  BY <1>14
<1> HIDE DEF StockInv, ClerksOK, OneAtItem
<1> QED
  BY <1>1, <1>2, <1>3, <1>4, <1>5, <1>6, <1>7, <1>8, <1>9, <1>10, <1>11, <1>12,
     <1>13, <1>14
  DEF StockNext, stockVars, CancelJob, CompleteJob, HoldBatch, StartCount,
      CountLine

\* When who writes leaves, nobody is about to write.
LEMMA NobodyWrites ==
    ASSUME StockInv, NEW c \in Clerks, clerk[c] = "write", Leave(c)
    PROVE  \A d \in Clerks : clerk'[d] # "write"
BY StockConstants DEF StockInv, ClerksOK, OneAtItem, Leave

\* A correction of the stock, by a movement or a count, that fits what is unreserved.
LEMMA MovedIsCovered ==
    ASSUME StockInv, NEW c \in Clerks, clerk[c] = "write", doing[c] # "dispatch", Fits(c),
           NEW l \in Locations
    PROVE  Reserved(l) <= hand[l] + change[c][l]
<1>1. StockShape /\ StockRows /\ saw[c][l] <= hand[l] - Reserved(l) /\ Reserved(l) <= hand[l]
  BY DEF StockInv, SawCovered, ReservedIsCovered
<1>2. change[c][l] < 0 => saw[c][l] + change[c][l] >= 0
  BY DEF Fits
<1>3. Reserved(l) \in Int /\ hand[l] \in Int /\ change[c][l] \in Int /\ saw[c][l] \in Int
  BY <1>1, ReservedNat DEF StockShape
<1> QED
  BY <1>1, <1>2, <1>3

\* Reservations stay covered, and what the holder of the item's row has seen
\* stays there.
LEMMA CoverStep == StockInv /\ [StockNext]_stockVars => (ReservedIsCovered /\ SawCovered)'
<1> SUFFICES ASSUME StockInv, [StockNext]_stockVars PROVE (ReservedIsCovered /\ SawCovered)'
  OBVIOUS
<1>0. /\ StockShape /\ StockRows /\ ClerksOK /\ SawCovered /\ ReservedIsCovered
      /\ \A l \in Locations : Reserved(l) \in Int /\ hand[l] \in Int
  <2>1. StockShape /\ StockRows /\ ClerksOK /\ SawCovered /\ ReservedIsCovered
    BY DEF StockInv
  <2>2. \A l \in Locations : Reserved(l) \in Int /\ hand[l] \in Int
    BY <2>1, ReservedNat DEF StockShape
  <2> QED
    BY <2>1, <2>2
<1> USE StockConstants DEF allocVars, lockVars, clerkVars, sessionVars
<1>1. ASSUME NEW c \in Clerks, clerk'[c] = "write", saw'[c] = Unreserved,
             \A d \in Clerks \ {c} : clerk'[d] = clerk[d] /\ saw'[d] = saw[d],
             UNCHANGED <<hand, quantity, sent, released>>
      PROVE  (ReservedIsCovered /\ SawCovered)'
  <2>1. \A l \in Locations : Reserved(l)' = Reserved(l)
    BY <1>1 DEF Reserved, ReservedAt, Reserving, Outstanding
  <2>2. \A l \in Locations : saw'[c][l] = hand[l] - Reserved(l)
    BY <1>1 DEF Unreserved
  <2> QED
    BY <1>0, <1>1, <2>1, <2>2 DEF ReservedIsCovered, SawCovered
<1>2. ASSUME NEW c \in Clerks, NEW m \in Movements, RecordMovement(c, m)
      PROVE  (ReservedIsCovered /\ SawCovered)'
  BY <1>0, <1>1, <1>2 DEF RecordMovement, TakeItem, ClerksOK, StockShape
<1>3. ASSUME NEW c \in Clerks, LockItem(c) PROVE (ReservedIsCovered /\ SawCovered)'
  BY <1>0, <1>1, <1>3 DEF LockItem, TakeItem, ClerksOK, StockShape
<1>4. ASSUME NEW c \in Clerks, clerk[c] = "write", doing[c] # "dispatch", Fits(c),
             hand' = Moved(c), Leave(c), UNCHANGED <<quantity, sent, released>>
      PROVE  (ReservedIsCovered /\ SawCovered)'
  <2>1. \A l \in Locations : Reserved(l)' = Reserved(l)
    BY <1>4 DEF Reserved, ReservedAt, Reserving, Outstanding
  <2>2. \A l \in Locations : hand'[l] = hand[l] + change[c][l]
    BY <1>4 DEF Moved
  <2>3. \A l \in Locations : Reserved(l) <= hand[l] + change[c][l]
    BY <1>4, MovedIsCovered
  <2> QED
    BY <1>4, <2>1, <2>2, <2>3, NobodyWrites DEF ReservedIsCovered, SawCovered
<1>5. ASSUME NEW c \in Clerks, CommitMovement(c) PROVE (ReservedIsCovered /\ SawCovered)'
  BY <1>4, <1>5 DEF CommitMovement
<1>6. ASSUME NEW c \in Clerks, PostCount(c) PROVE (ReservedIsCovered /\ SawCovered)'
  BY <1>4, <1>6 DEF PostCount
<1>7. ASSUME NEW c \in Clerks, CommitAllocation(c) PROVE (ReservedIsCovered /\ SawCovered)'
  <2>1. clerk[c] = "write" /\ doing[c] # "dispatch" /\ Fits(c) /\ Leave(c) /\ UNCHANGED hand
    BY <1>7 DEF CommitAllocation
  <2>2. \A l \in Locations : Reserved(l)' = Reserved(l) - change[c][l]
    BY <1>7, ReservedAllocated
  <2>3. ASSUME NEW l \in Locations PROVE Reserved(l)' <= hand'[l]
    <3>1. CASE change[c][l] < 0
      <4>1. saw[c][l] + change[c][l] >= 0 /\ saw[c][l] <= hand[l] - Reserved(l)
        BY <1>0, <2>1, <3>1 DEF Fits, SawCovered
      <4>2. saw[c][l] \in Int /\ change[c][l] \in Int
        BY <1>0 DEF StockShape
      <4> QED
        BY <1>0, <2>1, <2>2, <4>1, <4>2
    <3>2. CASE ~(change[c][l] < 0)
      <4>1. change[c][l] \in Int /\ Reserved(l) <= hand[l]
        BY <1>0 DEF StockShape, ReservedIsCovered
      <4> QED
        BY <1>0, <2>1, <2>2, <3>2, <4>1
    <3> QED
      BY <3>1, <3>2
  <2> QED
    BY <2>1, <2>3, NobodyWrites DEF ReservedIsCovered, SawCovered
<1>8. ASSUME NEW c \in Clerks, CommitDispatch(c) PROVE (ReservedIsCovered /\ SawCovered)'
  <2>1. clerk[c] = "write" /\ Leave(c) /\ hand' = Moved(c)
    BY <1>8 DEF CommitDispatch
  <2>2. \A l \in Locations : Reserved(l)' = Reserved(l) + change[c][l]
    BY <1>8, ReservedDispatched
  <2>3. ASSUME NEW l \in Locations PROVE Reserved(l)' <= hand'[l]
    <3>1. change[c][l] \in Int /\ Reserved(l) <= hand[l] /\ hand'[l] = hand[l] + change[c][l]
      BY <1>0, <2>1 DEF StockShape, ReservedIsCovered, Moved
    <3> QED
      BY <1>0, <2>2, <3>1
  <2> QED
    BY <2>1, <2>3, NobodyWrites DEF ReservedIsCovered, SawCovered
<1>9. ASSUME UNCHANGED <<hand, quantity, sent>>, released \subseteq released',
             \A d \in Clerks : clerk'[d] = "write" => clerk[d] = "write" /\ saw'[d] = saw[d]
      PROVE  (ReservedIsCovered /\ SawCovered)'
  <2>1. \A l \in Locations : Reserved(l)' <= Reserved(l)
    BY <1>0, <1>9, ReservedFalls
  <2>2. ASSUME NEW l \in Locations PROVE Reserved(l)' \in Int
    <3>1. /\ Outstanding' = Outstanding
          /\ ReservedAt(l)' \subseteq ReservedAt(l)
      BY <1>9 DEF Outstanding, ReservedAt, Reserving
    <3>2. /\ IsFiniteSet(ReservedAt(l)')
          /\ \A a \in ReservedAt(l)' : Outstanding[a] \in Int
      BY <1>0, <3>1, ReservedNat, FS_Subset
    <3> QED
      BY <3>1, <3>2, SumInt DEF Reserved
  <2>3. \A l \in Locations : Reserved(l)' <= hand'[l]
    BY <1>0, <1>9, <2>1, <2>2 DEF ReservedIsCovered
  <2>4. ASSUME NEW d \in Clerks, clerk'[d] = "write", NEW l \in Locations
        PROVE  saw'[d][l] <= hand'[l] - Reserved(l)'
    <3>1. saw[d][l] <= hand[l] - Reserved(l) /\ saw[d][l] \in Int /\ saw'[d] = saw[d]
      BY <1>0, <1>9, <2>4 DEF SawCovered, StockShape
    <3> QED
      BY <1>0, <1>9, <2>1, <2>2, <3>1
  <2> QED
    BY <2>3, <2>4 DEF ReservedIsCovered, SawCovered
<1>10. ASSUME NEW c \in Clerks, CommitRelease(c) PROVE (ReservedIsCovered /\ SawCovered)'
  BY <1>9, <1>10, NobodyWrites DEF CommitRelease
<1>11. ASSUME NEW c \in Clerks, Rollback(c) PROVE (ReservedIsCovered /\ SawCovered)'
  BY <1>0, <1>9, <1>11 DEF Rollback, Leave, ClerksOK, StockShape
<1>12. ASSUME NEW c \in Clerks, CancelCount(c) PROVE (ReservedIsCovered /\ SawCovered)'
  BY <1>0, <1>9, <1>12 DEF CancelCount, Leave, ClerksOK, StockShape
<1>13. ASSUME NEW c \in Clerks, NEW op \in Operation, NEW a, NEW ch, Ask(c, op, a, ch),
              UNCHANGED <<hand, quantity, sent, released>>
       PROVE  (ReservedIsCovered /\ SawCovered)'
  BY <1>0, <1>9, <1>13 DEF Ask, ClerksOK
<1>14. ASSUME NEW c \in Clerks, NEW a \in Allocations, NEW q \in Quantities,
              AllocateStock(c, a, q) \/ DispatchAllocation(c, a, q)
       PROVE  (ReservedIsCovered /\ SawCovered)'
  BY <1>13, <1>14 DEF AllocateStock, DispatchAllocation, Operation
<1>15. ASSUME NEW c \in Clerks, NEW a \in Allocations, ReleaseAllocation(c, a)
       PROVE  (ReservedIsCovered /\ SawCovered)'
  BY <1>13, <1>15 DEF ReleaseAllocation, Operation
<1>16. ASSUME NEW c \in Clerks, NEW op \in Operation, RequestOnSession(c, op)
       PROVE  (ReservedIsCovered /\ SawCovered)'
  BY <1>13, <1>16 DEF RequestOnSession
<1>17. ASSUME NEW j \in Jobs, CancelJob(j) PROVE (ReservedIsCovered /\ SawCovered)'
  BY <1>9, <1>17 DEF CancelJob
<1>18. CASE UNCHANGED <<hand, quantity, sent, released, clerk, saw>>
  BY <1>9, <1>18
<1> QED
  BY <1>2, <1>3, <1>5, <1>6, <1>7, <1>8, <1>10, <1>11, <1>12, <1>14, <1>15, <1>16, <1>17,
     <1>18
  DEF StockNext, stockVars, CompleteJob, HoldBatch, StartCount, CountLine

\* At the start nobody asks for anything, and nothing is reserved.
LEMMA StockInitInv == StockInit => StockInv
<1> SUFFICES ASSUME StockInit PROVE StockInv
  OBVIOUS
<1>1. ClerksOK /\ DispatchedIsFree /\ OneOnSession /\ CountedOnce /\ OneAtItem
  BY DEF StockInit, ClerksOK, DispatchedIsFree, OneOnSession, CountedOnce, OneAtItem,
         OnSession, Operation
<1>2. StockShape
  <2>1. \A f : f = [x \in Clerks |-> Nothing] => f \in [Clerks -> [Locations -> Int]]
    BY ChangesAreInt
  <2>2. change \in [Clerks -> [Locations -> Int]] /\ saw \in [Clerks -> [Locations -> Int]]
    BY <2>1 DEF StockInit
  <2>3. hand \in [Locations -> Int] /\ variance \in [Locations -> Int]
    BY ChangesAreInt DEF StockInit
  <2>4. crossed \in BOOLEAN
    BY Zenon DEF StockInit
  <2>5. quantity \in [Allocations -> Int] /\ sent \in [Allocations -> Int]
    BY DEF StockInit
  <2>6. jobLock \in [Jobs -> Clerks \cup {NoClerk}] /\ itemLock \in Clerks \cup {NoClerk}
    BY DEF StockInit
  <2> QED
    BY <2>2, <2>3, <2>4, <2>5, <2>6 DEF StockInit, StockShape
<1>3. StockRows
  <2>1. Rows = {}
    BY DEF StockInit, Rows
  <2> QED
    BY <2>1, FS_EmptySet DEF StockInit, StockRows
<1>4. Requested
  BY DEF StockInit, Requested, OnJob
<1>5. \A l \in Locations : Reserved(l) = 0 /\ hand[l] = 0
  <2>1. \A l \in Locations : ReservedAt(l) = {}
    BY DEF StockInit, ReservedAt, Reserving
  <2> QED
    BY <2>1, SumEmpty DEF StockInit, Reserved, Nothing
<1>6. ReservedIsCovered /\ SawCovered
  BY <1>5 DEF StockInit, ReservedIsCovered, SawCovered
<1> QED
  BY <1>1, <1>2, <1>3, <1>4, <1>6 DEF StockInv

\* Every state has the inductive invariant.
THEOREM StockInvariant == StockSpec => []StockInv
<1>1. StockInv /\ [StockNext]_stockVars => StockInv'
  BY ClerksStep, ShapeStep, RowsStep, RequestedStep, ItemStep, CoverStep, DispatchStep,
     SessionStep
  DEF StockInv
<1> QED
  BY StockInitInv, <1>1, PTL DEF StockSpec

\* Every variable keeps its type; the stock does not become negative, because
\* what is reserved of it is not.
THEOREM StockTypeCorrect == StockSpec => []StockTypeOK
<1>1. StockInv => StockTypeOK
  <2> SUFFICES ASSUME StockInv PROVE StockTypeOK
    OBVIOUS
  <2>1. StockShape /\ StockRows /\ ClerksOK /\ ReservedIsCovered
    BY DEF StockInv
  <2>2. \A l \in Locations : hand[l] \in Nat
    <3>1. \A l \in Locations : Reserved(l) \in Nat /\ hand[l] \in Int
      BY <2>1, ReservedNat DEF StockShape
    <3> QED
      BY <2>1, <3>1 DEF ReservedIsCovered
  <2>3. \A a \in Allocations : quantity[a] \in Nat /\ sent[a] \in Nat
    BY <2>1 DEF StockShape, StockRows
  <2> QED
    BY <2>1, <2>2, <2>3 DEF StockShape, ClerksOK, StockTypeOK
<1> QED
  BY StockInvariant, <1>1, PTL

\* What is reserved for jobs is on hand, whatever requests overlap.
THEOREM ReservationsCovered == StockSpec => []ReservedIsCovered
BY StockInvariant, PTL DEF StockInv

\* The variance of a count reaches the stock once.
THEOREM CountPostedOnce == StockSpec => []CountedOnce
BY StockInvariant, PTL DEF StockInv

\* Nothing leaves an allocation on hold.
THEOREM HoldKeepsStock == StockSpec => HeldStays
<1>1. StockInv /\ [StockNext]_stockVars => [\A a \in held : sent'[a] = sent[a]]_stockVars
  <2> SUFFICES ASSUME StockInv, StockNext, NEW a \in held PROVE sent'[a] = sent[a]
    OBVIOUS
  <2>1. a \in DOMAIN sent
    BY DEF StockInv, ClerksOK
  <2>2. ASSUME NEW c \in Clerks, CommitDispatch(c) PROVE sent'[a] = sent[a]
    <3>1. about[c] # a
      BY <2>2 DEF CommitDispatch, StockInv, DispatchedIsFree
    <3> QED
      BY <2>1, <2>2, <3>1 DEF CommitDispatch
  <2>3. CASE UNCHANGED sent
    BY <2>3
  <2> QED
    BY <2>2, <2>3 DEF StockNext, allocVars, RecordMovement, AllocateStock,
       DispatchAllocation, ReleaseAllocation, LockItem, CommitMovement, CommitAllocation,
       CommitRelease, Rollback, PostCount, CancelCount, RequestOnSession, CancelJob,
       CompleteJob, HoldBatch, StartCount, CountLine
<1> QED
  BY StockInvariant, <1>1, PTL DEF StockSpec, HeldStays
================================================================================

------------------------------- MODULE HashChain -------------------------------
(***************************************************************************)
(* Hash-chained event tables.  A transaction takes the lock of its chain,  *)
(* reads the hash of the last row, and inserts a row that holds it as      *)
(* prev_hash; verification walks the rows in order and compares each       *)
(* prev_hash with the hash of the row before.                              *)
(*                                                                         *)
(* declaration_events and seal_movements are locked by the row of their    *)
(* declaration or lot and ordered by id, which the INSERT draws from a     *)
(* sequence.  ondi_auth_events is locked by an advisory lock and ordered   *)
(* by created_at, DEFAULT now(): the time at which the transaction began,  *)
(* which is before it asks for the lock.                                   *)
(*                                                                         *)
(* A hash stands for its row.  Sequence and clock share one counter, which *)
(* strictly increases: no two transactions begin in the same microsecond.  *)
(***************************************************************************)
EXTENDS Integers

CONSTANTS
    Writers,   \* transactions that append to one chain
    Appends,   \* events a transaction appends at most
    Orders,    \* the orders to consider, of {"begin", "insert"}
    Nobody     \* holder of a free lock

ASSUME ChainConstants ==
    /\ Appends \in Nat \ {0}
    /\ Orders \subseteq {"begin", "insert"}
    /\ Nobody \notin Writers

VARIABLES
    order,      \* which column the table is ordered by; never changes
    clock,      \* the last value of the sequence, and the time
    lock,       \* the transaction that holds the lock of the chain
    pc,         \* where each transaction is
    began,      \* its now()
    seen,       \* the row whose hash it has read
    count,      \* number of rows it has inserted
    committed,  \* transactions whose rows are visible to everyone
    key,        \* id or created_at of each row
    prev,       \* prev_hash of each row
    overtaken   \* history: a row was inserted below one already there

vars == <<order, clock, lock, pc, began, seen, count, committed, key, prev,
          overtaken>>

Genesis == <<Nobody, 0>>  \* prev_hash is null
Events  == Writers \X (1..Appends)
Hashes  == Events \cup {Genesis}

WriterPc == {"idle", "begun", "locked", "read", "inserted", "done", "aborted"}

Init ==
    /\ order     \in Orders
    /\ clock     = 0
    /\ lock      = Nobody
    /\ pc        = [w \in Writers |-> "idle"]
    /\ began     = [w \in Writers |-> 0]
    /\ seen      = [w \in Writers |-> Genesis]
    /\ count     = [w \in Writers |-> 0]
    /\ committed = {}
    /\ key       = [e \in Events |-> 0]
    /\ prev      = [e \in Events |-> Genesis]
    /\ overtaken = FALSE

Goto(w, at) == pc' = [pc EXCEPT ![w] = at]

Inserted(w) == {e \in Events : e[1] = w /\ e[2] <= count[w]}

\* The table, as other transactions see it and as w itself does.
Rows       == {e \in Events : e[1] \in committed /\ e[2] <= count[e[1]]}
Visible(w) == Rows \cup Inserted(w)

\* ORDER BY key DESC LIMIT 1; its hash, or null when there is no row.
IsTail(h, S) ==
    \/ S = {} /\ h = Genesis
    \/ h \in S /\ \A e \in S : key[e] <= key[h]
--------------------------------------------------------------------------------
Begin(w) ==
    /\ pc[w] = "idle"
    /\ clock' = clock + 1
    /\ began' = [began EXCEPT ![w] = clock + 1]
    /\ Goto(w, "begun")
    /\ UNCHANGED <<order, lock, seen, count, committed, key, prev, overtaken>>

\* A mutated ChainFree: the tail is read without a lock.
NoLock == TRUE

ChainFree == lock = Nobody

TakeLock(w) ==
    /\ pc[w] = "begun"
    /\ ChainFree
    /\ lock' = w
    /\ Goto(w, "locked")
    /\ UNCHANGED <<order, clock, began, seen, count, committed, key, prev,
                   overtaken>>

ReadTail(w) ==
    /\ pc[w] = "locked"
    /\ \E h \in Hashes :
          /\ IsTail(h, Visible(w))
          /\ seen' = [seen EXCEPT ![w] = h]
    /\ Goto(w, "read")
    /\ UNCHANGED <<order, clock, lock, began, count, committed, key, prev,
                   overtaken>>

\* A mutated NewKey: an age in place of a time.
NewAge(w) == began[w] - (clock + 1)

NewKey(w) == IF order = "begin" THEN began[w] ELSE clock + 1

Insert(w) ==
    LET e == <<w, count[w] + 1>> IN
    /\ pc[w] = "read"
    /\ clock' = clock + 1
    /\ count' = [count EXCEPT ![w] = @ + 1]
    /\ key' = [key EXCEPT ![e] = NewKey(w)]
    /\ prev' = [prev EXCEPT ![e] = seen[w]]
    /\ overtaken' = (overtaken \/ \E f \in Visible(w) : key[f] >= NewKey(w))
    /\ Goto(w, "inserted")
    /\ UNCHANGED <<order, lock, began, seen, committed>>

\* A transaction that records another event, as a dispatch does for each line
\* of the order: it holds the row lock already.  recordAuthEvent has one
\* transaction for each event.
InsertMore(w) ==
    /\ pc[w] = "inserted"
    /\ order = "insert"
    /\ count[w] < Appends
    /\ Goto(w, "locked")
    /\ UNCHANGED <<order, clock, lock, began, seen, count, committed, key,
                   prev, overtaken>>

Commit(w) ==
    /\ pc[w] = "inserted"
    /\ committed' = committed \cup {w}
    /\ lock' = Nobody
    /\ Goto(w, "done")
    /\ UNCHANGED <<order, clock, began, seen, count, key, prev, overtaken>>

\* A statement throws, or the process dies: the rows go, and the lock.
Abort(w) ==
    /\ pc[w] \in {"begun", "locked", "read", "inserted"}
    /\ count' = [count EXCEPT ![w] = 0]
    /\ lock' = IF lock = w THEN Nobody ELSE lock
    /\ Goto(w, "aborted")
    /\ UNCHANGED <<order, clock, began, seen, committed, key, prev, overtaken>>

Next ==
    \E w \in Writers :
        \/ Begin(w) \/ TakeLock(w) \/ ReadTail(w) \/ Insert(w)
        \/ InsertMore(w) \/ Commit(w) \/ Abort(w)

Spec == Init /\ [][Next]_vars
--------------------------------------------------------------------------------
TypeOK ==
    /\ order \in Orders
    /\ clock \in Nat
    /\ lock \in Writers \cup {Nobody}
    /\ pc \in [Writers -> WriterPc]
    /\ began \in [Writers -> Nat]
    /\ seen \in [Writers -> Hashes]
    /\ count \in [Writers -> 0..Appends]
    /\ committed \subseteq Writers
    /\ key \in [Events -> Nat]
    /\ prev \in [Events -> Hashes]
    /\ overtaken \in BOOLEAN

\* verifyAuditChain and verifyChain: each row of S holds the hash of the row
\* before it in the order of the keys, and the first holds none.
Linked(S) == \A e \in S : IsTail(prev[e], {f \in S : key[f] < key[e]})

\* The chains ordered by id verify, however their transactions interleave,
\* abort, or append several events: locks and ids are taken in one order.
LedgerVerifies == order = "insert" => Linked(Rows)

\* A chain fails to verify only after a row was inserted below one that was
\* there before: with nobody overtaken, no append forks or reorders it.
ForkNeedsOvertaking == Linked(Rows) \/ overtaken

\* audit-chain.ts: the advisory lock serializes the appends, and verification
\* proves that nothing was altered -- so a chain nobody altered verifies.
UntouchedChainVerifies == Linked(Rows)
--------------------------------------------------------------------------------
(* The parts of the inductive invariant that are not properties above      *)

Open(w) == pc[w] \in {"locked", "read", "inserted"}

\* One transaction at a time is between its lock and its commit, and only the
\* rows of open and committed transactions exist; one that will insert can.
OneWriter ==
    \A w \in Writers :
        /\ lock = w <=> Open(w)
        /\ w \in committed <=> pc[w] = "done"
        /\ ~Open(w) /\ w \notin committed => count[w] = 0
        /\ pc[w] \in {"locked", "read"} => count[w] < Appends

\* Nothing has a key above the clock, and ids are drawn in the order of the
\* inserts.
KeysInOrder ==
    /\ \A e \in Events : key[e] <= clock
    /\ \A w \in Writers : began[w] <= clock
    /\ order = "insert" => ~overtaken

\* What the holder of the lock sees is a chain, and what it has read its tail.
HolderSeesChain ==
    ~overtaken =>
        /\ Linked(Rows)
        /\ \A w \in Writers : Open(w) => Linked(Visible(w))
        /\ \A w \in Writers : pc[w] = "read" => IsTail(seen[w], Visible(w))

IndInv ==
    /\ TypeOK
    /\ OneWriter
    /\ KeysInOrder
    /\ HolderSeesChain
================================================================================

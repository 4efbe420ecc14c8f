---------------------------- MODULE HashChain_Proofs ----------------------------
(***************************************************************************)
(* For every number of transactions and of events in each: a chain that is *)
(* ordered by ids drawn under its lock verifies, and one that is ordered   *)
(* by the time of the transaction verifies until a transaction overtakes.  *)
(***************************************************************************)
EXTENDS HashChain, TLAPS

\* IsTail and Linked for given columns, so that two states can be compared.
Tail(k, h, S) ==
    \/ S = {} /\ h = Genesis
    \/ h \in S /\ \A e \in S : k[e] <= k[h]

Chain(k, p, S) == \A e \in S : Tail(k, p[e], {f \in S : k[f] < k[e]})

\* The two are the predicates of the model.
LEMMA TailAndChain ==
    /\ \A h, S : IsTail(h, S) <=> Tail(key, h, S)
    /\ \A S : Linked(S) <=> Chain(key, prev, S)
BY DEF IsTail, Linked, Tail, Chain

LEMMA TailAndChainNext ==
    /\ \A h, S : IsTail(h, S)' <=> Tail(key', h, S)
    /\ \A S : Linked(S)' <=> Chain(key', prev', S)
BY DEF IsTail, Linked, Tail, Chain

\* An event is a pair of a writer and a number, and no event is null.
LEMMA EventPairs ==
    /\ \A e \in Events : e[1] \in Writers /\ e[2] \in 1..Appends
    /\ \A e \in Events : e = <<e[1], e[2]>>
    /\ \A w \in Writers, i \in 1..Appends : <<w, i>> \in Events
    /\ Genesis \notin Events
BY ChainConstants DEF Events, Genesis

\* Only the rows of S matter to the tail of S and to the chain of S.
LEMMA TailAgrees ==
    ASSUME NEW S, NEW h, NEW k, NEW k2,
           \A e \in S : k2[e] = k[e],
           Tail(k, h, S)
    PROVE  Tail(k2, h, S)
BY DEF Tail

LEMMA ChainAgrees ==
    ASSUME NEW S, NEW k, NEW k2, NEW p, NEW p2,
           \A e \in S : k2[e] = k[e] /\ p2[e] = p[e],
           Chain(k, p, S)
    PROVE  Chain(k2, p2, S)
<1> SUFFICES ASSUME NEW e \in S
             PROVE  Tail(k2, p2[e], {f \in S : k2[f] < k2[e]})
    BY DEF Chain
<1> DEFINE T == {f \in S : k[f] < k[e]}
<1>1. Tail(k, p[e], T)
    BY DEF Chain
<1>2. {f \in S : k2[f] < k2[e]} = T
    OBVIOUS
<1>3. Tail(k2, p[e], T)
    <2>1. \A f \in T : k2[f] = k[f]
        OBVIOUS
    <2> QED BY <1>1, <2>1, TailAgrees
<1> QED BY <1>2, <1>3

\* A row that holds the hash of the tail, and whose key is above every other,
\* extends the chain.
LEMMA ChainExtends ==
    ASSUME NEW S, NEW e, e \notin S, NEW k, NEW k2, NEW p, NEW p2,
           \A f \in S : /\ k2[f] = k[f] /\ p2[f] = p[f]
                        /\ k[f] \in Int /\ k[f] < k2[e],
           k2[e] \in Int,
           Tail(k, p2[e], S),
           Chain(k, p, S)
    PROVE  Chain(k2, p2, S \cup {e})
<1> SUFFICES ASSUME NEW f \in S \cup {e}
             PROVE  Tail(k2, p2[f], {g \in S \cup {e} : k2[g] < k2[f]})
    BY DEF Chain
<1>1. CASE f = e
    <2>1. {g \in S \cup {e} : k2[g] < k2[f]} = S
        BY <1>1
    <2>2. Tail(k2, p2[f], S)
        BY <1>1, TailAgrees
    <2> QED BY <2>1, <2>2
<1>2. CASE f \in S
    <2>1. {g \in S \cup {e} : k2[g] < k2[f]} = {g \in S : k2[g] < k2[f]}
        BY <1>2
    <2>2. Chain(k2, p2, S)
        BY ChainAgrees
    <2> QED BY <1>2, <2>1, <2>2 DEF Chain
<1> QED BY <1>1, <1>2
--------------------------------------------------------------------------------
(* The inductive invariant                                                 *)

LEMMA InitInvariant == Init => IndInv
<1> SUFFICES ASSUME Init PROVE IndInv
    OBVIOUS
<1>1. TypeOK
    <2>1. pc \in [Writers -> WriterPc]
        BY DEF Init, WriterPc
    <2>2. count \in [Writers -> 0..Appends]
        BY ChainConstants DEF Init
    <2>3. seen \in [Writers -> Hashes] /\ prev \in [Events -> Hashes]
        BY DEF Init, Hashes
    <2> QED BY <2>1, <2>2, <2>3 DEF Init, TypeOK
<1>2. OneWriter
    BY ChainConstants DEF Init, OneWriter, Open
<1>3. KeysInOrder
    BY DEF Init, KeysInOrder
<1>4. Rows = {}
    BY DEF Init, Rows
<1>5. HolderSeesChain
    BY <1>4 DEF Init, HolderSeesChain, Open, Linked
<1> QED BY <1>1, <1>2, <1>3, <1>5 DEF IndInv

LEMMA TypeStep == IndInv /\ [Next]_vars => TypeOK'
<1> SUFFICES ASSUME IndInv, [Next]_vars PROVE TypeOK'
    OBVIOUS
<1> USE DEF IndInv, TypeOK, Goto, WriterPc
<1>1. ASSUME NEW w \in Writers, Begin(w) PROVE TypeOK'
    BY <1>1 DEF Begin
<1>2. ASSUME NEW w \in Writers, TakeLock(w) PROVE TypeOK'
    BY <1>2 DEF TakeLock
<1>3. ASSUME NEW w \in Writers, ReadTail(w) PROVE TypeOK'
    BY <1>3 DEF ReadTail
<1>4. ASSUME NEW w \in Writers, Insert(w) PROVE TypeOK'
    <2>1. count[w] + 1 \in 1..Appends
        BY <1>4, ChainConstants DEF Insert, OneWriter
    <2>2. NewKey(w) \in Nat
        BY DEF NewKey
    <2>3. count' \in [Writers -> 0..Appends]
        BY <1>4, <2>1 DEF Insert
    <2>4. key' \in [Events -> Nat]
        BY <1>4, <2>2 DEF Insert
    <2>5. prev' \in [Events -> Hashes]
        BY <1>4 DEF Insert
    <2>6. overtaken' \in BOOLEAN /\ clock' \in Nat /\ pc' \in [Writers -> WriterPc]
        BY <1>4 DEF Insert
    <2> QED BY <1>4, <2>3, <2>4, <2>5, <2>6 DEF Insert
<1>5. ASSUME NEW w \in Writers, InsertMore(w) PROVE TypeOK'
    BY <1>5 DEF InsertMore
<1>6. ASSUME NEW w \in Writers, Commit(w) PROVE TypeOK'
    BY <1>6 DEF Commit
<1>7. ASSUME NEW w \in Writers, Abort(w) PROVE TypeOK'
    BY <1>7, ChainConstants DEF Abort
<1>8. CASE UNCHANGED vars
    BY <1>8 DEF vars
<1> QED BY <1>1, <1>2, <1>3, <1>4, <1>5, <1>6, <1>7, <1>8 DEF Next

LEMMA OneWriterStep == IndInv /\ [Next]_vars => OneWriter'
<1> SUFFICES ASSUME IndInv, [Next]_vars PROVE OneWriter'
    OBVIOUS
<1> USE ChainConstants DEF IndInv, TypeOK, OneWriter, Open, Goto
<1>1. ASSUME NEW w \in Writers, Begin(w) PROVE OneWriter'
    BY <1>1 DEF Begin
<1>2. ASSUME NEW w \in Writers, TakeLock(w) PROVE OneWriter'
    BY <1>2 DEF TakeLock, ChainFree
<1>3. ASSUME NEW w \in Writers, ReadTail(w) PROVE OneWriter'
    BY <1>3 DEF ReadTail
<1>4. ASSUME NEW w \in Writers, Insert(w) PROVE OneWriter'
    BY <1>4 DEF Insert
<1>5. ASSUME NEW w \in Writers, InsertMore(w) PROVE OneWriter'
    BY <1>5 DEF InsertMore
<1>6. ASSUME NEW w \in Writers, Commit(w) PROVE OneWriter'
    BY <1>6 DEF Commit
<1>7. ASSUME NEW w \in Writers, Abort(w) PROVE OneWriter'
    BY <1>7 DEF Abort
<1>8. CASE UNCHANGED vars
    BY <1>8 DEF vars
<1> QED BY <1>1, <1>2, <1>3, <1>4, <1>5, <1>6, <1>7, <1>8 DEF Next

LEMMA KeysStep == IndInv /\ [Next]_vars => KeysInOrder'
<1> SUFFICES ASSUME IndInv, [Next]_vars PROVE KeysInOrder'
    OBVIOUS
<1> USE DEF IndInv, TypeOK, KeysInOrder
<1>1. ASSUME NEW w \in Writers, Begin(w) PROVE KeysInOrder'
    BY <1>1 DEF Begin
<1>2. ASSUME NEW w \in Writers, Insert(w) PROVE KeysInOrder'
    <2>1. NewKey(w) <= clock + 1
        BY DEF NewKey
    <2>2. \A e \in Events : key'[e] <= clock'
        BY <1>2, <2>1 DEF Insert
    <2>3. ASSUME order = "insert" PROVE ~overtaken'
        <3>1. NewKey(w) = clock + 1
            BY <2>3 DEF NewKey
        <3>2. Visible(w) \subseteq Events
            BY DEF Visible, Rows, Inserted
        <3>3. \A f \in Visible(w) : ~(key[f] >= NewKey(w))
            BY <3>1, <3>2
        <3> QED BY <1>2, <2>3, <3>3 DEF Insert
    <2> QED BY <1>2, <2>2, <2>3 DEF Insert
<1>3. ASSUME NEW w \in Writers,
             \/ TakeLock(w) \/ ReadTail(w) \/ InsertMore(w) \/ Commit(w) \/ Abort(w)
      PROVE  KeysInOrder'
    BY <1>3 DEF TakeLock, ReadTail, InsertMore, Commit, Abort
<1>4. CASE UNCHANGED vars
    BY <1>4 DEF vars
<1> QED BY <1>1, <1>2, <1>3, <1>4 DEF Next

\* A step that changes no row and opens no transaction keeps every chain.
LEMMA ViewStep ==
    ASSUME IndInv,
           UNCHANGED <<key, prev, overtaken>>,
           Rows' = Rows,
           \A v \in Writers : Open(v)' => Open(v) /\ Visible(v)' = Visible(v),
           \A v \in Writers : pc'[v] = "read" => /\ pc[v] = "read"
                                                 /\ seen'[v] = seen[v]
    PROVE  HolderSeesChain'
<1> SUFFICES ASSUME ~overtaken'
             PROVE  /\ Linked(Rows)'
                    /\ \A v \in Writers : Open(v)' => Linked(Visible(v))'
                    /\ \A v \in Writers : pc'[v] = "read" =>
                                                IsTail(seen[v], Visible(v))'
    BY DEF HolderSeesChain
<1>1. Linked(Rows)'
    BY DEF IndInv, HolderSeesChain, Linked, IsTail
<1>2. ASSUME NEW v \in Writers, Open(v)' PROVE Linked(Visible(v))'
    BY <1>2 DEF IndInv, HolderSeesChain, Linked, IsTail
<1>3. ASSUME NEW v \in Writers, pc'[v] = "read" PROVE IsTail(seen[v], Visible(v))'
    <2>1. Open(v)'
        BY <1>3 DEF Open
    <2> QED BY <1>3, <2>1 DEF IndInv, HolderSeesChain, IsTail
<1> QED BY <1>1, <1>2, <1>3

LEMMA HolderStep == IndInv /\ [Next]_vars => HolderSeesChain'
<1> SUFFICES ASSUME IndInv, [Next]_vars PROVE HolderSeesChain'
    OBVIOUS
<1>t. TypeOK /\ OneWriter
    BY DEF IndInv
<1>1. ASSUME NEW w \in Writers, Begin(w) PROVE HolderSeesChain'
    <2>1. Rows' = Rows /\ \A v \in Writers : Visible(v)' = Visible(v)
        BY <1>1 DEF Begin, Rows, Visible, Inserted
    <2>2. \A v \in Writers : /\ Open(v)' => Open(v)
                             /\ pc'[v] = "read" => pc[v] = "read"
        BY <1>1, <1>t DEF Begin, Goto, TypeOK, Open
    <2> QED BY <1>1, <2>1, <2>2, ViewStep DEF Begin
<1>2. ASSUME NEW w \in Writers, TakeLock(w) PROVE HolderSeesChain'
    <2>1. Rows' = Rows /\ UNCHANGED <<key, prev, overtaken>>
        BY <1>2 DEF TakeLock, Rows
    <2>2. \A v \in Writers : Open(v)' => v = w
        BY <1>2, <1>t, ChainConstants
           DEF TakeLock, ChainFree, Goto, TypeOK, OneWriter, Open
    <2>3. Visible(w)' = Rows
        <3>1. count'[w] = 0
            BY <1>2, <1>t DEF TakeLock, OneWriter, Open
        <3>2. Inserted(w)' = {}
            BY <3>1, EventPairs DEF Inserted
        <3> QED BY <2>1, <3>2 DEF Visible
    <2>4. \A v \in Writers : pc'[v] # "read"
        BY <1>2, <2>2, <1>t DEF TakeLock, Goto, TypeOK, Open
    <2>5. ASSUME ~overtaken PROVE Linked(Rows)' /\ Linked(Visible(w))'
        BY <2>1, <2>3, <2>5 DEF IndInv, HolderSeesChain, Linked, IsTail
    <2> QED BY <2>1, <2>2, <2>4, <2>5 DEF HolderSeesChain
<1>3. ASSUME NEW w \in Writers, ReadTail(w) PROVE HolderSeesChain'
    <2>1. /\ UNCHANGED <<key, prev, overtaken>>
          /\ Rows' = Rows
          /\ \A v \in Writers : Visible(v)' = Visible(v)
        BY <1>3 DEF ReadTail, Rows, Visible, Inserted
    <2>2. \A v \in Writers : Open(v)' => Open(v)
        BY <1>3, <1>t DEF ReadTail, Goto, TypeOK, Open
    <2>3. ASSUME ~overtaken
          PROVE  /\ Linked(Rows)'
                 /\ \A v \in Writers : Open(v)' => Linked(Visible(v))'
        BY <2>1, <2>2, <2>3 DEF IndInv, HolderSeesChain, Linked, IsTail
    <2>4. ASSUME ~overtaken, NEW v \in Writers, pc'[v] = "read"
          PROVE  IsTail(seen[v], Visible(v))'
        <3>1. CASE v = w
            <4>1. IsTail(seen'[w], Visible(w))
                BY <1>3, <1>t DEF ReadTail, TypeOK
            <4> QED BY <3>1, <4>1, <2>1 DEF IsTail
        <3>2. CASE v # w
            <4>1. pc[v] = "read" /\ seen'[v] = seen[v]
                BY <1>3, <1>t, <2>4, <3>2 DEF ReadTail, Goto, TypeOK
            <4> QED BY <2>1, <2>4, <4>1 DEF IndInv, HolderSeesChain, IsTail
        <3> QED BY <3>1, <3>2
    <2> QED BY <2>1, <2>3, <2>4 DEF HolderSeesChain
<1>4. ASSUME NEW w \in Writers, Insert(w) PROVE HolderSeesChain'
    <2> DEFINE e == <<w, count[w] + 1>>
    <2>1. /\ e \in Events /\ e[1] = w /\ e[2] = count[w] + 1
          /\ count[w] \in Nat /\ w \notin committed
        BY <1>4, <1>t, ChainConstants, EventPairs
           DEF Insert, TypeOK, OneWriter, Open
    <2>2. \A v \in Writers : Open(v)' => v = w
        BY <1>4, <1>t, ChainConstants DEF Insert, Goto, TypeOK, OneWriter, Open
    <2>3. \A v \in Writers : pc'[v] # "read"
        BY <1>4, <2>2, <1>t DEF Insert, Goto, TypeOK, Open
    <2>4. Visible(w) \subseteq Events /\ Rows \subseteq Visible(w)
        BY DEF Visible, Rows, Inserted
    <2>5. e \notin Visible(w)
        BY <2>1 DEF Visible, Rows, Inserted
    <2>6. \A f \in Visible(w) : key'[f] = key[f] /\ prev'[f] = prev[f]
        BY <1>4, <2>4, <2>5, <1>t DEF Insert, TypeOK
    <2>7. key'[e] = NewKey(w) /\ prev'[e] = seen[w] /\ NewKey(w) \in Int
        BY <1>4, <2>1, <1>t DEF Insert, TypeOK, NewKey
    <2>8. Rows' = Rows
        <3>1. \A f \in Events : f[1] \in committed => count'[f[1]] = count[f[1]]
            BY <1>4, <2>1, <1>t, EventPairs DEF Insert, TypeOK
        <3> QED BY <1>4, <3>1 DEF Insert, Rows
    <2>9. Inserted(w)' = Inserted(w) \cup {e}
        <3>1. count'[w] = count[w] + 1
            BY <1>4, <1>t DEF Insert, TypeOK
        <3>2. \A f \in Events : f[1] = w /\ f[2] <= count'[w] <=>
                                   \/ f[1] = w /\ f[2] <= count[w]
                                   \/ f = e
            BY <2>1, <3>1, EventPairs
        <3> QED BY <2>1, <3>2 DEF Inserted
    <2>10. Visible(w)' = Visible(w) \cup {e}
        BY <2>8, <2>9 DEF Visible
    <2>11. ASSUME ~overtaken' PROVE Linked(Rows)' /\ Linked(Visible(w))'
        <3>1. /\ ~overtaken
              /\ \A f \in Visible(w) : ~(key[f] >= NewKey(w))
            BY <1>4, <2>11 DEF Insert
        <3>2. \A f \in Visible(w) : key[f] \in Int /\ key[f] < key'[e]
            BY <3>1, <2>4, <2>7, <1>t DEF TypeOK
        <3>3. /\ Chain(key, prev, Rows)
              /\ Chain(key, prev, Visible(w))
              /\ Tail(key, prev'[e], Visible(w))
            BY <1>4, <3>1, <2>7, TailAndChain
               DEF Insert, IndInv, HolderSeesChain, Open
        <3>4. Chain(key', prev', Visible(w) \cup {e})
            <4> HIDE DEF e
            <4> QED BY <2>5, <2>6, <2>7, <3>2, <3>3, ChainExtends
        <3>5. Chain(key', prev', Rows)
            BY <2>4, <2>6, <3>3, ChainAgrees
        <3> QED BY <2>8, <2>10, <3>4, <3>5, TailAndChainNext
    <2> QED BY <2>2, <2>3, <2>11 DEF HolderSeesChain
<1>5. ASSUME NEW w \in Writers, InsertMore(w) PROVE HolderSeesChain'
    <2>1. Rows' = Rows /\ \A v \in Writers : Visible(v)' = Visible(v)
        BY <1>5 DEF InsertMore, Rows, Visible, Inserted
    <2>2. \A v \in Writers : /\ Open(v)' => Open(v)
                             /\ pc'[v] = "read" => pc[v] = "read"
        BY <1>5, <1>t DEF InsertMore, Goto, TypeOK, Open
    <2> QED BY <1>5, <2>1, <2>2, ViewStep DEF InsertMore
<1>6. ASSUME NEW w \in Writers, Commit(w) PROVE HolderSeesChain'
    <2>1. \A v \in Writers : ~Open(v)'
        BY <1>6, <1>t, ChainConstants DEF Commit, Goto, TypeOK, OneWriter, Open
    <2>2. Rows' = Visible(w)
        BY <1>6, EventPairs DEF Commit, Rows, Visible, Inserted
    <2>3. ASSUME ~overtaken PROVE Linked(Rows)'
        <3>1. Linked(Visible(w))
            BY <1>6, <2>3 DEF Commit, IndInv, HolderSeesChain, Open
        <3> QED BY <1>6, <2>2, <3>1 DEF Commit, Linked, IsTail
    <2>4. \A v \in Writers : pc'[v] # "read"
        BY <2>1 DEF Open
    <2> QED BY <1>6, <2>1, <2>3, <2>4 DEF Commit, HolderSeesChain
<1>7. ASSUME NEW w \in Writers, Abort(w) PROVE HolderSeesChain'
    <2>1. w \notin committed
        BY <1>7, <1>t DEF Abort, OneWriter
    <2>2. Rows' = Rows
        <3>1. \A f \in Events : f[1] \in committed => count'[f[1]] = count[f[1]]
            BY <1>7, <2>1, <1>t, EventPairs DEF Abort, TypeOK
        <3> QED BY <1>7, <3>1 DEF Abort, Rows
    <2>3. \A v \in Writers : /\ Open(v)' => Open(v) /\ v # w
                             /\ pc'[v] = "read" => pc[v] = "read"
        BY <1>7, <1>t DEF Abort, Goto, TypeOK, Open
    <2>4. \A v \in Writers : Open(v)' => Visible(v)' = Visible(v)
        <3> SUFFICES ASSUME NEW v \in Writers, Open(v)'
                     PROVE  Visible(v)' = Visible(v)
            OBVIOUS
        <3>1. count'[v] = count[v]
            BY <1>7, <2>3, <1>t DEF Abort, TypeOK
        <3> QED BY <2>2, <3>1 DEF Visible, Inserted
    <2> QED BY <1>7, <2>2, <2>3, <2>4, ViewStep DEF Abort
<1>8. CASE UNCHANGED vars
    <2>1. Rows' = Rows /\ \A v \in Writers : Visible(v)' = Visible(v)
        BY <1>8 DEF vars, Rows, Visible, Inserted
    <2>2. \A v \in Writers : Open(v)' => Open(v)
        BY <1>8 DEF vars, Open
    <2> QED BY <1>8, <2>1, <2>2, ViewStep DEF vars
<1> QED BY <1>1, <1>2, <1>3, <1>4, <1>5, <1>6, <1>7, <1>8 DEF Next

LEMMA InvariantStep == IndInv /\ [Next]_vars => IndInv'
BY TypeStep, OneWriterStep, KeysStep, HolderStep DEF IndInv

LEMMA Invariant == Spec => []IndInv
<1>1. Init => IndInv
    BY InitInvariant
<1>2. IndInv /\ [Next]_vars => IndInv'
    BY InvariantStep
<1> QED BY <1>1, <1>2, PTL DEF Spec
--------------------------------------------------------------------------------
\* Every variable keeps its type: no transaction inserts more than it may.
THEOREM TypeCorrect == Spec => []TypeOK
<1>1. IndInv => TypeOK
    BY DEF IndInv
<1> QED BY <1>1, Invariant, PTL

\* The chains of declarations and of bonded lots verify, however many
\* transactions append to them and however these interleave and abort.
THEOREM LedgerChainsVerify == Spec => []LedgerVerifies
<1>1. IndInv => LedgerVerifies
    BY DEF IndInv, KeysInOrder, HolderSeesChain, LedgerVerifies
<1> QED BY <1>1, Invariant, PTL

\* Where the lock is held from the read of the tail to the commit, a chain
\* breaks only after a row was inserted below another.
THEOREM OnlyOvertakingForks == Spec => []ForkNeedsOvertaking
<1>1. IndInv => ForkNeedsOvertaking
    BY DEF IndInv, HolderSeesChain, ForkNeedsOvertaking
<1> QED BY <1>1, Invariant, PTL
================================================================================

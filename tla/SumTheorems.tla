------------------------------ MODULE SumTheorems ------------------------------
(***************************************************************************)
(* Facts about sums over finite sets: what the balance of the wallet, the  *)
(* reservations of a stock item and the totals of the ledger rest on.      *)
(*                                                                         *)
(* A sum is defined by recursion over the subsets of a set.  The recursion *)
(* is shown to have one solution (SummingExists, SummingAgree); every      *)
(* other fact is then proved for a smallest subset for which it fails      *)
(* (SmallestSet), because a strict subset of a finite set comes before it  *)
(* in a well-founded order.                                                *)
(***************************************************************************)
EXTENDS Integers, Functions, FiniteSetTheorems, TLAPS

\* The element that the sum over s takes first.
Pick(s) == CHOOSE x \in s : TRUE

\* g is the function that SumFunctionOnSet(f, S) recurs with.
Summing(g, f, S) ==
    g = [s \in SUBSET S |-> IF s = {} THEN 0 ELSE f[Pick(s)] + g[s \ {Pick(s)}]]

\* Its value, for S and for the smaller sets it needs.
SumBy(f, S) == (CHOOSE g : Summing(g, f, S))[S]

\* The library's sum is that recursion.
LEMMA SumIsSumming == \A f, S : SumFunctionOnSet(f, S) = SumBy(f, S)
BY DEF SumFunctionOnSet, FoldFunctionOnSet, MapThenFoldSet, SumBy, Summing, Pick

\* What is chosen from a set is in it, and what is left is smaller.
LEMMA PickIn == \A s : s # {} => /\ Pick(s) \in s
                                 /\ s \ {Pick(s)} \in SUBSET s
                                 /\ s \ {Pick(s)} # s
<1> SUFFICES ASSUME NEW s, s # {}
             PROVE  Pick(s) \in s /\ s \ {Pick(s)} \in SUBSET s /\ s \ {Pick(s)} # s
  OBVIOUS
<1>1. PICK x \in s : TRUE
  OBVIOUS
<1>2. Pick(s) \in s
  BY <1>1 DEF Pick
<1> QED
  BY <1>2

\* Induction over the subsets of a finite set: what fails for one of them fails
\* for a smallest one.
LEMMA SmallestSet ==
    ASSUME NEW S, IsFiniteSet(S), NEW B, B \subseteq SUBSET S, B # {}
    PROVE  \E x \in B : \A y \in B : y \subseteq x => y = x
<1> DEFINE R == StrictSubsetOrdering(S)
<1>1. IsWellFoundedOn(R, SUBSET S)
  BY FS_StrictSubsetOrderingWellFounded, FS_FiniteSubsetsOfFinite
<1>2. PICK x \in B : \A y \in B : ~ (<<y, x>> \in R)
  <2> HIDE DEF R
  <2> QED BY <1>1, WFMin
<1>3. ASSUME NEW y \in B, y \subseteq x PROVE y = x
  BY <1>2, <1>3 DEF StrictSubsetOrdering
<1> QED
  BY <1>2, <1>3

\* A recursion over the subsets of S and one over the subsets of T agree on the
\* sets that both know.
LEMMA SummingAgree ==
    ASSUME NEW f, NEW S, NEW T \in SUBSET S, IsFiniteSet(S),
           NEW g, Summing(g, f, S), NEW h, Summing(h, f, T)
    PROVE  \A s \in SUBSET T : g[s] = h[s]
<1> DEFINE B == {s \in SUBSET T : g[s] # h[s]}
<1> SUFFICES ASSUME B # {} PROVE FALSE
  OBVIOUS
<1>1. PICK s \in B : \A y \in B : y \subseteq s => y = s
  <2>1. IsFiniteSet(T)
    BY FS_Subset
  <2>2. B \subseteq SUBSET T
    OBVIOUS
  <2> HIDE DEF B
  <2> QED BY <2>1, <2>2, SmallestSet
<1>2. s \in SUBSET T /\ s \in SUBSET S /\ g[s] # h[s]
  OBVIOUS
<1>3. /\ g[s] = IF s = {} THEN 0 ELSE f[Pick(s)] + g[s \ {Pick(s)}]
      /\ h[s] = IF s = {} THEN 0 ELSE f[Pick(s)] + h[s \ {Pick(s)}]
  BY <1>2 DEF Summing
<1>4. s # {}
  BY <1>2, <1>3
<1>5. s \ {Pick(s)} \in SUBSET s /\ s \ {Pick(s)} # s
  BY <1>4, PickIn
<1>6. s \ {Pick(s)} \notin B
  BY <1>1, <1>5
<1>7. g[s \ {Pick(s)}] = h[s \ {Pick(s)}]
  BY <1>2, <1>5, <1>6
<1> QED
  BY <1>2, <1>3, <1>7

\* The recursion is one: for a finite set there is such a function.
LEMMA SummingExists ==
    ASSUME NEW f, NEW S, IsFiniteSet(S)
    PROVE  \E g : Summing(g, f, S)
<1> DEFINE B == {s \in SUBSET S : ~ \E g : Summing(g, f, s)}
<1> SUFFICES ASSUME B # {} PROVE FALSE
  OBVIOUS
<1>1. PICK T \in B : \A y \in B : y \subseteq T => y = T
  <2>1. B \subseteq SUBSET S
    OBVIOUS
  <2> HIDE DEF B
  <2> QED BY <2>1, SmallestSet
<1>2. T \in SUBSET S /\ ~ \E g : Summing(g, f, T)
  OBVIOUS
<1> DEFINE H(u) == CHOOSE g : Summing(g, f, u)
<1>3. ASSUME NEW u \in SUBSET T, u # T
      PROVE  Summing(H(u), f, u)
  <2>1. \E g : Summing(g, f, u)
    BY <1>1, <1>3, <1>2
  <2> QED
    BY <2>1
<1> DEFINE G == [s \in SUBSET T |-> IF s = {} THEN 0
                                   ELSE f[Pick(s)] + H(s \ {Pick(s)})[s \ {Pick(s)}]]
<1>4. ASSUME NEW u \in SUBSET T, u # T
      PROVE  G[u] = H(u)[u]
  <2> DEFINE w == u \ {Pick(u)}
  <2>1. Summing(H(u), f, u)
    BY <1>3, <1>4
  <2>2. H(u)[u] = IF u = {} THEN 0 ELSE f[Pick(u)] + H(u)[w]
    <3> HIDE DEF H
    <3> QED BY <2>1 DEF Summing
  <2>3. G[u] = IF u = {} THEN 0 ELSE f[Pick(u)] + H(w)[w]
    <3> HIDE DEF H
    <3> QED OBVIOUS
  <2>4. ASSUME u # {} PROVE H(u)[w] = H(w)[w]
    <3>1. w \in SUBSET u /\ w # u
      BY <2>4, PickIn
    <3>2. w \in SUBSET T /\ w # T
      BY <3>1
    <3>3. Summing(H(w), f, w)
      <4> HIDE DEF w, H
      <4> QED BY <1>3, <3>2
    <3>4. IsFiniteSet(u)
      BY <1>2, FS_Subset
    <3> HIDE DEF w, H
    <3> QED
      BY <2>1, <3>1, <3>3, <3>4, SummingAgree
  <2> HIDE DEF G, H, w
  <2> QED
    BY <2>2, <2>3, <2>4
<1>5. Summing(G, f, T)
  <2>1. ASSUME NEW s \in SUBSET T, s # {}
        PROVE  H(s \ {Pick(s)})[s \ {Pick(s)}] = G[s \ {Pick(s)}]
    <3>1. s \ {Pick(s)} \in SUBSET T /\ s \ {Pick(s)} # T
      BY <2>1, PickIn
    <3> HIDE DEF G, H
    <3> QED BY <3>1, <1>4
  <2>2. G = [s \in SUBSET T |-> IF s = {} THEN 0 ELSE f[Pick(s)] + G[s \ {Pick(s)}]]
    <3>1. \A s \in SUBSET T : G[s] = IF s = {} THEN 0 ELSE f[Pick(s)] + H(s \ {Pick(s)})[s \ {Pick(s)}]
      <4> HIDE DEF H
      <4> QED OBVIOUS
    <3>2. \A s \in SUBSET T : G[s] = IF s = {} THEN 0 ELSE f[Pick(s)] + G[s \ {Pick(s)}]
      <4> HIDE DEF G, H
      <4> QED BY <2>1, <3>1
    <3>3. G = [s \in SUBSET T |-> G[s]]
      <4> HIDE DEF H
      <4> QED OBVIOUS
    <3> HIDE DEF G, H
    <3> QED BY <3>2, <3>3
  <2> HIDE DEF G, H
  <2> QED BY <2>2 DEF Summing
<1> HIDE DEF G, H
<1> QED
  BY <1>2, <1>5

\* A sum over a finite set takes one element and goes on with the others.
LEMMA SumRecursion ==
    ASSUME NEW f, NEW S, IsFiniteSet(S)
    PROVE  SumFunctionOnSet(f, S) =
              IF S = {} THEN 0 ELSE f[Pick(S)] + SumFunctionOnSet(f, S \ {Pick(S)})
<1> DEFINE G(T) == CHOOSE g : Summing(g, f, T)
           Rest == S \ {Pick(S)}
<1>1. IsFiniteSet(Rest)
  BY FS_RemoveElement
<1>2. Summing(G(S), f, S) /\ Summing(G(Rest), f, Rest)
  <2>1. (\E g : Summing(g, f, S)) /\ (\E g : Summing(g, f, Rest))
    <3> HIDE DEF Rest
    <3> QED BY <1>1, SummingExists
  <2> HIDE DEF Rest
  <2> QED BY <2>1
<1>3. SumFunctionOnSet(f, S) = G(S)[S] /\ SumFunctionOnSet(f, Rest) = G(Rest)[Rest]
  BY SumIsSumming DEF SumBy
<1>4. G(S)[S] = IF S = {} THEN 0 ELSE f[Pick(S)] + G(S)[Rest]
  <2> HIDE DEF G
  <2> QED BY <1>2 DEF Summing
<1>5. Rest \in SUBSET S /\ Rest \in SUBSET Rest
  OBVIOUS
<1>6. G(S)[Rest] = G(Rest)[Rest]
  <2> HIDE DEF G, Rest
  <2> QED BY <1>2, <1>5, SummingAgree
<1> HIDE DEF G
<1> QED
  BY <1>3, <1>4, <1>6

\* There is nothing in the empty sum.
LEMMA SumEmpty == \A f : SumFunctionOnSet(f, {}) = 0
BY SumRecursion, FS_EmptySet

\* A sum of integers is an integer.
LEMMA SumInt ==
    ASSUME NEW f, NEW S, IsFiniteSet(S), \A x \in S : f[x] \in Int
    PROVE  SumFunctionOnSet(f, S) \in Int
<1> DEFINE B == {T \in SUBSET S : SumFunctionOnSet(f, T) \notin Int}
<1> SUFFICES ASSUME B # {} PROVE FALSE
  OBVIOUS
<1>1. PICK T \in B : \A y \in B : y \subseteq T => y = T
  <2>1. B \subseteq SUBSET S
    OBVIOUS
  <2> HIDE DEF B
  <2> QED BY <2>1, SmallestSet
<1>2. T \in SUBSET S /\ SumFunctionOnSet(f, T) \notin Int /\ IsFiniteSet(T)
  BY FS_Subset
<1>3. T # {}
  BY <1>2, SumEmpty
<1>4. Pick(T) \in T /\ T \ {Pick(T)} \in SUBSET T /\ T \ {Pick(T)} # T
  BY <1>3, PickIn
<1>5. SumFunctionOnSet(f, T \ {Pick(T)}) \in Int
  BY <1>1, <1>2, <1>4
<1>6. SumFunctionOnSet(f, T) = f[Pick(T)] + SumFunctionOnSet(f, T \ {Pick(T)})
  BY <1>2, <1>3, SumRecursion
<1> QED
  BY <1>2, <1>4, <1>5, <1>6

\* Any element may be taken first.
LEMMA SumRemove ==
    ASSUME NEW f, NEW S, IsFiniteSet(S), \A x \in S : f[x] \in Int, NEW e \in S
    PROVE  SumFunctionOnSet(f, S) = f[e] + SumFunctionOnSet(f, S \ {e})
<1> DEFINE Splits(T, x) == SumFunctionOnSet(f, T) = f[x] + SumFunctionOnSet(f, T \ {x})
           B == {T \in SUBSET S : \E x \in T : ~Splits(T, x)}
<1> SUFFICES ASSUME B # {} PROVE FALSE
  OBVIOUS
<1>1. PICK T \in B : \A y \in B : y \subseteq T => y = T
  <2>1. B \subseteq SUBSET S
    OBVIOUS
  <2> HIDE DEF B
  <2> QED BY <2>1, SmallestSet
<1>2. PICK x \in T : ~Splits(T, x)
  OBVIOUS
<1> DEFINE p == Pick(T)
<1>3. /\ T \in SUBSET S
      /\ \A u \in SUBSET T : IsFiniteSet(u) /\ SumFunctionOnSet(f, u) \in Int
  <2>1. T \in SUBSET S
    OBVIOUS
  <2>2. ASSUME NEW u \in SUBSET T PROVE IsFiniteSet(u) /\ SumFunctionOnSet(f, u) \in Int
    <3>1. u \in SUBSET S /\ \A y \in u : f[y] \in Int
      BY <2>1
    <3>2. IsFiniteSet(u)
      BY <3>1, FS_Subset
    <3> QED
      BY <3>1, <3>2, SumInt
  <2> QED
    BY <2>1, <2>2
<1>4. p \in T /\ T # {}
  BY <1>2, PickIn
<1>5. Splits(T, p)
  <2>1. IsFiniteSet(T)
    BY <1>3
  <2> QED
    BY <1>4, <2>1, SumRecursion
<1>6. p # x
  BY <1>2, <1>5
<1>7. \A u \in SUBSET T : u # T => \A y \in u : Splits(u, y)
  <2> HIDE DEF Splits
  <2> QED BY <1>1, <1>3
<1>8. Splits(T \ {p}, x)
  <2>1. T \ {p} \in SUBSET T /\ T \ {p} # T /\ x \in T \ {p}
    BY <1>4, <1>6
  <2> HIDE DEF Splits, p
  <2> QED BY <1>7, <2>1
<1>9. Splits(T \ {x}, p)
  <2>1. T \ {x} \in SUBSET T /\ T \ {x} # T /\ p \in T \ {x}
    BY <1>2, <1>4, <1>6
  <2> HIDE DEF Splits, p
  <2> QED BY <1>7, <2>1
<1>10. (T \ {p}) \ {x} = (T \ {x}) \ {p}
  OBVIOUS
<1>11. SumFunctionOnSet(f, (T \ {x}) \ {p}) \in Int /\ f[p] \in Int /\ f[x] \in Int
  BY <1>2, <1>3, <1>4
<1>12. /\ SumFunctionOnSet(f, T) = f[p] + (f[x] + SumFunctionOnSet(f, (T \ {x}) \ {p}))
       /\ SumFunctionOnSet(f, T \ {x}) = f[p] + SumFunctionOnSet(f, (T \ {x}) \ {p})
  <2> HIDE DEF p
  <2> QED BY <1>5, <1>8, <1>9, <1>10
<1>13. SumFunctionOnSet(f, T) = f[x] + SumFunctionOnSet(f, T \ {x})
  <2> HIDE DEF p, B
  <2> QED BY <1>11, <1>12
<1> QED
  BY <1>2, <1>13

\* One more element adds its own amount.
LEMMA SumAdd ==
    ASSUME NEW f, NEW S, IsFiniteSet(S), NEW e, e \notin S,
           \A x \in S \cup {e} : f[x] \in Int
    PROVE  SumFunctionOnSet(f, S \cup {e}) = f[e] + SumFunctionOnSet(f, S)
<1>1. IsFiniteSet(S \cup {e})
  BY FS_AddElement
<1>2. (S \cup {e}) \ {e} = S /\ e \in S \cup {e}
  OBVIOUS
<1>3. SumFunctionOnSet(f, S \cup {e}) = f[e] + SumFunctionOnSet(f, (S \cup {e}) \ {e})
  <2> DEFINE T == S \cup {e}
  <2>1. IsFiniteSet(T) /\ e \in T /\ \A x \in T : f[x] \in Int
    BY <1>1
  <2> HIDE DEF T
  <2>2. SumFunctionOnSet(f, T) = f[e] + SumFunctionOnSet(f, T \ {e})
    BY <2>1, SumRemove
  <2> QED
    BY <2>2 DEF T
<1> QED
  BY <1>2, <1>3

\* Only the amounts of the elements matter.
LEMMA SumSame ==
    ASSUME NEW S, IsFiniteSet(S), NEW f, NEW g, \A x \in S : f[x] = g[x]
    PROVE  SumFunctionOnSet(f, S) = SumFunctionOnSet(g, S)
<1> DEFINE B == {T \in SUBSET S : SumFunctionOnSet(f, T) # SumFunctionOnSet(g, T)}
<1> SUFFICES ASSUME B # {} PROVE FALSE
  OBVIOUS
<1>1. PICK T \in B : \A y \in B : y \subseteq T => y = T
  <2>1. B \subseteq SUBSET S
    OBVIOUS
  <2> HIDE DEF B
  <2> QED BY <2>1, SmallestSet
<1>2. T \in SUBSET S /\ SumFunctionOnSet(f, T) # SumFunctionOnSet(g, T) /\ IsFiniteSet(T)
  BY FS_Subset
<1>3. T # {}
  BY <1>2, SumEmpty
<1>4. Pick(T) \in T /\ T \ {Pick(T)} \in SUBSET T /\ T \ {Pick(T)} # T
  BY <1>3, PickIn
<1>5. SumFunctionOnSet(f, T \ {Pick(T)}) = SumFunctionOnSet(g, T \ {Pick(T)})
  BY <1>1, <1>2, <1>4
<1>6. /\ SumFunctionOnSet(f, T) = f[Pick(T)] + SumFunctionOnSet(f, T \ {Pick(T)})
      /\ SumFunctionOnSet(g, T) = g[Pick(T)] + SumFunctionOnSet(g, T \ {Pick(T)})
  BY <1>2, <1>3, SumRecursion
<1> QED
  BY <1>2, <1>4, <1>5, <1>6

\* When the amount of one element changes, so does the sum.
LEMMA SumChange ==
    ASSUME NEW S, IsFiniteSet(S), NEW f, NEW g, NEW e \in S,
           \A x \in S : f[x] \in Int /\ g[x] \in Int,
           \A x \in S \ {e} : f[x] = g[x]
    PROVE  SumFunctionOnSet(g, S) = SumFunctionOnSet(f, S) + g[e] - f[e]
<1>1. /\ SumFunctionOnSet(f, S) = f[e] + SumFunctionOnSet(f, S \ {e})
      /\ SumFunctionOnSet(g, S) = g[e] + SumFunctionOnSet(g, S \ {e})
  BY SumRemove
<1>2. IsFiniteSet(S \ {e})
  BY FS_RemoveElement
<1>3. SumFunctionOnSet(f, S \ {e}) = SumFunctionOnSet(g, S \ {e})
  BY <1>2, SumSame
<1>4. SumFunctionOnSet(f, S \ {e}) \in Int
  BY <1>2, SumInt
<1> QED
  BY <1>1, <1>3, <1>4

\* Leaving elements out of a sum of amounts that are not negative does not
\* increase it.
LEMMA SumMonotone ==
    ASSUME NEW S, IsFiniteSet(S), NEW f, \A x \in S : f[x] \in Nat, NEW R \in SUBSET S
    PROVE  SumFunctionOnSet(f, R) <= SumFunctionOnSet(f, S)
<1> DEFINE B == {T \in SUBSET S : /\ R \subseteq T
                                  /\ ~(SumFunctionOnSet(f, R) <= SumFunctionOnSet(f, T))}
<1> SUFFICES ASSUME B # {} PROVE FALSE
  OBVIOUS
<1>1. PICK T \in B : \A y \in B : y \subseteq T => y = T
  <2>1. B \subseteq SUBSET S
    OBVIOUS
  <2> HIDE DEF B
  <2> QED BY <2>1, SmallestSet
<1>2. /\ T \in SUBSET S /\ R \subseteq T
      /\ ~(SumFunctionOnSet(f, R) <= SumFunctionOnSet(f, T))
  OBVIOUS
<1>3. ASSUME NEW u \in SUBSET S
      PROVE  IsFiniteSet(u) /\ SumFunctionOnSet(f, u) \in Int
  <2>1. IsFiniteSet(u)
    BY FS_Subset
  <2>2. \A x \in u : f[x] \in Int
    OBVIOUS
  <2> QED
    BY <2>1, <2>2, SumInt
<1>4. R # T
  BY <1>2, <1>3
<1>5. PICK e \in T : e \notin R
  BY <1>2, <1>4
<1>6. SumFunctionOnSet(f, R) <= SumFunctionOnSet(f, T \ {e})
  <2>1. R \subseteq T \ {e} /\ T \ {e} \in SUBSET S /\ T \ {e} # T /\ T \ {e} \subseteq T
    BY <1>2, <1>5
  <2> QED
    BY <1>1, <2>1
<1>7. SumFunctionOnSet(f, T) = f[e] + SumFunctionOnSet(f, T \ {e})
  <2>1. IsFiniteSet(T) /\ \A x \in T : f[x] \in Int
    BY <1>2, <1>3
  <2> QED
    BY <2>1, SumRemove
<1>8. f[e] \in Nat /\ T \ {e} \in SUBSET S
  BY <1>2
<1> QED
  BY <1>2, <1>3, <1>6, <1>7, <1>8

\* A sum of amounts that are not negative is not negative, nor less than one
\* of them.
LEMMA SumNat ==
    ASSUME NEW S, IsFiniteSet(S), NEW f, \A x \in S : f[x] \in Nat
    PROVE  /\ SumFunctionOnSet(f, S) \in Nat
           /\ \A x \in S : f[x] <= SumFunctionOnSet(f, S)
<1>1. \A x \in S : f[x] \in Int
  OBVIOUS
<1>2. SumFunctionOnSet(f, S) \in Int
  BY <1>1, SumInt
<1>3. SumFunctionOnSet(f, {}) <= SumFunctionOnSet(f, S)
  BY SumMonotone
<1>4. ASSUME NEW e \in S PROVE f[e] <= SumFunctionOnSet(f, S)
  <2>1. SumFunctionOnSet(f, S) = f[e] + SumFunctionOnSet(f, S \ {e})
    BY <1>1, SumRemove
  <2>2. IsFiniteSet(S \ {e}) /\ \A x \in S \ {e} : f[x] \in Nat /\ f[x] \in Int
    BY FS_RemoveElement
  <2>3. SumFunctionOnSet(f, {}) <= SumFunctionOnSet(f, S \ {e})
    BY <2>2, SumMonotone
  <2>4. SumFunctionOnSet(f, S \ {e}) \in Int
    BY <2>2, SumInt
  <2> QED
    BY <2>1, <2>3, <2>4, SumEmpty
<1> QED
  BY <1>2, <1>3, <1>4, SumEmpty

\* Amounts of zero come to zero.
LEMMA SumZero ==
    ASSUME NEW S, IsFiniteSet(S), NEW f, \A x \in S : f[x] = 0
    PROVE  SumFunctionOnSet(f, S) = 0
<1> DEFINE B == {T \in SUBSET S : SumFunctionOnSet(f, T) # 0}
<1> SUFFICES ASSUME B # {} PROVE FALSE
  OBVIOUS
<1>1. PICK T \in B : \A y \in B : y \subseteq T => y = T
  <2>1. B \subseteq SUBSET S
    OBVIOUS
  <2> HIDE DEF B
  <2> QED BY <2>1, SmallestSet
<1>2. T \in SUBSET S /\ SumFunctionOnSet(f, T) # 0 /\ IsFiniteSet(T)
  BY FS_Subset
<1>3. T # {}
  BY <1>2, SumEmpty
<1>4. Pick(T) \in T /\ T \ {Pick(T)} \in SUBSET T /\ T \ {Pick(T)} # T
  BY <1>3, PickIn
<1>5. SumFunctionOnSet(f, T \ {Pick(T)}) = 0
  BY <1>1, <1>2, <1>4
<1>6. SumFunctionOnSet(f, T) = f[Pick(T)] + SumFunctionOnSet(f, T \ {Pick(T)})
  BY <1>2, <1>3, SumRecursion
<1> QED
  BY <1>2, <1>4, <1>5, <1>6
================================================================================

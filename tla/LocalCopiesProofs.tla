-------------------------- MODULE LocalCopiesProofs --------------------------
(***************************************************************************)
(* The spool directory (module LocalCopies), for any number of paths,      *)
(* files and sizes, any limits, and any number of uploads.                 *)
(*                                                                         *)
(* Three inductive invariants, each on top of the last:                    *)
(*   ServeInv   the copies that are served: a copy is on disk, belongs to  *)
(*              one entry and is not stranded, and copies are numbered in  *)
(*              the order of their uploads;                                *)
(*   TrackInv   and, with one writer per path, no file is without an owner *)
(*              (a request that moves or deletes a path has removed what   *)
(*              it is about to write over);                                *)
(*   BudgetInv  and the bytes on disk are within the limit, for which a    *)
(*              stranded file may not take more than it is counted with.   *)
(*                                                                         *)
(* The usage is a fold over a set.  The first part proves what a sum over  *)
(* a finite set is: the subsets of a finite set, ordered by inclusion, are *)
(* well-founded, so a set of counterexamples has a smallest one.           *)
(***************************************************************************)
EXTENDS LocalCopies, FiniteSetTheorems, WellFoundedInduction, TLAPS

\* The element a sum takes first.
First(s) == CHOOSE x \in s : TRUE

Sums(h, g, S) ==
    h = [s \in SUBSET S |-> IF s = {} THEN 0 ELSE g[First(s)] + h[s \ {First(s)}]]

Total(g, S) == (CHOOSE h : Sums(h, g, S))[S]

LEMMA FirstIn == \A s : s # {} => First(s) \in s
  BY DEF First

\* Among the finite subsets of S that are bad, one has no bad proper subset.
LEMMA SubsetMinimal ==
  ASSUME NEW S, IsFiniteSet(S), NEW Bad, Bad \subseteq SUBSET S, Bad # {}
  PROVE  \E T \in Bad : /\ T \in SUBSET S /\ IsFiniteSet(T)
                        /\ \A U \in SUBSET T : U # T => U \notin Bad
<1>1. IsWellFoundedOn(StrictSubsetOrdering(S), FiniteSubsetsOf(S))
  BY FS_StrictSubsetOrderingWellFounded
<1>2. Bad \subseteq FiniteSubsetsOf(S)
  BY FS_FiniteSubsetsOfFinite
<1>3. PICK T \in Bad : \A U \in Bad : ~(<<U, T>> \in StrictSubsetOrdering(S))
  BY <1>1, <1>2, WFMin
<1>4. ASSUME NEW U \in SUBSET T, U # T, U \in Bad PROVE FALSE
  <2>1. <<U, T>> \in StrictSubsetOrdering(S)
    BY <1>3, <1>4 DEF StrictSubsetOrdering
  <2> QED BY <1>3, <1>4, <2>1
<1>5. T \in SUBSET S /\ IsFiniteSet(T)
  BY <1>3, FS_Subset
<1> QED BY <1>3, <1>4, <1>5

\* What holds of the empty set, and still holds when an element is added,
\* holds of every subset of a finite set; Q is the set of those it holds of.
LEMMA SetInduction ==
  ASSUME NEW S, IsFiniteSet(S), NEW Q, {} \in Q,
         \A T \in Q, x \in S : T \subseteq S /\ x \notin T => T \cup {x} \in Q
  PROVE  \A T \in SUBSET S : T \in Q
<1> DEFINE Bad == {T \in SUBSET S : T \notin Q}
<1>1. ASSUME Bad # {} PROVE FALSE
  <2>1. PICK T \in Bad : /\ T \in SUBSET S /\ IsFiniteSet(T)
                         /\ \A U \in SUBSET T : U # T => U \notin Bad
    <3>1. Bad \subseteq SUBSET S
      OBVIOUS
    <3> HIDE DEF Bad
    <3> QED BY <1>1, <3>1, SubsetMinimal
  <2>2. PICK x \in T : TRUE
    BY <2>1
  <2>3. T \ {x} \in Q /\ T \ {x} \subseteq S /\ x \in S /\ x \notin T \ {x}
    BY <2>1, <2>2
  <2>4. (T \ {x}) \cup {x} = T
    BY <2>2
  <2> QED BY <2>1, <2>3, <2>4
<1> QED BY <1>1

LEMMA SumsRestrict ==
  ASSUME NEW S, NEW g, NEW h, Sums(h, g, S), NEW T \in SUBSET S
  PROVE  Sums([s \in SUBSET T |-> h[s]], g, T)
<1> DEFINE k == [s \in SUBSET T |-> h[s]]
<1>1. ASSUME NEW s \in SUBSET T
      PROVE  k[s] = IF s = {} THEN 0 ELSE g[First(s)] + k[s \ {First(s)}]
  <2>1. h[s] = IF s = {} THEN 0 ELSE g[First(s)] + h[s \ {First(s)}]
    BY DEF Sums
  <2> QED BY <2>1
<1>2. k = [s \in SUBSET T |-> IF s = {} THEN 0 ELSE g[First(s)] + k[s \ {First(s)}]]
  BY <1>1
<1> QED BY <1>2 DEF Sums

\* There is one such function ...
LEMMA SumsUnique ==
  ASSUME NEW S, IsFiniteSet(S), NEW g, NEW h, Sums(h, g, S), NEW k, Sums(k, g, S)
  PROVE  h = k
<1> DEFINE Bad == {s \in SUBSET S : h[s] # k[s]}
<1>1. \A s \in SUBSET S : /\ h[s] = IF s = {} THEN 0 ELSE g[First(s)] + h[s \ {First(s)}]
                          /\ k[s] = IF s = {} THEN 0 ELSE g[First(s)] + k[s \ {First(s)}]
  BY DEF Sums
<1>2. ASSUME Bad # {} PROVE FALSE
  <2>1. PICK T \in Bad : /\ T \in SUBSET S /\ IsFiniteSet(T)
                         /\ \A U \in SUBSET T : U # T => U \notin Bad
    <3>1. Bad \subseteq SUBSET S
      OBVIOUS
    <3> HIDE DEF Bad
    <3> QED BY <1>2, <3>1, SubsetMinimal
  <2>2. T # {} /\ T \in SUBSET S
    BY <1>1, <2>1
  <2>3. First(T) \in T
    BY <2>2, FirstIn
  <2>4. h[T \ {First(T)}] = k[T \ {First(T)}]
    BY <2>1, <2>3
  <2> QED BY <1>1, <2>1, <2>2, <2>4
<1>3. \A s \in SUBSET S : h[s] = k[s]
  BY <1>2
<1> QED BY <1>3 DEF Sums

\* ... and there is one on every finite set.
LEMMA SumsExist ==
  ASSUME NEW S, IsFiniteSet(S), NEW g
  PROVE  \E h : Sums(h, g, S)
<1> DEFINE Bad == {T \in SUBSET S : ~ \E h : Sums(h, g, T)}
<1>1. ASSUME Bad # {} PROVE FALSE
  <2>1. PICK T \in Bad : /\ T \in SUBSET S /\ IsFiniteSet(T)
                         /\ \A U \in SUBSET T : U # T => U \notin Bad
    <3>1. Bad \subseteq SUBSET S
      OBVIOUS
    <3> HIDE DEF Bad
    <3> QED BY <1>1, <3>1, SubsetMinimal
  <2> DEFINE h == [s \in SUBSET T |->
                     IF s = {} THEN 0 ELSE g[First(s)] + Total(g, s \ {First(s)})]
  <2>2. ASSUME NEW s \in SUBSET T, s # {} PROVE Total(g, s \ {First(s)}) = h[s \ {First(s)}]
    <3> DEFINE r == s \ {First(s)}
               k == CHOOSE q : Sums(q, g, r)
    <3>1. First(s) \in s
      BY <2>2, FirstIn
    <3>2. r \in SUBSET T /\ r # T /\ r \in SUBSET S /\ IsFiniteSet(r)
      BY <2>1, <3>1, FS_Subset
    <3>3. Sums(k, g, r)
      BY <2>1, <3>2
    <3>4. k[r] = IF r = {} THEN 0 ELSE g[First(r)] + k[r \ {First(r)}]
      BY <3>3 DEF Sums
    <3>5. ASSUME r # {} PROVE k[r \ {First(r)}] = Total(g, r \ {First(r)})
      <4> DEFINE t == r \ {First(r)}
                 j == [u \in SUBSET t |-> k[u]]
      <4>1. t \in SUBSET r /\ IsFiniteSet(t)
        BY <3>2, FS_Subset
      <4>2. Sums(j, g, t)
        BY ZenonT(60), <3>3, <4>1, SumsRestrict
      <4>3. Sums(CHOOSE q : Sums(q, g, t), g, t)
        BY <4>2
      <4>4. j = CHOOSE q : Sums(q, g, t)
        <5> HIDE DEF j, t
        <5> QED BY <4>1, <4>2, <4>3, SumsUnique
      <4> QED BY <4>4 DEF Total
    <3> QED BY <3>2, <3>4, <3>5 DEF Total
  <2>3. Sums(h, g, T)
    <3>1. \A s \in SUBSET T : h[s] = IF s = {} THEN 0 ELSE g[First(s)] + h[s \ {First(s)}]
      BY <2>2
    <3> HIDE DEF h
    <3>2. h = [s \in SUBSET T |-> h[s]]
      BY DEF h
    <3> QED BY <3>1, <3>2 DEF Sums
  <2> QED BY <2>1, <2>3
<1> QED BY <1>1, FS_Subset

LEMMA TotalEmpty == \A g : Total(g, {}) = 0
<1> TAKE g
<1>1. PICK h : Sums(h, g, {})
  BY SumsExist, FS_EmptySet
<1>2. Sums(CHOOSE k : Sums(k, g, {}), g, {})
  BY <1>1
<1> QED BY <1>2 DEF Sums, Total

LEMMA TotalFirst ==
  ASSUME NEW S, IsFiniteSet(S), S # {}, NEW g
  PROVE  Total(g, S) = g[First(S)] + Total(g, S \ {First(S)})
<1> DEFINE h == CHOOSE k : Sums(k, g, S)
           T == S \ {First(S)}
           j == [s \in SUBSET T |-> h[s]]
<1>1. Sums(h, g, S)
  BY SumsExist
<1>2. T \in SUBSET S /\ IsFiniteSet(T)
  BY FS_Subset
<1>3. Sums(j, g, T)
  <2> HIDE DEF h, T
  <2> QED BY <1>1, <1>2, SumsRestrict
<1>4. h[S] = g[First(S)] + h[T]
  BY <1>1 DEF Sums
<1>5. Sums(CHOOSE k : Sums(k, g, T), g, T)
  BY <1>3
<1>6. j = CHOOSE k : Sums(k, g, T)
  <2> HIDE DEF j, T
  <2> QED BY <1>2, <1>3, <1>5, SumsUnique
<1> QED BY <1>4, <1>6 DEF Total

LEMMA TotalNat ==
  ASSUME NEW S, IsFiniteSet(S), NEW g, \A x \in S : g[x] \in Nat
  PROVE  Total(g, S) \in Nat
<1> DEFINE Bad == {T \in SUBSET S : Total(g, T) \notin Nat}
<1>1. ASSUME Bad # {} PROVE FALSE
  <2>1. PICK T \in Bad : /\ T \in SUBSET S /\ IsFiniteSet(T)
                         /\ \A U \in SUBSET T : U # T => U \notin Bad
    <3>1. Bad \subseteq SUBSET S
      OBVIOUS
    <3> HIDE DEF Bad
    <3> QED BY <1>1, <3>1, SubsetMinimal
  <2>2. T # {}
    <3>1. Total(g, {}) \in Nat
      BY TotalEmpty
    <3> QED BY <2>1, <3>1
  <2> DEFINE U == T \ {First(T)}
  <2>3. First(T) \in T
    BY <2>2, FirstIn
  <2>4. Total(g, U) \in Nat
    BY <2>1, <2>3
  <2>5. Total(g, T) = g[First(T)] + Total(g, U)
    BY <2>1, <2>2, TotalFirst
  <2>6. g[First(T)] \in Nat
    BY <2>1, <2>3
  <2>7. Total(g, T) \in Nat
    <3> HIDE DEF U
    <3> QED BY <2>4, <2>5, <2>6
  <2> QED BY <2>1, <2>7
<1> QED BY <1>1

\* It does not matter which element goes first.
LEMMA TotalRemove ==
  ASSUME NEW S, IsFiniteSet(S), NEW g, \A x \in S : g[x] \in Nat, NEW x \in S
  PROVE  Total(g, S) = g[x] + Total(g, S \ {x})
<1> DEFINE Splits(T) == \A z \in T : Total(g, T) = g[z] + Total(g, T \ {z})
           Bad == {T \in SUBSET S : ~Splits(T)}
<1>1. ASSUME Bad # {} PROVE FALSE
  <2>1. PICK T \in Bad : /\ T \in SUBSET S /\ IsFiniteSet(T)
                         /\ \A U \in SUBSET T : U # T => U \notin Bad
    <3>1. Bad \subseteq SUBSET S
      OBVIOUS
    <3> HIDE DEF Bad
    <3> QED BY <1>1, <3>1, SubsetMinimal
  <2>2. PICK z \in T : Total(g, T) # g[z] + Total(g, T \ {z})
    BY <2>1
  <2> DEFINE y == First(T)
             U == T \ {z}
             V == T \ {y}
             W == T \ {y, z}
  <2>3. y \in T
    BY <2>2, FirstIn
  <2>4. Total(g, T) = g[y] + Total(g, V)
    BY <2>1, <2>2, TotalFirst
  <2> HIDE DEF y
  <2>5. z # y
    BY <2>2, <2>4
  <2>6. /\ V \ {z} = W /\ V \in SUBSET T /\ V # T /\ z \in V
        /\ U \ {y} = W /\ U \in SUBSET T /\ U # T /\ y \in U
    BY <2>2, <2>3, <2>5
  <2>7. Splits(U) /\ Splits(V)
    BY <2>1, <2>6
  <2>8. Total(g, V) = g[z] + Total(g, W) /\ Total(g, U) = g[y] + Total(g, W)
    BY <2>6, <2>7
  <2>9. W \in SUBSET S /\ IsFiniteSet(W)
    BY <2>1, FS_Subset
  <2>10. Total(g, W) \in Nat /\ g[y] \in Nat /\ g[z] \in Nat
    BY <2>1, <2>2, <2>3, <2>9, TotalNat
  <2>11. Total(g, T) = g[z] + Total(g, U)
    <3> HIDE DEF U, V, W
    <3> QED BY <2>4, <2>8, <2>10
  <2> QED BY <2>2, <2>11
<1> HIDE DEF Splits
<1>2. Splits(S)
  BY <1>1
<1> QED BY <1>2 DEF Splits

LEMMA TotalAdd ==
  ASSUME NEW S, IsFiniteSet(S), NEW x, x \notin S, NEW g,
         g[x] \in Nat, \A y \in S : g[y] \in Nat
  PROVE  Total(g, S \cup {x}) = Total(g, S) + g[x]
<1> DEFINE T == S \cup {x}
<1>1. IsFiniteSet(T) /\ x \in T /\ T \ {x} = S /\ \A y \in T : g[y] \in Nat
  BY FS_AddElement
<1>2. Total(g, S) \in Nat
  BY TotalNat
<1>3. Total(g, T) = g[x] + Total(g, S)
  <2> HIDE DEF T
  <2>1. Total(g, T) = g[x] + Total(g, T \ {x})
    BY <1>1, TotalRemove
  <2> QED BY <1>1, <2>1
<1> QED BY <1>2, <1>3

\* Sums of disjoint sets add up.
LEMMA TotalUnion ==
  ASSUME NEW S, IsFiniteSet(S), NEW T, IsFiniteSet(T), S \cap T = {}, NEW g,
         \A x \in S \cup T : g[x] \in Nat
  PROVE  Total(g, S \cup T) = Total(g, S) + Total(g, T)
<1> DEFINE Q == {U \in SUBSET T : Total(g, S \cup U) = Total(g, S) + Total(g, U)}
<1>1. Total(g, S) \in Nat
  BY TotalNat
<1>2. {} \in Q
  <2>1. S \cup {} = S
    OBVIOUS
  <2> QED BY <1>1, <2>1, TotalEmpty
<1>3. ASSUME NEW U \in Q, NEW x \in T, U \subseteq T, x \notin U PROVE U \cup {x} \in Q
  <2>1. IsFiniteSet(U) /\ IsFiniteSet(S \cup U)
    BY <1>3, FS_Subset, FS_Union
  <2> DEFINE R == S \cup U
  <2>2. Total(g, R \cup {x}) = Total(g, R) + g[x]
    <3>1. x \notin R /\ g[x] \in Nat /\ \A y \in R : g[y] \in Nat
      BY <1>3
    <3> HIDE DEF R
    <3> QED BY <2>1, <3>1, TotalAdd DEF R
  <2>3. Total(g, U \cup {x}) = Total(g, U) + g[x]
    BY <1>3, <2>1, TotalAdd
  <2>4. Total(g, U) \in Nat /\ g[x] \in Nat
    BY <1>3, <2>1, TotalNat
  <2>5. S \cup (U \cup {x}) = R \cup {x} /\ U \cup {x} \in SUBSET T
    BY <1>3
  <2>6. Total(g, R) = Total(g, S) + Total(g, U)
    BY <1>3
  <2>7. Total(g, R \cup {x}) = Total(g, S) + Total(g, U \cup {x})
    <3> HIDE DEF R
    <3> QED BY <1>1, <2>2, <2>3, <2>4, <2>6
  <2>8. Total(g, S \cup (U \cup {x})) = Total(g, S) + Total(g, U \cup {x})
    BY <2>5, <2>7
  <2> QED BY <2>5, <2>8
<1>4. T \in Q
  <2> HIDE DEF Q
  <2> QED BY <1>2, <1>3, SetInduction
<1> QED BY <1>4

LEMMA TotalMonotone ==
  ASSUME NEW S, IsFiniteSet(S), NEW T \in SUBSET S, NEW g, \A x \in S : g[x] \in Nat
  PROVE  Total(g, T) <= Total(g, S)
<1> DEFINE U == S \ T
<1>1. /\ IsFiniteSet(T) /\ IsFiniteSet(U) /\ T \cup U = S /\ T \cap U = {}
      /\ (\A x \in T : g[x] \in Nat) /\ (\A x \in U : g[x] \in Nat)
  BY FS_Subset
<1> HIDE DEF U
<1>2. Total(g, S) = Total(g, T) + Total(g, U)
  BY <1>1, TotalUnion
<1>3. Total(g, T) \in Nat /\ Total(g, U) \in Nat
  BY <1>1, TotalNat
<1> QED BY <1>2, <1>3

LEMMA TotalDifference ==
  ASSUME NEW S, IsFiniteSet(S), NEW T \in SUBSET S, NEW g, \A x \in S : g[x] \in Nat
  PROVE  Total(g, S \ T) = Total(g, S) - Total(g, T)
<1> DEFINE U == S \ T
<1>1. /\ IsFiniteSet(T) /\ IsFiniteSet(U) /\ T \cup U = S /\ T \cap U = {}
      /\ (\A x \in T : g[x] \in Nat) /\ (\A x \in U : g[x] \in Nat)
  BY FS_Subset
<1>2. Total(g, S) = Total(g, T) + Total(g, U)
  <2> HIDE DEF U
  <2> QED BY <1>1, TotalUnion
<1>3. Total(g, T) \in Nat /\ Total(g, U) \in Nat
  BY <1>1, TotalNat
<1> QED BY <1>2, <1>3

LEMMA TotalOfUnion ==
  ASSUME NEW S, IsFiniteSet(S), NEW T, IsFiniteSet(T), NEW g, \A x \in S \cup T : g[x] \in Nat
  PROVE  Total(g, S \cup T) <= Total(g, S) + Total(g, T)
<1> DEFINE U == T \ S
<1>1. /\ IsFiniteSet(U) /\ S \cup U = S \cup T /\ S \cap U = {} /\ U \in SUBSET T
      /\ (\A x \in S : g[x] \in Nat) /\ (\A x \in T : g[x] \in Nat)
      /\ (\A x \in S \cup U : g[x] \in Nat) /\ (\A x \in U : g[x] \in Nat)
  BY FS_Subset
<1> HIDE DEF U
<1>2. Total(g, S \cup U) = Total(g, S) + Total(g, U)
  BY <1>1, TotalUnion
<1>3. Total(g, S) \in Nat /\ Total(g, T) \in Nat /\ Total(g, U) \in Nat
  BY <1>1, TotalNat
<1>4. Total(g, U) <= Total(g, T)
  BY <1>1, TotalMonotone
<1>5. Total(g, S \cup T) = Total(g, S) + Total(g, U)
  BY <1>1, <1>2
<1> QED BY <1>3, <1>4, <1>5

LEMMA TotalPointwise ==
  ASSUME NEW S, IsFiniteSet(S), NEW g, NEW h,
         \A x \in S : g[x] \in Nat /\ h[x] \in Nat /\ g[x] <= h[x]
  PROVE  Total(g, S) <= Total(h, S)
<1> DEFINE Q == {U \in SUBSET S : Total(g, U) <= Total(h, U)}
<1>1. {} \in Q
  BY TotalEmpty
<1>2. ASSUME NEW U \in Q, NEW x \in S, U \subseteq S, x \notin U PROVE U \cup {x} \in Q
  <2>1. IsFiniteSet(U)
    BY <1>2, FS_Subset
  <2>2. /\ g[x] \in Nat /\ h[x] \in Nat /\ g[x] <= h[x]
        /\ (\A y \in U : g[y] \in Nat) /\ (\A y \in U : h[y] \in Nat)
    BY <1>2
  <2>3. Total(g, U \cup {x}) = Total(g, U) + g[x] /\ Total(h, U \cup {x}) = Total(h, U) + h[x]
    BY <1>2, <2>1, <2>2, TotalAdd
  <2>4. Total(g, U) \in Nat /\ Total(h, U) \in Nat
    BY <2>1, <2>2, TotalNat
  <2> QED BY <1>2, <2>2, <2>3, <2>4
<1>3. S \in Q
  <2> HIDE DEF Q
  <2> QED BY <1>1, <1>2, SetInduction
<1> QED BY <1>3

\* A sum does not depend on the names of what is counted.
LEMMA TotalImage ==
  ASSUME NEW P, IsFiniteSet(P), NEW g, NEW e, NEW h,
         \A p \in P : g[p] \in Nat /\ h[e[p]] = g[p],
         \A p, q \in P : e[p] = e[q] => p = q
  PROVE  /\ IsFiniteSet({e[p] : p \in P})
         /\ Total(h, {e[p] : p \in P}) = Total(g, P)
<1> DEFINE Im(U) == {e[p] : p \in U}
           Q == {U \in SUBSET P : IsFiniteSet(Im(U)) /\ Total(h, Im(U)) = Total(g, U)}
<1>1. {} \in Q
  <2>1. Im({}) = {}
    OBVIOUS
  <2> QED BY <2>1, TotalEmpty, FS_EmptySet
<1>2. ASSUME NEW U \in Q, NEW x \in P, U \subseteq P, x \notin U PROVE U \cup {x} \in Q
  <2>1. IsFiniteSet(U)
    BY <1>2, FS_Subset
  <2>2. Im(U \cup {x}) = Im(U) \cup {e[x]}
    OBVIOUS
  <2>3. e[x] \notin Im(U) /\ h[e[x]] = g[x] /\ g[x] \in Nat
    BY <1>2
  <2>4. \A y \in Im(U) : h[y] \in Nat
    BY <1>2
  <2>5. \A y \in U : g[y] \in Nat
    BY <1>2
  <2>6. Total(g, U \cup {x}) = Total(g, U) + g[x]
    BY <1>2, <2>1, <2>3, <2>5, TotalAdd
  <2>7. IsFiniteSet(Im(U)) /\ Total(h, Im(U)) = Total(g, U)
    BY <1>2
  <2> HIDE DEF Im
  <2>8. Total(h, Im(U) \cup {e[x]}) = Total(h, Im(U)) + h[e[x]]
    <3> DEFINE z == e[x]
               V == Im(U)
    <3>1. IsFiniteSet(V) /\ z \notin V /\ h[z] \in Nat /\ \A y \in V : h[y] \in Nat
      BY <2>3, <2>4, <2>7
    <3> HIDE DEF z, V
    <3>2. Total(h, V \cup {z}) = Total(h, V) + h[z]
      BY ZenonT(60), <3>1, TotalAdd
    <3> QED BY <3>2 DEF z, V
  <2>9. IsFiniteSet(Im(U) \cup {e[x]})
    BY <2>7, FS_AddElement
  <2> QED BY <1>2, <2>2, <2>3, <2>6, <2>7, <2>8, <2>9
<1>3. P \in Q
  <2> HIDE DEF Q
  <2> QED BY <1>1, <1>2, SetInduction
<1> QED BY <1>3
LEMMA SizesAreTotal ==
  ASSUME NEW S \in SUBSET Paths, IsFiniteSet(S)
  PROVE  MapThenSumSet(LAMBDA q : overlay[q].size, S) = Total([q \in Paths |-> overlay[q].size], S)
<1> DEFINE g == [q \in Paths |-> overlay[q].size]
           Eq(h) == h = [s \in SUBSET S |-> IF s = {} THEN 0 ELSE overlay[First(s)].size + h[s \ {First(s)}]]
<1>1. MapThenSumSet(LAMBDA q : overlay[q].size, S) = (CHOOSE h : Eq(h))[S]
  BY DEF MapThenSumSet, MapThenFoldSet, First
<1>2. \A h : Eq(h) <=> Sums(h, g, S)
  <2> TAKE h
  <2>1. ASSUME NEW s \in SUBSET S
        PROVE (IF s = {} THEN 0 ELSE overlay[First(s)].size + h[s \ {First(s)}])
              = (IF s = {} THEN 0 ELSE g[First(s)] + h[s \ {First(s)}])
    BY FirstIn
  <2>2. [s \in SUBSET S |-> IF s = {} THEN 0 ELSE overlay[First(s)].size + h[s \ {First(s)}]]
        = [s \in SUBSET S |-> IF s = {} THEN 0 ELSE g[First(s)] + h[s \ {First(s)}]]
    BY <2>1
  <2> QED BY <2>2 DEF Sums
<1>3. (CHOOSE h : Eq(h)) = CHOOSE h : Sums(h, g, S)
  <2>1. PICK h : Sums(h, g, S)
    BY SumsExist
  <2>2. Eq(CHOOSE e : Eq(e)) /\ Sums(CHOOSE e : Sums(e, g, S), g, S)
    BY <1>2, <2>1
  <2> HIDE DEF Eq, g
  <2> QED BY <1>2, <2>2, SumsUnique
<1> QED BY <1>1, <1>3 DEF Total


-----------------------------------------------------------------------------
(* The invariants.                                                         *)

\* A stranded file is nobody's copy.
StrandedApart == \A p \in Paths : HasCopy(p) => stranded[overlay[p].copy] = None

\* What is stranded is still there.
StrandedOnDisk == \A f \in Files : stranded[f] # None => disk[f] # None

\* Entries expire in the order of their uploads.
NumberedByUpload == \A p \in Paths : overlay[p] # None => overlay[p].exp <= uploads

ServeInv == TypeOK /\ CopiesAreServable /\ StrandedApart /\ StrandedOnDisk /\ NumberedByUpload

\* Requests in flight write paths of their own.
WritersApart ==
    /\ \A m \in moving : m.src # m.dst /\ m.src \notin deleting /\ m.dst \notin deleting
    /\ \A m, n \in moving : m # n => {m.src, m.dst} \cap {n.src, n.dst} = {}

\* What a request is about to cover is not there any more.
DestinationsFree ==
    /\ \A p \in deleting : overlay[p] = None
    /\ \A m \in moving : overlay[m.dst] = None

\* A stranded file takes no more than it is counted with.
StrandedCounted ==
    \A f \in Files : stranded[f] # None /\ Limit > 0 => disk[f] <= stranded[f]

DiskFinite == IsFiniteSet(OnDisk)

-----------------------------------------------------------------------------
(* What the operators of the model answer.                                 *)

LEMMA EntryFields ==
  ASSUME TypeOK, NEW p \in Paths, overlay[p] # None
  PROVE  /\ overlay[p] \in Entry
         /\ overlay[p].st \in {"uploaded", "pending_delete"}
         /\ overlay[p].copy \in Files \cup {None}
         /\ overlay[p].size \in Nat /\ overlay[p].exp \in Nat
<1>1. overlay[p] \in Entry
  BY DEF TypeOK
<1> QED BY <1>1 DEF Entry

\* The file of a copy, and nobody else's.
LEMMA CopyFields ==
  ASSUME ServeInv, NEW p \in Paths, HasCopy(p)
  PROVE  /\ overlay[p] \in Entry /\ overlay[p].copy \in Files
         /\ disk[overlay[p].copy] = overlay[p].size /\ disk[overlay[p].copy] \in Nat
         /\ disk[overlay[p].copy] # None
         /\ stranded[overlay[p].copy] = None
         /\ \A q \in Paths : HasCopy(q) /\ overlay[q].copy = overlay[p].copy => q = p
<1>1. /\ overlay[p] \in Entry /\ overlay[p].copy \in Files /\ overlay[p].size \in Nat
  BY EntryFields DEF ServeInv, HasCopy, Uploaded
<1>2. None \notin Nat
  BY SizesAssumption
<1> QED BY <1>1, <1>2 DEF ServeInv, CopiesAreServable, StrandedApart

\* A dropped copy that stays is stranded with its size.
LEMMA StrandsValue ==
  ASSUME ServeInv, NEW P \in SUBSET Paths, NEW f \in Files
  PROVE  /\ Strands(P)[f] = IF f \in CopiesOf(P) \cap stuck THEN disk[f] ELSE stranded[f]
         /\ f \in CopiesOf(P) => disk[f] \in Nat /\ disk[f] # None /\ stranded[f] = None
<1>1. ASSUME f \in CopiesOf(P)
      PROVE  /\ overlay[CHOOSE p \in P : HasCopy(p) /\ overlay[p].copy = f].size = disk[f]
             /\ disk[f] \in Nat /\ disk[f] # None /\ stranded[f] = None
  <2> DEFINE p == CHOOSE p \in P : HasCopy(p) /\ overlay[p].copy = f
  <2>1. \E q \in P : HasCopy(q) /\ overlay[q].copy = f
    BY <1>1 DEF CopiesOf
  <2>2. p \in P /\ HasCopy(p) /\ overlay[p].copy = f
    BY <2>1
  <2> HIDE DEF p
  <2>3. overlay[p].size = disk[f] /\ disk[f] \in Nat /\ disk[f] # None /\ stranded[f] = None
    BY <2>2, CopyFields
  <2> QED BY <2>3 DEF p
<1> QED BY <1>1 DEF Strands

LEMMA StrandsTyped ==
  ASSUME ServeInv, NEW P \in SUBSET Paths
  PROVE  Strands(P) \in [Files -> Nat \cup {None}]
<1>1. ASSUME NEW f \in Files PROVE Strands(P)[f] \in Nat \cup {None}
  BY StrandsValue DEF ServeInv, TypeOK
<1> QED BY <1>1 DEF Strands

LEMMA WithoutTyped ==
  ASSUME TypeOK, NEW P
  PROVE  Without(P) \in [Paths -> Entry \cup {None}]
  BY DEF Without, TypeOK

-----------------------------------------------------------------------------
(* One lemma for each way the overlay changes.                             *)

LEMMA DropServes ==
  ASSUME ServeInv, NEW P \in SUBSET Paths, Drop(P), UNCHANGED <<stuck, uploads, past>>,
         deleting' \subseteq Paths, moving' \subseteq Move
  PROVE  ServeInv'
<1>1. \A p \in Paths : overlay'[p] = IF p \in P THEN None ELSE overlay[p]
  BY DEF Drop, Without
<1>2. \A f \in Files :
        /\ disk'[f] = IF f \in CopiesOf(P) \ stuck THEN None ELSE disk[f]
        /\ stranded'[f] = IF f \in CopiesOf(P) \cap stuck THEN disk[f] ELSE stranded[f]
        /\ f \in CopiesOf(P) => disk[f] \in Nat /\ disk[f] # None /\ stranded[f] = None
  BY StrandsValue DEF Drop, Unlinked
<1>3. \A p \in Paths : HasCopy(p)' => HasCopy(p) /\ p \notin P /\ overlay'[p] = overlay[p]
  BY <1>1 DEF HasCopy, Uploaded
<1>4. ASSUME NEW p \in Paths, HasCopy(p)'
      PROVE  overlay[p].copy \in Files \ CopiesOf(P)
  BY <1>3, <1>4, CopyFields DEF CopiesOf
<1>5. TypeOK'
  <2>1. overlay' \in [Paths -> Entry \cup {None}]
    BY WithoutTyped DEF Drop, ServeInv
  <2>2. stranded' \in [Files -> Nat \cup {None}]
    BY StrandsTyped DEF Drop
  <2>3. disk' \in [Files -> Nat \cup {None}]
    BY DEF Drop, Unlinked, ServeInv, TypeOK
  <2> QED BY <2>1, <2>2, <2>3 DEF ServeInv, TypeOK
<1>6. CopiesAreServable'
  <2> SUFFICES ASSUME NEW p \in Paths, HasCopy(p)'
               PROVE  /\ disk'[overlay'[p].copy] = overlay'[p].size
                      /\ \A q \in Paths \ {p} : HasCopy(q)' => overlay'[q].copy # overlay'[p].copy
    BY DEF CopiesAreServable
  <2> QED BY <1>2, <1>3, <1>4, CopyFields
<1>7. StrandedApart'
  BY <1>2, <1>3, <1>4, CopyFields DEF StrandedApart
<1>8. StrandedOnDisk'
  BY <1>2 DEF ServeInv, StrandedOnDisk
<1>9. NumberedByUpload'
  BY <1>1 DEF ServeInv, NumberedByUpload
<1> QED BY <1>5, <1>6, <1>7, <1>8, <1>9 DEF ServeInv

\* Entries without a copy come, or nothing changes.
LEMMA CoverServes ==
  ASSUME ServeInv, UNCHANGED <<stranded, disk, uploads>>,
         overlay' \in [Paths -> Entry \cup {None}],
         \A p \in Paths : overlay'[p] = overlay[p] \/ overlay'[p] = Covered(p),
         stuck' \subseteq Files, deleting' \subseteq Paths, moving' \subseteq Move, past' \in Nat
  PROVE  ServeInv'
<1>1. \A p \in Paths : HasCopy(p)' => HasCopy(p) /\ overlay'[p] = overlay[p]
  BY DEF HasCopy, Uploaded, Covered
<1>2. \A p \in Paths : Covered(p).exp = 0
  BY DEF Covered
<1>3. TypeOK'
  BY DEF ServeInv, TypeOK
<1>4. CopiesAreServable'
  BY <1>1 DEF ServeInv, CopiesAreServable
<1>5. StrandedApart'
  BY <1>1 DEF ServeInv, StrandedApart
<1>6. StrandedOnDisk' /\ NumberedByUpload'
  BY <1>2 DEF ServeInv, StrandedOnDisk, NumberedByUpload, TypeOK
<1> QED BY <1>3, <1>4, <1>5, <1>6 DEF ServeInv

LEMMA CoveredTyped == \A p \in Paths : Covered(p) \in Entry
  BY DEF Covered, Entry

\* An entry takes its copy to another path, over anything.
LEMMA TakeOverServes ==
  ASSUME ServeInv, NEW p \in Paths, NEW q \in Paths, NEW o,
         o \in [Paths -> Entry \cup {None}],
         \A r \in Paths : o[r] = overlay[r] \/ o[r] = Covered(r),
         overlay' = TakeOver(o, p, q), UNCHANGED <<stranded, disk, stuck, uploads, past>>,
         deleting' \subseteq Paths, moving' \subseteq Move
  PROVE  ServeInv'
<1>1. CASE ~(o[p] # None /\ o[p].st = "uploaded")
  BY <1>1, CoverServes DEF TakeOver, ServeInv, TypeOK
<1>2. CASE o[p] # None /\ o[p].st = "uploaded"
  <2>1. o[p] = overlay[p]
    BY <1>2 DEF Covered
  <2>2. \A r \in Paths : overlay'[r] = IF r = q THEN overlay[p] ELSE IF r = p THEN None ELSE o[r]
    BY <1>2, <2>1 DEF TakeOver, Moved
  <2>3. overlay' \in [Paths -> Entry \cup {None}]
    BY <1>2, <2>1 DEF TakeOver, Moved
  <2> DEFINE from(r) == IF r = q THEN p ELSE r
  <2>4. \A r \in Paths : HasCopy(r)' =>
           /\ HasCopy(from(r)) /\ overlay'[r] = overlay[from(r)] /\ from(r) \in Paths
           /\ r = q \/ r # p
    BY <2>2 DEF HasCopy, Uploaded, Covered
  <2>5. \A r, t \in Paths : (r = q \/ r # p) /\ (t = q \/ t # p) /\ from(r) = from(t) => r = t
    OBVIOUS
  <2> HIDE DEF from
  <2>6. TypeOK'
    BY <2>3 DEF ServeInv, TypeOK
  <2>7. CopiesAreServable'
    <3> SUFFICES ASSUME NEW r \in Paths, HasCopy(r)'
                 PROVE  /\ disk'[overlay'[r].copy] = overlay'[r].size
                        /\ \A t \in Paths \ {r} : HasCopy(t)' => overlay'[t].copy # overlay'[r].copy
      BY DEF CopiesAreServable
    <3> QED BY <2>4, <2>5, CopyFields
  <2>8. StrandedApart'
    BY <2>4 DEF ServeInv, StrandedApart
  <2>9. NumberedByUpload'
    <3>1. \A r \in Paths : Covered(r).exp = 0
      BY DEF Covered
    <3> QED BY <2>2, <3>1 DEF ServeInv, NumberedByUpload, TypeOK
  <2> QED BY <2>6, <2>7, <2>8, <2>9 DEF ServeInv, StrandedOnDisk
<1> QED BY <1>1, <1>2

-----------------------------------------------------------------------------
(* Uploads.                                                                *)

\* What the upload evicts; nothing when it is too large for a copy.
Gone(p, size) == IF size <= MaxFile THEN Evicted(p, size) ELSE {}

LEMMA GoneFields ==
  ASSUME ServeInv, NEW p \in Paths, NEW size
  PROVE  /\ Gone(p, size) \in SUBSET Candidates(p)
         /\ Candidates(p) \in SUBSET Paths /\ Swept(p) \in SUBSET Paths
         /\ Candidates(p) \cap Swept(p) = {}
         /\ \A q \in Candidates(p) : HasCopy(q)
         /\ \A q \in Gone(p, size) : overlay[q].copy \notin stuck
  BY DEF Gone, Evicted, Candidates, Swept

\* What an upload leaves of the files it finds: those of the entries that
\* stay, and the stranded ones that still cannot be deleted.
LEMMA LeftFields ==
  ASSUME ServeInv, NEW p \in Paths, NEW size, NEW f \in Files
  PROVE  /\ DiskLeft(p, size)[f] =
              IF f \in (CopiesOf(Swept(p)) \cup Stranded \cup CopiesOf(Gone(p, size))) \ stuck
              THEN None ELSE disk[f]
         /\ StrandedLeft(p)[f] =
              IF f \notin stuck THEN None
              ELSE IF f \in CopiesOf(Swept(p)) THEN disk[f] ELSE stranded[f]
         /\ StrandedLeft(p)[f] \in Nat \cup {None}
         /\ DiskLeft(p, size)[f] \in {None, disk[f]}
         /\ StrandedLeft(p)[f] # None => DiskLeft(p, size)[f] = disk[f] /\ disk[f] # None
<1>1. Swept(p) \in SUBSET Paths
  BY GoneFields
<1>2. DiskLeft(p, size)[f] =
         IF f \in (CopiesOf(Swept(p)) \cup Stranded \cup CopiesOf(Gone(p, size))) \ stuck
         THEN None ELSE disk[f]
  <2>1. CopiesOf({}) = {}
    BY DEF CopiesOf
  <2>2. DiskLeft(p, size) =
           Unlinked(disk, CopiesOf(Swept(p)) \cup Stranded \cup CopiesOf(Gone(p, size)))
    BY <2>1 DEF DiskLeft, Gone
  <2> QED BY <2>2 DEF Unlinked
<1>3. StrandedLeft(p)[f] =
         IF f \notin stuck THEN None
         ELSE IF f \in CopiesOf(Swept(p)) THEN disk[f] ELSE stranded[f]
  BY <1>1, StrandsValue DEF StrandedLeft
<1>4. f \in CopiesOf(Swept(p)) => disk[f] \in Nat /\ disk[f] # None
  BY <1>1, StrandsValue
<1>5. StrandedLeft(p)[f] \in Nat \cup {None}
  BY <1>3, <1>4 DEF ServeInv, TypeOK
<1>6. StrandedLeft(p)[f] # None => DiskLeft(p, size)[f] = disk[f] /\ disk[f] # None
  BY <1>2, <1>3, <1>4 DEF ServeInv, StrandedOnDisk
<1> QED BY <1>2, <1>3, <1>5, <1>6

LEMMA LeftTyped ==
  ASSUME ServeInv, NEW p \in Paths, NEW size
  PROVE  /\ DiskLeft(p, size) \in [Files -> Nat \cup {None}]
         /\ StrandedLeft(p) \in [Files -> Nat \cup {None}]
<1>1. \A f \in Files : StrandedLeft(p)[f] \in Nat \cup {None}
  BY LeftFields
<1>2. \A f \in Files : DiskLeft(p, size)[f] \in Nat \cup {None}
  BY LeftFields DEF ServeInv, TypeOK
<1>3. DiskLeft(p, size) = [f \in Files |-> DiskLeft(p, size)[f]]
  BY DEF DiskLeft, Unlinked
<1>4. StrandedLeft(p) = [f \in Files |-> StrandedLeft(p)[f]]
  BY DEF StrandedLeft
<1> QED BY <1>1, <1>2, <1>3, <1>4

\* The entries after an upload: its own, and of the others those that stay.
LEMMA StoreFields ==
  ASSUME ServeInv, NEW p \in Paths, NEW size \in Nat, NEW copy \in Files \cup {None},
         StoreEntry(p, size, copy)
  PROVE  /\ overlay' \in [Paths -> Entry \cup {None}]
         /\ overlay'[p].copy = copy /\ overlay'[p].size = size /\ overlay'[p].exp = uploads + 1
         /\ HasCopy(p)' <=> copy # None
         /\ \A q \in Paths \ {p} :
               /\ HasCopy(q)' => overlay'[q] = overlay[q]
               /\ HasCopy(q)' <=> q \in Candidates(p) \ Gone(p, size)
               /\ overlay'[q] # None => overlay[q] # None /\ overlay'[q].exp = overlay[q].exp
<1> DEFINE new == [st |-> "uploaded", copy |-> copy, size |-> size, exp |-> uploads + 1]
           bare(q) == [overlay[q] EXCEPT !.copy = None]
<1>1. new \in Entry /\ new # None /\ new.st = "uploaded" /\ new.copy = copy /\ new.size = size
      /\ new.exp = uploads + 1
  <2>1. uploads + 1 \in Nat
    BY DEF ServeInv, TypeOK
  <2>2. new \in Entry
    BY <2>1 DEF Entry
  <2> QED BY <2>2, NoEntry
<1>2. ASSUME NEW q \in Gone(p, size)
      PROVE  /\ q \in Paths /\ bare(q) \in Entry /\ bare(q).copy = None
             /\ bare(q).exp = overlay[q].exp /\ overlay[q] # None
  <2>1. q \in Paths /\ HasCopy(q)
    BY <1>2, GoneFields
  <2>2. overlay[q] \in Entry
    BY <2>1, CopyFields
  <2> QED BY <2>1, <2>2, NoEntry DEF Entry
<1>3. \A q \in Paths : overlay'[q] = IF q = p THEN new
                                     ELSE IF q \in Gone(p, size) THEN bare(q)
                                     ELSE IF q \in Swept(p) THEN None ELSE overlay[q]
  BY DEF StoreEntry, Gone, Without
<1>4. overlay' = [q \in Paths |-> overlay'[q]]
  BY DEF StoreEntry
<1> HIDE DEF new, bare
<1>5. overlay' \in [Paths -> Entry \cup {None}]
  <2>1. \A q \in Paths : overlay'[q] \in Entry \cup {None}
    BY <1>1, <1>2, <1>3 DEF ServeInv, TypeOK
  <2> QED BY <1>4, <2>1
<1>6. HasCopy(p)' <=> copy # None
  BY <1>1, <1>3 DEF HasCopy, Uploaded
<1>7. ASSUME NEW q \in Paths \ {p}
      PROVE  /\ HasCopy(q)' => overlay'[q] = overlay[q]
             /\ HasCopy(q)' <=> q \in Candidates(p) \ Gone(p, size)
             /\ overlay'[q] # None => overlay[q] # None /\ overlay'[q].exp = overlay[q].exp
  <2>1. q \in Gone(p, size) => ~HasCopy(q)' /\ q \in Candidates(p)
    BY <1>2, <1>3, <1>7, GoneFields DEF HasCopy
  <2>2. q \in Swept(p) => q \notin Candidates(p) /\ q \notin Gone(p, size)
    BY GoneFields
  <2>3. q \in Swept(p) => ~HasCopy(q)'
    BY <1>3, <1>7, <2>2 DEF HasCopy, Uploaded
  <2>4. q \notin Swept(p) => (q \in Candidates(p) <=> HasCopy(q))
    BY <1>7 DEF Candidates
  <2>5. q \notin Swept(p) /\ q \notin Gone(p, size) => overlay'[q] = overlay[q]
                                                       /\ (HasCopy(q)' <=> HasCopy(q))
    BY <1>3, <1>7 DEF HasCopy, Uploaded
  <2>6. overlay'[q] # None => overlay[q] # None /\ overlay'[q].exp = overlay[q].exp
    BY <1>2, <1>3, <1>7
  <2> QED BY <2>1, <2>2, <2>3, <2>4, <2>5, <2>6
<1> QED BY <1>1, <1>3, <1>5, <1>6, <1>7

\* The files of the candidates that stay are left alone.
LEMMA KeptFiles ==
  ASSUME ServeInv, NEW p \in Paths, NEW size, NEW q \in Candidates(p) \ Gone(p, size)
  PROVE  /\ q \in Paths /\ HasCopy(q) /\ overlay[q].copy \in Files
         /\ DiskLeft(p, size)[overlay[q].copy] = disk[overlay[q].copy]
         /\ disk[overlay[q].copy] = overlay[q].size /\ disk[overlay[q].copy] # None
         /\ StrandedLeft(p)[overlay[q].copy] = None
<1>1. q \in Paths /\ HasCopy(q) /\ q \notin Swept(p)
  BY GoneFields
<1>2. /\ overlay[q].copy \in Files
      /\ disk[overlay[q].copy] = overlay[q].size /\ disk[overlay[q].copy] # None
      /\ stranded[overlay[q].copy] = None
  BY <1>1, CopyFields
<1>3. overlay[q].copy \notin CopiesOf(Swept(p)) \cup CopiesOf(Gone(p, size))
  <2>1. \A r \in Paths : HasCopy(r) /\ overlay[r].copy = overlay[q].copy => r = q
    BY <1>1, CopyFields
  <2> QED BY <1>1, <2>1, GoneFields DEF CopiesOf
<1> QED BY <1>1, <1>2, <1>3, LeftFields DEF Stranded

\* The fresh file f is the copy, or was to be one.
LEMMA StoreServes ==
  ASSUME ServeInv, NEW p \in Paths, NEW size \in Nat, NEW copy \in Files \cup {None},
         StoreEntry(p, size, copy),
         disk' \in [Files -> Nat \cup {None}], stranded' \in [Files -> Nat \cup {None}],
         \A f \in Files : disk[f] # None =>
            disk'[f] = DiskLeft(p, size)[f] /\ stranded'[f] = StrandedLeft(p)[f],
         \A f \in Files : stranded'[f] # None => disk'[f] # None,
         copy # None => disk[copy] = None /\ disk'[copy] = size /\ stranded'[copy] = None
  PROVE  ServeInv'
<1>1. TypeOK'
  BY StoreFields DEF StoreEntry, ServeInv, TypeOK
<1>2. ASSUME NEW q \in Paths \ {p}, HasCopy(q)'
      PROVE  /\ HasCopy(q) /\ overlay'[q] = overlay[q] /\ overlay[q].copy \in Files
             /\ disk[overlay[q].copy] # None /\ disk'[overlay[q].copy] = overlay[q].size
             /\ stranded'[overlay[q].copy] = None
  <2>1. q \in Candidates(p) \ Gone(p, size) /\ overlay'[q] = overlay[q]
    BY <1>2, StoreFields
  <2> QED BY <2>1, KeptFiles
<1>3. /\ HasCopy(p)' <=> copy # None
      /\ overlay'[p].copy = copy /\ overlay'[p].size = size
  BY StoreFields
<1>4. CopiesAreServable'
  <2> SUFFICES ASSUME NEW r \in Paths, HasCopy(r)'
               PROVE  /\ disk'[overlay'[r].copy] = overlay'[r].size
                      /\ \A t \in Paths \ {r} : HasCopy(t)' => overlay'[t].copy # overlay'[r].copy
    BY DEF CopiesAreServable
  <2>1. CASE r = p
    BY <1>2, <1>3, <2>1
  <2>2. CASE r # p
    BY <1>2, <1>3, <2>2, CopyFields
  <2> QED BY <2>1, <2>2
<1>5. StrandedApart'
  BY <1>2, <1>3 DEF StrandedApart
<1>6. NumberedByUpload'
  <2>1. uploads' = uploads + 1 /\ uploads \in Nat
    BY DEF StoreEntry, ServeInv, TypeOK
  <2>2. \A q \in Paths : overlay[q] # None => overlay[q].exp \in Nat /\ overlay[q].exp <= uploads
    BY EntryFields DEF ServeInv, NumberedByUpload
  <2>3. overlay'[p].exp = uploads + 1
    BY StoreFields
  <2>4. \A q \in Paths \ {p} : overlay'[q] # None => overlay[q] # None
                                                     /\ overlay'[q].exp = overlay[q].exp
    BY StoreFields
  <2> QED BY <2>1, <2>2, <2>3, <2>4 DEF NumberedByUpload
<1> QED BY <1>1, <1>4, <1>5, <1>6 DEF ServeInv, StrandedOnDisk

LEMMA UploadWithoutCopyServes ==
  ASSUME ServeInv, NEW p \in Paths, NEW size \in Sizes, UploadWithoutCopy(p, size)
  PROVE  ServeInv'
<1>1. size \in Nat
  BY SizesAssumption
<1>2. StoreEntry(p, size, None) /\ disk' = DiskLeft(p, size) /\ stranded' = StrandedLeft(p)
  BY DEF UploadWithoutCopy
<1> QED BY <1>1, <1>2, StoreServes, LeftTyped, LeftFields

LEMMA UploadWithCopyServes ==
  ASSUME ServeInv, NEW p \in Paths, NEW size \in Sizes, NEW f \in Files, UploadWithCopy(p, size, f)
  PROVE  ServeInv'
<1>1. size \in Nat /\ size # None
  BY SizesAssumption
<1>2. /\ StoreEntry(p, size, f) /\ disk[f] = None
      /\ disk' = [DiskLeft(p, size) EXCEPT ![f] = size] /\ stranded' = StrandedLeft(p)
  BY DEF UploadWithCopy
<1>3. /\ disk' \in [Files -> Nat \cup {None}]
      /\ \A g \in Files : disk'[g] = IF g = f THEN size ELSE DiskLeft(p, size)[g]
  BY <1>1, <1>2, LeftTyped
<1>4. StrandedLeft(p)[f] = None
  BY <1>2, LeftFields
<1>5. \A g \in Files : stranded'[g] # None => disk'[g] # None
  BY <1>1, <1>2, <1>3, LeftFields
<1> QED BY <1>1, <1>2, <1>3, <1>4, <1>5, StoreServes, LeftTyped

LEMMA UploadCopyFailsServes ==
  ASSUME ServeInv, NEW p \in Paths, NEW size \in Sizes, NEW f \in Files,
         NEW partial \in 0..size, NEW counted \in 0..size,
         UploadCopyFails(p, size, f, partial, counted)
  PROVE  ServeInv'
<1>1. size \in Nat /\ partial \in Nat /\ counted \in Nat /\ partial # None /\ None \notin Nat
  BY SizesAssumption
<1>2. /\ StoreEntry(p, size, None) /\ disk[f] = None
      /\ disk' = [DiskLeft(p, size) EXCEPT ![f] = IF f \in stuck THEN partial ELSE None]
      /\ stranded' = [StrandedLeft(p) EXCEPT ![f] = IF f \in stuck THEN counted ELSE None]
  BY DEF UploadCopyFails
<1>3. /\ disk' \in [Files -> Nat \cup {None}] /\ stranded' \in [Files -> Nat \cup {None}]
      /\ \A g \in Files \ {f} : disk'[g] = DiskLeft(p, size)[g] /\ stranded'[g] = StrandedLeft(p)[g]
      /\ disk'[f] = (IF f \in stuck THEN partial ELSE None)
      /\ stranded'[f] = (IF f \in stuck THEN counted ELSE None)
  BY <1>1, <1>2, LeftTyped
<1>4. \A g \in Files : stranded'[g] # None => disk'[g] # None
  BY <1>1, <1>3, LeftFields
<1> QED BY <1>1, <1>2, <1>3, <1>4, StoreServes

LEMMA RestartServes ==
  ASSUME ServeInv, Restart
  PROVE  ServeInv'
<1>1. PICK unknown \in SUBSET (OnDisk \cap stuck) :
        stranded' = [f \in Files |-> IF f \notin OnDisk \cap stuck THEN None
                                     ELSE IF f \in unknown THEN Limit ELSE disk[f]]
  BY DEF Restart
<1>2. \A f \in Files : /\ disk'[f] = IF f \in OnDisk \ stuck THEN None ELSE disk[f]
                       /\ stranded'[f] # None => f \in OnDisk \cap stuck
  BY <1>1 DEF Restart, Unlinked
<1>3. \A p \in Paths : overlay'[p] = None
  BY DEF Restart
<1>4. TypeOK'
  <2>1. stranded' \in [Files -> Nat \cup {None}]
    BY <1>1, SizesAssumption DEF ServeInv, TypeOK
  <2>2. disk' \in [Files -> Nat \cup {None}]
    BY DEF Restart, Unlinked, ServeInv, TypeOK
  <2> QED BY <2>1, <2>2 DEF Restart, ServeInv, TypeOK
<1> QED BY <1>2, <1>3, <1>4 DEF ServeInv, CopiesAreServable, HasCopy, Uploaded, StrandedApart,
       StrandedOnDisk, NumberedByUpload, OnDisk

-----------------------------------------------------------------------------
LEMMA InitServes == Init => ServeInv
  BY DEF Init, ServeInv, TypeOK, CopiesAreServable, HasCopy, Uploaded, StrandedApart,
     StrandedOnDisk, NumberedByUpload

LEMMA MoveFields ==
  ASSUME ServeInv, NEW m \in moving
  PROVE  m.src \in Paths /\ m.dst \in Paths /\ m \in Move /\ moving \subseteq Move
  BY DEF ServeInv, TypeOK, Move

LEMMA MovesServe ==
  ASSUME ServeInv, NEW p \in Paths, NEW q \in Paths,
         MoveBegin(p, q) \/ MoveOver(p, q) \/ MoveReplaces(p, q)
  PROVE  ServeInv'
<1>1. \A pc \in {"stat", "delete"} : [src |-> p, dst |-> q, pc |-> pc] \in Move
  BY DEF Move
<1>2. [[src |-> p, dst |-> q, pc |-> "stat"] EXCEPT !.pc = "delete"] \in Move
  BY DEF Move
<1>3. CASE MoveBegin(p, q)
  <2>1. moving' \subseteq Move
    BY <1>1, <1>3 DEF MoveBegin, ServeInv, TypeOK
  <2> QED BY <1>3, <2>1, CoverServes DEF MoveBegin, ServeInv, TypeOK
<1>4. CASE MoveOver(p, q)
  <2>1. overlay' = TakeOver(overlay, p, q)
        /\ UNCHANGED <<stranded, disk, stuck, deleting, moving, uploads, past>>
    BY <1>4 DEF MoveOver
  <2> QED BY <2>1, TakeOverServes DEF ServeInv, TypeOK
<1>5. CASE MoveReplaces(p, q)
  <2>1. Drop({q}) /\ UNCHANGED <<stuck, deleting, uploads, past>>
    BY <1>5 DEF MoveReplaces
  <2>2. moving' \subseteq Move
    BY <1>2, <1>5 DEF MoveReplaces, ServeInv, TypeOK
  <2>3. {q} \in SUBSET Paths /\ deleting' \subseteq Paths
    BY <2>1 DEF ServeInv, TypeOK
  <2> QED BY <2>1, <2>2, <2>3, DropServes
<1> QED BY <1>3, <1>4, <1>5

LEMMA MovesEndServe ==
  ASSUME ServeInv, NEW m \in moving, MoveEnd(m) \/ MoveReplaced(m)
  PROVE  ServeInv'
<1>1. m.src \in Paths /\ m.dst \in Paths /\ moving' \subseteq Move
  BY MoveFields DEF MoveEnd, MoveReplaced
<1>2. UNCHANGED <<stranded, disk, stuck, uploads, past>> /\ deleting' \subseteq Paths
  BY DEF MoveEnd, MoveReplaced, ServeInv, TypeOK
<1>3. CASE MoveEnd(m)
  <2>1. overlay' = TakeOver(overlay, m.src, m.dst)
    BY <1>3 DEF MoveEnd
  <2> QED BY <1>1, <1>2, <2>1, TakeOverServes DEF ServeInv, TypeOK
<1>4. CASE MoveReplaced(m)
  <2> DEFINE o == [overlay EXCEPT ![m.dst] = Covered(m.dst)]
  <2>1. overlay' = TakeOver(o, m.src, m.dst)
    BY <1>4 DEF MoveReplaced
  <2>2. /\ o \in [Paths -> Entry \cup {None}]
        /\ \A r \in Paths : o[r] = overlay[r] \/ o[r] = Covered(r)
    BY <1>1, CoveredTyped DEF ServeInv, TypeOK
  <2> HIDE DEF o
  <2> QED BY <1>1, <1>2, <2>1, <2>2, TakeOverServes
<1> QED BY <1>3, <1>4

-----------------------------------------------------------------------------
LEMMA NextServes ==
  ASSUME ServeInv, [Next]_vars
  PROVE  ServeInv'
<1>1. ASSUME NEW p \in Paths, NEW size \in Sizes, Upload(p, size) PROVE ServeInv'
  BY <1>1, UploadWithoutCopyServes, UploadWithCopyServes, UploadCopyFailsServes DEF Upload
<1>2. ASSUME NEW p \in Paths, DeleteBegin(p) \/ CatchUp(p) \/ Look(p) PROVE ServeInv'
  <2>1. Drop({p}) /\ UNCHANGED <<stuck, moving, uploads, past>>
    BY <1>2 DEF DeleteBegin, CatchUp, Look
  <2>2. {p} \in SUBSET Paths /\ deleting' \subseteq Paths /\ moving' \subseteq Move
    BY <1>2 DEF DeleteBegin, CatchUp, Look, ServeInv, TypeOK
  <2> QED BY <2>1, <2>2, DropServes
<1>3. ASSUME NEW p \in Paths, DeleteEnd(p) \/ DeleteMissing(p) PROVE ServeInv'
  <2>1. overlay' \in [Paths -> Entry \cup {None}]
    BY <1>3, CoveredTyped DEF DeleteEnd, DeleteMissing, StoreTombstone, ServeInv, TypeOK
  <2>2. \A q \in Paths : overlay'[q] = overlay[q] \/ overlay'[q] = Covered(q)
    BY <1>3 DEF DeleteEnd, DeleteMissing, StoreTombstone, ServeInv, TypeOK
  <2> QED BY <1>3, <2>1, <2>2, CoverServes DEF DeleteEnd, DeleteMissing, ServeInv, TypeOK
<1>4. ASSUME NEW m \in moving, MoveFails(m) PROVE ServeInv'
  BY <1>4, CoverServes DEF MoveFails, ServeInv, TypeOK
<1>5. CASE TimePasses
  BY <1>5, CoverServes DEF TimePasses, ServeInv, TypeOK
<1>6. ASSUME NEW f \in Files, Sticks(f) PROVE ServeInv'
  BY <1>6, CoverServes DEF Sticks, ServeInv, TypeOK
<1>7. CASE UNCHANGED vars
  BY <1>7, CoverServes DEF vars, ServeInv, TypeOK
<1> QED BY <1>1, <1>2, <1>3, <1>4, <1>5, <1>6, <1>7, RestartServes, MovesServe, MovesEndServe
     DEF Next

LEMMA ServeInvHolds == Spec => []ServeInv
<1>1. ServeInv /\ [Next]_vars => ServeInv'
  BY NextServes
<1> QED BY <1>1, InitServes, PTL DEF Spec

\* Every reachable state of the local copies is well typed.
THEOREM CopiesTyped == Spec => []TypeOK
<1>1. ServeInv => TypeOK
  BY DEF ServeInv
<1> QED BY <1>1, ServeInvHolds, PTL

\* A copy an entry names is there, whole and nobody else's (store.py:
\* open_read, _drop_entry): whatever fails to be deleted or copied, and even
\* when two requests write one path at the same time.
THEOREM CopiesServed == Spec => []CopiesAreServable
<1>1. ServeInv => CopiesAreServable
  BY DEF ServeInv
<1> QED BY <1>1, ServeInvHolds, PTL

-----------------------------------------------------------------------------
(* One writer per path: nothing is forgotten.                              *)

TrackInv == ServeInv /\ WritersApart /\ DestinationsFree /\ NothingUntracked

LEMMA TrackedFiles ==
  NothingUntracked <=>
    \A f \in Files : disk[f] # None => \/ stranded[f] # None
                                       \/ \E p \in Paths : HasCopy(p) /\ overlay[p].copy = f
  BY DEF NothingUntracked, OnDisk, Tracked, Stranded

\* Requests begin where none is in flight.
LEMMA BeginsApart ==
  ASSUME ~SharedWrites, NEW P, MayWrite(P)
  PROVE  /\ P \cap deleting = {}
         /\ \A m \in moving : m.src \notin P /\ m.dst \notin P
  BY DEF MayWrite, Written

LEMMA DropTracks ==
  ASSUME ServeInv, NothingUntracked, NEW P \in SUBSET Paths, Drop(P)
  PROVE  NothingUntracked'
<1>1. \A p \in Paths : overlay'[p] = IF p \in P THEN None ELSE overlay[p]
  BY DEF Drop, Without
<1>2. \A f \in Files :
        /\ disk'[f] = IF f \in CopiesOf(P) \ stuck THEN None ELSE disk[f]
        /\ stranded'[f] = IF f \in CopiesOf(P) \cap stuck THEN disk[f] ELSE stranded[f]
        /\ f \in CopiesOf(P) => disk[f] # None
  BY StrandsValue DEF Drop, Unlinked
<1>3. ASSUME NEW f \in Files, disk'[f] # None, stranded'[f] = None
      PROVE  \E p \in Paths : HasCopy(p)' /\ overlay'[p].copy = f
  <2>1. f \notin CopiesOf(P) /\ disk[f] # None /\ stranded[f] = None
    BY <1>2, <1>3
  <2>2. PICK p \in Paths : HasCopy(p) /\ overlay[p].copy = f
    BY <2>1, TrackedFiles
  <2>3. p \notin P
    BY <2>1, <2>2 DEF CopiesOf
  <2>4. HasCopy(p)' /\ overlay'[p].copy = f
    BY <1>1, <2>2, <2>3 DEF HasCopy, Uploaded
  <2> QED BY <2>4
<1>4. \A f \in Files : disk'[f] # None =>
          \/ stranded'[f] # None
          \/ \E p \in Paths : HasCopy(p)' /\ overlay'[p].copy = f
  BY <1>3
<1> QED BY <1>4 DEF NothingUntracked, OnDisk, Tracked, Stranded

\* An entry that gives way had no copy.
LEMMA CoverTracks ==
  ASSUME NothingUntracked, UNCHANGED <<stranded, disk>>,
         \A p \in Paths : HasCopy(p) =>
            \E q \in Paths : HasCopy(q)' /\ overlay'[q].copy = overlay[p].copy
  PROVE  NothingUntracked'
  BY DEF NothingUntracked, OnDisk, Tracked, Stranded

\* An entry moves to a path that had no copy.
LEMMA TakeOverTracks ==
  ASSUME TypeOK, NothingUntracked, NEW p \in Paths, NEW q \in Paths, NEW o,
         o \in [Paths -> Entry \cup {None}], UNCHANGED <<stranded, disk>>,
         \A r \in Paths : o[r] = overlay[r] \/ (r = q /\ ~HasCopy(r)),
         ~HasCopy(q), p # q, overlay' = TakeOver(o, p, q)
  PROVE  NothingUntracked'
<1>1. ASSUME NEW r \in Paths, HasCopy(r)
      PROVE  \E t \in Paths : HasCopy(t)' /\ overlay'[t].copy = overlay[r].copy
  <2>1. r # q /\ o[r] = overlay[r] /\ o[p] = overlay[p]
    BY <1>1
  <2>2. CASE r = p
    <3>1. overlay'[q] = overlay[p]
      BY <1>1, <2>1, <2>2 DEF TakeOver, Moved, HasCopy, Uploaded
    <3> QED BY <1>1, <2>2, <3>1 DEF HasCopy, Uploaded
  <2>3. CASE r # p
    <3>1. overlay'[r] = overlay[r]
      BY <2>1, <2>3 DEF TakeOver, Moved
    <3> QED BY <1>1, <3>1 DEF HasCopy, Uploaded
  <2> QED BY <2>2, <2>3
<1> QED BY <1>1, CoverTracks

LEMMA StoreTracks ==
  ASSUME ServeInv, NothingUntracked,
         NEW p \in Paths, NEW size \in Nat, NEW copy \in Files \cup {None},
         StoreEntry(p, size, copy),
         \A f \in Files : disk[f] # None =>
            disk'[f] = DiskLeft(p, size)[f] /\ stranded'[f] = StrandedLeft(p)[f],
         \A f \in Files : disk[f] = None /\ disk'[f] # None => f = copy \/ stranded'[f] # None
  PROVE  NothingUntracked'
<1>1. ASSUME NEW f \in Files, disk'[f] # None, stranded'[f] = None
      PROVE  \E r \in Paths : HasCopy(r)' /\ overlay'[r].copy = f
  <2>1. CASE disk[f] = None
    <3>1. HasCopy(p)' /\ overlay'[p].copy = f
      <4>1. f = copy /\ copy # None
        BY <1>1, <2>1, SizesAssumption
      <4> QED BY <4>1, StoreFields
    <3> QED BY <3>1
  <2>2. CASE disk[f] # None
    <3>1. DiskLeft(p, size)[f] # None /\ StrandedLeft(p)[f] = None
      BY <1>1, <2>2
    <3>2. f \notin CopiesOf(Swept(p)) /\ f \notin CopiesOf(Gone(p, size)) /\ stranded[f] = None
      <4>1. \A q \in Gone(p, size) : overlay[q].copy \notin stuck
        BY GoneFields
      <4>2. f \notin CopiesOf(Gone(p, size)) \cap stuck
        BY <4>1 DEF CopiesOf
      <4>3. f \in CopiesOf(Swept(p)) => disk[f] # None
        BY GoneFields, StrandsValue
      <4> QED BY <3>1, <4>2, <4>3, LeftFields DEF Stranded
    <3>3. PICK q \in Paths : HasCopy(q) /\ overlay[q].copy = f
      BY <2>2, <3>2, TrackedFiles
    <3>4. q \notin Swept(p) /\ q \notin Gone(p, size)
      BY <3>2, <3>3 DEF CopiesOf
    <3>5. q # p /\ q \in Candidates(p) \ Gone(p, size)
      BY <3>3, <3>4 DEF Candidates, Swept
    <3>6. HasCopy(q)' /\ overlay'[q].copy = f
      BY <3>3, <3>5, StoreFields
    <3> QED BY <3>6
  <2> QED BY <2>1, <2>2
<1>2. \A f \in Files : disk'[f] # None =>
          \/ stranded'[f] # None
          \/ \E r \in Paths : HasCopy(r)' /\ overlay'[r].copy = f
  BY <1>1
<1> QED BY <1>2 DEF NothingUntracked, OnDisk, Tracked, Stranded

LEMMA UploadTracks ==
  ASSUME ServeInv, NothingUntracked, NEW p \in Paths, NEW size \in Sizes, Upload(p, size)
  PROVE  NothingUntracked'
<1>1. size \in Nat /\ size # None /\ None \notin Nat
  BY SizesAssumption
<1>2. CASE UploadWithoutCopy(p, size)
  <2>1. StoreEntry(p, size, None) /\ disk' = DiskLeft(p, size) /\ stranded' = StrandedLeft(p)
    BY <1>2 DEF UploadWithoutCopy
  <2>2. \A f \in Files : disk[f] = None => disk'[f] = None
    BY <2>1, LeftFields
  <2> QED BY <1>1, <2>1, <2>2, StoreTracks
<1>3. ASSUME NEW f \in Files, UploadWithCopy(p, size, f) PROVE NothingUntracked'
  <2>1. /\ StoreEntry(p, size, f) /\ disk[f] = None
        /\ disk' = [DiskLeft(p, size) EXCEPT ![f] = size] /\ stranded' = StrandedLeft(p)
    BY <1>3 DEF UploadWithCopy
  <2>2. \A g \in Files : disk'[g] = IF g = f THEN size ELSE DiskLeft(p, size)[g]
    BY <2>1, LeftTyped
  <2>3. \A g \in Files : disk[g] = None /\ disk'[g] # None => g = f
    BY <2>2, LeftFields
  <2> QED BY <1>1, <2>1, <2>2, <2>3, StoreTracks
<1>4. ASSUME NEW f \in Files, NEW partial \in 0..size, NEW counted \in 0..size,
             UploadCopyFails(p, size, f, partial, counted)
      PROVE  NothingUntracked'
  <2>1. /\ StoreEntry(p, size, None) /\ disk[f] = None
        /\ disk' = [DiskLeft(p, size) EXCEPT ![f] = IF f \in stuck THEN partial ELSE None]
        /\ stranded' = [StrandedLeft(p) EXCEPT ![f] = IF f \in stuck THEN counted ELSE None]
    BY <1>4 DEF UploadCopyFails
  <2>2. /\ \A g \in Files \ {f} : disk'[g] = DiskLeft(p, size)[g] /\ stranded'[g] = StrandedLeft(p)[g]
        /\ disk'[f] = (IF f \in stuck THEN partial ELSE None)
        /\ stranded'[f] = (IF f \in stuck THEN counted ELSE None)
    BY <2>1, LeftTyped
  <2>3. \A g \in Files : disk[g] = None /\ disk'[g] # None => stranded'[g] # None
    BY <1>1, <1>4, <2>2, LeftFields
  <2> QED BY <1>1, <2>1, <2>2, <2>3, StoreTracks
<1> QED BY <1>2, <1>3, <1>4 DEF Upload

LEMMA UploadKeepsFree ==
  ASSUME ~SharedWrites, TrackInv, NEW p \in Paths, NEW size \in Sizes, Upload(p, size)
  PROVE  WritersApart' /\ DestinationsFree'
<1>1. PICK copy \in Files \cup {None} : StoreEntry(p, size, copy)
  BY DEF Upload, UploadWithoutCopy, UploadWithCopy, UploadCopyFails
<1>2. MayWrite({p})
  BY DEF Upload, UploadWithoutCopy, UploadWithCopy, UploadCopyFails, Arrives
<1>3. p \notin deleting /\ \A m \in moving : m.src # p /\ m.dst # p
  BY <1>2, BeginsApart
<1>4. \A q \in Paths \ {p} : overlay[q] = None => overlay'[q] = None
  BY <1>1, StoreFields, SizesAssumption DEF TrackInv
<1>5. deleting \subseteq Paths /\ \A m \in moving : m.dst \in Paths
  BY MoveFields DEF TrackInv, ServeInv, TypeOK
<1>6. deleting' = deleting /\ moving' = moving
  BY <1>1 DEF StoreEntry
<1> QED BY <1>3, <1>4, <1>5, <1>6 DEF TrackInv, WritersApart, DestinationsFree

\* A path in flight never has a copy at its destination.
LEMMA FreeHasNoCopy ==
  ASSUME DestinationsFree
  PROVE  /\ \A p \in deleting : ~HasCopy(p)
         /\ \A m \in moving : ~HasCopy(m.dst)
  BY DEF DestinationsFree, HasCopy, Uploaded

LEMMA DeletesTrack ==
  ASSUME ~SharedWrites, TrackInv, NEW p \in Paths,
         DeleteBegin(p) \/ DeleteEnd(p) \/ DeleteMissing(p) \/ CatchUp(p) \/ Look(p)
  PROVE  NothingUntracked' /\ WritersApart' /\ DestinationsFree'
<1> USE DEF TrackInv
<1>0. overlay \in [Paths -> Entry \cup {None}] /\ deleting \subseteq Paths
      /\ \A m \in moving : m.src \in Paths /\ m.dst \in Paths
  BY MoveFields DEF ServeInv, TypeOK
<1>1. CASE DeleteBegin(p) \/ CatchUp(p) \/ Look(p)
  <2>1. Drop({p}) /\ moving' = moving
    BY <1>1 DEF DeleteBegin, CatchUp, Look
  <2>2. NothingUntracked'
    BY <2>1, DropTracks
  <2>3. \A q \in Paths : overlay'[q] = IF q = p THEN None ELSE overlay[q]
    BY <2>1 DEF Drop, Without
  <2>4. WritersApart'
    <3>1. CASE DeleteBegin(p)
      <4>1. deleting' = deleting \cup {p} /\ \A m \in moving : m.src # p /\ m.dst # p
        BY <3>1, BeginsApart DEF DeleteBegin, MayBegin
      <4> QED BY <2>1, <4>1 DEF WritersApart
    <3>2. CASE CatchUp(p) \/ Look(p)
      BY <2>1, <3>2 DEF CatchUp, Look, WritersApart
    <3> QED BY <1>1, <3>1, <3>2
  <2>5. DestinationsFree'
    <3>1. deleting' \subseteq deleting \cup {p}
      BY <1>1 DEF DeleteBegin, CatchUp, Look
    <3> QED BY <1>0, <2>1, <2>3, <3>1 DEF DestinationsFree
  <2> QED BY <2>2, <2>4, <2>5
<1>2. CASE DeleteEnd(p)
  <2>1. /\ \A q \in Paths : overlay'[q] = IF q = p THEN Covered(p) ELSE overlay[q]
        /\ deleting' = deleting \ {p} /\ moving' = moving /\ p \in deleting
        /\ UNCHANGED <<stranded, disk>>
    BY <1>0, <1>2 DEF DeleteEnd, StoreTombstone
  <2>2. NothingUntracked'
    <3>1. ASSUME NEW q \in Paths, HasCopy(q) PROVE HasCopy(q)' /\ overlay'[q].copy = overlay[q].copy
      BY <2>1, <3>1, FreeHasNoCopy DEF HasCopy, Uploaded
    <3> QED BY <2>1, <3>1, CoverTracks
  <2>3. \A m \in moving : m.src # p /\ m.dst # p
    BY <2>1 DEF WritersApart
  <2> QED BY <1>0, <2>1, <2>2, <2>3 DEF WritersApart, DestinationsFree
<1>3. CASE DeleteMissing(p)
  <2>1. NothingUntracked'
    BY <1>3, CoverTracks DEF DeleteMissing, HasCopy, Uploaded
  <2> QED BY <1>3, <2>1 DEF DeleteMissing, WritersApart, DestinationsFree
<1> QED BY <1>1, <1>2, <1>3

\* A move begins, or goes on with its delete.
LEMMA MoveAdds ==
  ASSUME ~SharedWrites, TrackInv, NEW p \in Paths, NEW q \in Paths, p # q, NEW m, NEW n,
         m.src = p, m.dst = q, n.src = p, n.dst = q,
         m \in moving \/ MayWrite({p, q}),
         moving' = (moving \ {m}) \cup {n}, deleting' = deleting
  PROVE  WritersApart'
<1>1. p \notin deleting /\ q \notin deleting
      /\ \A k \in moving \ {m} : {k.src, k.dst} \cap {p, q} = {}
  <2>1. CASE m \in moving
    BY <2>1 DEF TrackInv, WritersApart
  <2>2. CASE MayWrite({p, q})
    BY <2>2, BeginsApart
  <2> QED BY <2>1, <2>2
<1> QED BY <1>1 DEF TrackInv, WritersApart

LEMMA MovesTrack ==
  ASSUME ~SharedWrites, TrackInv, NEW p \in Paths, NEW q \in Paths,
         MoveBegin(p, q) \/ MoveOver(p, q) \/ MoveReplaces(p, q)
  PROVE  NothingUntracked' /\ WritersApart' /\ DestinationsFree'
<1> DEFINE m == [src |-> p, dst |-> q, pc |-> "stat"]
           n == [m EXCEPT !.pc = "delete"]
<1>0. /\ m.src = p /\ m.dst = q /\ n.src = p /\ n.dst = q
      /\ overlay \in [Paths -> Entry \cup {None}] /\ deleting \subseteq Paths
      /\ \A k \in moving : k.src \in Paths /\ k.dst \in Paths
  BY MoveFields DEF TrackInv, ServeInv, TypeOK
<1> USE DEF TrackInv
<1>1. CASE MoveBegin(p, q)
  <2>1. /\ p # q /\ MayWrite({p, q}) /\ overlay[q] = None /\ m \notin moving
        /\ moving' = (moving \ {m}) \cup {m} /\ deleting' = deleting
        /\ UNCHANGED <<overlay, stranded, disk>>
    BY <1>1 DEF MoveBegin, MayBegin
  <2> HIDE DEF m, n
  <2>2. WritersApart'
    BY <1>0, <2>1, MoveAdds
  <2>3. NothingUntracked'
    BY <2>1, CoverTracks DEF HasCopy, Uploaded
  <2> QED BY <1>0, <2>1, <2>2, <2>3 DEF DestinationsFree
<1>2. CASE MoveReplaces(p, q)
  <2>1. /\ p # q /\ Drop({q}) /\ (m \in moving \/ MayWrite({p, q}))
        /\ moving' = (moving \ {m}) \cup {n} /\ deleting' = deleting
    BY <1>2 DEF MoveReplaces, MayBegin
  <2> HIDE DEF m, n
  <2>2. WritersApart'
    BY <1>0, <2>1, MoveAdds
  <2>3. NothingUntracked'
    BY <2>1, DropTracks
  <2>4. \A r \in Paths : overlay'[r] = IF r = q THEN None ELSE overlay[r]
    BY <2>1 DEF Drop, Without
  <2> QED BY <1>0, <2>1, <2>2, <2>3, <2>4 DEF DestinationsFree
<1>3. CASE MoveOver(p, q)
  <2>1. /\ p # q /\ MayWrite({p, q}) /\ ~HasCopy(q) /\ overlay' = TakeOver(overlay, p, q)
        /\ UNCHANGED <<stranded, disk, deleting, moving>>
    BY <1>3 DEF MoveOver, MayBegin, Tombstone, HasCopy, Uploaded
  <2>2. NothingUntracked'
    BY <1>0, <2>1, TakeOverTracks DEF ServeInv
  <2>3. \A r \in Paths \ {p, q} : overlay'[r] = overlay[r]
    BY <1>0, <2>1 DEF TakeOver, Moved
  <2>4. {p, q} \cap deleting = {} /\ \A k \in moving : k.dst \notin {p, q}
    BY <2>1, BeginsApart
  <2> QED BY <1>0, <2>1, <2>2, <2>3, <2>4 DEF WritersApart, DestinationsFree
<1> QED BY <1>1, <1>2, <1>3

LEMMA MovesEndTrack ==
  ASSUME TrackInv, NEW m \in moving, MoveEnd(m) \/ MoveReplaced(m) \/ MoveFails(m)
  PROVE  NothingUntracked' /\ WritersApart' /\ DestinationsFree'
<1> USE DEF TrackInv
<1>0. /\ m.src \in Paths /\ m.dst \in Paths /\ m.src # m.dst
      /\ overlay \in [Paths -> Entry \cup {None}] /\ deleting \subseteq Paths
      /\ \A k \in moving : k.src \in Paths /\ k.dst \in Paths
  BY MoveFields DEF ServeInv, TypeOK, WritersApart
<1>1. /\ deleting' = deleting /\ moving' = moving \ {m} /\ UNCHANGED <<stranded, disk>>
  BY DEF MoveEnd, MoveReplaced, MoveFails
<1>2. /\ m.src \notin deleting /\ m.dst \notin deleting
      /\ \A k \in moving \ {m} : k.dst # m.src /\ k.dst # m.dst
  BY DEF WritersApart
<1>3. NothingUntracked' /\ \A r \in Paths \ {m.src, m.dst} : overlay'[r] = overlay[r]
  <2>1. CASE MoveFails(m)
    BY <2>1, CoverTracks DEF MoveFails, HasCopy, Uploaded
  <2>2. CASE MoveEnd(m)
    BY <1>0, <1>1, <2>2, FreeHasNoCopy, TakeOverTracks DEF MoveEnd, ServeInv, TakeOver, Moved
  <2>3. CASE MoveReplaced(m)
    <3> DEFINE o == [overlay EXCEPT ![m.dst] = Covered(m.dst)]
    <3>1. overlay' = TakeOver(o, m.src, m.dst)
      BY <2>3 DEF MoveReplaced
    <3>2. /\ o \in [Paths -> Entry \cup {None}]
          /\ \A r \in Paths : r # m.dst => o[r] = overlay[r]
      BY <1>0, CoveredTyped
    <3> HIDE DEF o
    <3>3. ~HasCopy(m.dst)
      BY FreeHasNoCopy
    <3>4. NothingUntracked'
      BY <1>0, <1>1, <3>1, <3>2, <3>3, TakeOverTracks DEF ServeInv
    <3> QED BY <3>1, <3>2, <3>4 DEF TakeOver, Moved
  <2> QED BY <2>1, <2>2, <2>3
<1>4. WritersApart'
  BY <1>1 DEF WritersApart
<1>5. DestinationsFree'
  BY <1>0, <1>1, <1>2, <1>3 DEF DestinationsFree
<1> QED BY <1>3, <1>4, <1>5

LEMMA RestTracks ==
  ASSUME TrackInv, TimePasses \/ Restart \/ (\E f \in Files : Sticks(f)) \/ UNCHANGED vars
  PROVE  NothingUntracked' /\ WritersApart' /\ DestinationsFree'
<1>1. CASE TimePasses \/ (\E f \in Files : Sticks(f)) \/ UNCHANGED vars
  <2>1. UNCHANGED <<overlay, stranded, disk, deleting, moving>>
    BY <1>1 DEF TimePasses, Sticks, vars
  <2> QED BY <2>1 DEF TrackInv, NothingUntracked, OnDisk, Tracked, Stranded, HasCopy, Uploaded,
             WritersApart, DestinationsFree
<1>2. CASE Restart
  <2>1. WritersApart' /\ DestinationsFree'
    BY <1>2 DEF Restart, WritersApart, DestinationsFree
  <2>2. PICK unknown \in SUBSET (OnDisk \cap stuck) :
          stranded' = [f \in Files |-> IF f \notin OnDisk \cap stuck THEN None
                                       ELSE IF f \in unknown THEN Limit ELSE disk[f]]
    BY <1>2 DEF Restart
  <2>3. \A f \in Files : disk'[f] # None => stranded'[f] # None
    <3>1. Limit # None
      BY SizesAssumption
    <3> QED BY <1>2, <2>2, <3>1 DEF Restart, Unlinked, OnDisk
  <2> QED BY <2>1, <2>3 DEF NothingUntracked, OnDisk, Stranded
<1> QED BY <1>1, <1>2

LEMMA InitTracks == Init => TrackInv
<1>1. Init => NothingUntracked /\ WritersApart /\ DestinationsFree
  BY DEF Init, NothingUntracked, OnDisk, WritersApart, DestinationsFree
<1> QED BY <1>1, InitServes DEF TrackInv

LEMMA NextTracks ==
  ASSUME ~SharedWrites, TrackInv, [Next]_vars
  PROVE  TrackInv'
<1>1. ServeInv'
  BY NextServes DEF TrackInv
<1>2. ASSUME NEW p \in Paths, NEW size \in Sizes, Upload(p, size) PROVE TrackInv'
  BY <1>1, <1>2, UploadTracks, UploadKeepsFree DEF TrackInv
<1>3. ASSUME NEW p \in Paths,
             DeleteBegin(p) \/ DeleteEnd(p) \/ DeleteMissing(p) \/ CatchUp(p) \/ Look(p)
      PROVE  TrackInv'
  BY <1>1, <1>3, DeletesTrack DEF TrackInv
<1>4. ASSUME NEW p \in Paths, NEW q \in Paths,
             MoveBegin(p, q) \/ MoveOver(p, q) \/ MoveReplaces(p, q)
      PROVE  TrackInv'
  BY <1>1, <1>4, MovesTrack DEF TrackInv
<1>5. ASSUME NEW m \in moving, MoveEnd(m) \/ MoveReplaced(m) \/ MoveFails(m) PROVE TrackInv'
  BY <1>1, <1>5, MovesEndTrack DEF TrackInv
<1>6. CASE TimePasses \/ Restart \/ (\E f \in Files : Sticks(f)) \/ UNCHANGED vars
  BY <1>1, <1>6, RestTracks DEF TrackInv
<1> QED BY <1>2, <1>3, <1>4, <1>5, <1>6 DEF Next

\* With one writer per path, every file in the spool directory is some
\* entry's copy or stranded: nothing is left that nobody will delete.
THEOREM CopiesTracked ==
  ASSUME ~SharedWrites
  PROVE  Spec => []NothingUntracked
<1>1. TrackInv /\ [Next]_vars => TrackInv'
  BY NextTracks
<1>2. TrackInv => NothingUntracked
  BY DEF TrackInv
<1> QED BY <1>1, <1>2, InitTracks, PTL DEF Spec

-----------------------------------------------------------------------------
(* The budget.                                                             *)

\* The sums of the model, as the lemmas above know them.
LEMMA UsageIsTotal ==
  MapThenSumSet(LAMBDA f : disk[f], OnDisk) = Total(disk, OnDisk)
  BY DEF MapThenSumSet, MapThenFoldSet, First, Total, Sums

LEMMA StrandedIsTotal ==
  ASSUME NEW p, NEW S
  PROVE  MapThenSumSet(LAMBDA f : StrandedLeft(p)[f], S) = Total(StrandedLeft(p), S)
  BY DEF MapThenSumSet, MapThenFoldSet, First, Total, Sums

LEMMA UsageBound == UsageWithinLimit <=> (Limit > 0 => Total(disk, OnDisk) <= Limit)
  BY UsageIsTotal DEF UsageWithinLimit

LEMMA UsageBoundNext == UsageWithinLimit' <=> (Limit > 0 => Total(disk', OnDisk') <= Limit)
  BY DEF UsageWithinLimit, MapThenSumSet, MapThenFoldSet, First, Total, Sums

BudgetInv == TrackInv /\ StrandedCounted /\ DiskFinite /\ UsageWithinLimit

FilesOf(d) == {f \in Files : d[f] # None}

LEMMA BytesAreNat ==
  ASSUME NEW d \in [Files -> Nat \cup {None}]
  PROVE  \A f \in FilesOf(d) : d[f] \in Nat
  BY DEF FilesOf

\* A directory that only loses files stays within the budget.
LEMMA ShrinkFits ==
  ASSUME TypeOK, DiskFinite, UsageWithinLimit,
         disk' \in [Files -> Nat \cup {None}], \A f \in Files : disk'[f] \in {None, disk[f]}
  PROVE  DiskFinite' /\ UsageWithinLimit'
<1>1. OnDisk' \in SUBSET OnDisk /\ \A f \in OnDisk' : disk'[f] = disk[f]
  BY DEF OnDisk
<1>2. IsFiniteSet(OnDisk) /\ IsFiniteSet(OnDisk')
  BY <1>1, FS_Subset DEF DiskFinite
<1>3. \A f \in OnDisk : disk[f] \in Nat
  BY DEF OnDisk, TypeOK
<1>4. Total(disk', OnDisk') <= Total(disk, OnDisk')
  <2>1. \A f \in OnDisk' : disk'[f] \in Nat /\ disk[f] \in Nat /\ disk'[f] <= disk[f]
    BY <1>1, <1>3
  <2> QED BY <1>2, <2>1, TotalPointwise
<1>5. Total(disk, OnDisk') <= Total(disk, OnDisk)
  BY <1>1, <1>2, <1>3, TotalMonotone
<1>6. Total(disk', OnDisk') \in Nat /\ Total(disk, OnDisk') \in Nat /\ Total(disk, OnDisk) \in Nat
  BY <1>1, <1>2, <1>3, TotalNat
<1>7. Limit > 0 => Total(disk', OnDisk') <= Limit
  BY <1>4, <1>5, <1>6, UsageBound, SizesAssumption
<1> QED BY <1>2, <1>7, UsageBoundNext DEF DiskFinite

LEMMA CandidatesFinite ==
  ASSUME ServeInv, DiskFinite, NEW p \in Paths
  PROVE  IsFiniteSet(Candidates(p))
<1> DEFINE e == [q \in Candidates(p) |-> overlay[q].copy]
<1>1. \A q \in Candidates(p) : q \in Paths /\ HasCopy(q)
  BY GoneFields
<1>2. \A q \in Candidates(p) : overlay[q].copy \in OnDisk
  BY <1>1, CopyFields DEF OnDisk
<1>3. \A q, r \in Candidates(p) : overlay[q].copy = overlay[r].copy => q = r
  BY <1>1, CopyFields
<1>4. e \in Injection(Candidates(p), OnDisk)
  BY <1>2, <1>3 DEF Injection, IsInjective
<1> QED BY <1>4, FS_Injection DEF DiskFinite

\* The sizes of the entries.
Bytes == [q \in Paths |-> overlay[q].size]

LEMMA CandidateBytes ==
  ASSUME ServeInv, NEW p \in Paths
  PROVE  \A q \in Candidates(p) : Bytes[q] \in Nat /\ Bytes[q] = overlay[q].size
<1>1. \A q \in Candidates(p) : q \in Paths /\ HasCopy(q)
  BY GoneFields
<1> QED BY <1>1, EntryFields DEF Bytes, HasCopy, Uploaded, ServeInv

LEMMA SizeOfAllIs ==
  ASSUME ServeInv, DiskFinite, NEW p \in Paths, NEW Q \in SUBSET Candidates(p)
  PROVE  SizeOfAll(Q) = Total(Bytes, Q) /\ Total(Bytes, Q) \in Nat /\ IsFiniteSet(Q)
<1>1. IsFiniteSet(Q) /\ Q \in SUBSET Paths
  BY CandidatesFinite, FS_Subset, GoneFields
<1>2. \A q \in Q : Bytes[q] \in Nat
  BY CandidateBytes
<1> QED BY <1>1, <1>2, SizesAreTotal, TotalNat DEF SizeOfAll, Bytes

StrandedFiles(p) == {f \in Files : StrandedLeft(p)[f] # None}

LEMMA CountedIs ==
  ASSUME ServeInv, DiskFinite, NEW p \in Paths
  PROVE  /\ CountedFor(p) = Total(Bytes, Candidates(p)) + Total(StrandedLeft(p), StrandedFiles(p))
         /\ Total(StrandedLeft(p), StrandedFiles(p)) \in Nat
         /\ IsFiniteSet(StrandedFiles(p))
<1>1. StrandedFiles(p) \in SUBSET OnDisk
  BY LeftFields DEF StrandedFiles, OnDisk
<1>2. IsFiniteSet(StrandedFiles(p))
  BY <1>1, FS_Subset DEF DiskFinite
<1>3. \A f \in StrandedFiles(p) : StrandedLeft(p)[f] \in Nat
  BY LeftFields DEF StrandedFiles
<1>4. MapThenSumSet(LAMBDA q : overlay[q].size, Candidates(p)) = Total(Bytes, Candidates(p))
  BY CandidatesFinite, GoneFields, SizesAreTotal DEF Bytes
<1>5. MapThenSumSet(LAMBDA f : StrandedLeft(p)[f], {f \in Files : StrandedLeft(p)[f] # None})
      = Total(StrandedLeft(p), StrandedFiles(p))
  BY StrandedIsTotal DEF StrandedFiles
<1> QED BY <1>2, <1>3, <1>4, <1>5, TotalNat DEF CountedFor

\* The directory d, which an upload of a copy leaves, is within the budget:
\* it holds the copies that were kept, the stranded files and the new one.
LEMMA RoomMade ==
  ASSUME ServeInv, DiskFinite, StrandedCounted, Limit > 0,
         NEW p \in Paths, NEW size \in Sizes, Admits(p, size),
         NEW d \in [Files -> Nat \cup {None}], NEW f \in Files, disk[f] = None,
         d[f] # None => d[f] <= size,
         \A g \in Files : disk[g] # None => d[g] = DiskLeft(p, size)[g],
         \A g \in FilesOf(d) : \/ g = f \/ g \in StrandedFiles(p)
                               \/ \E q \in Candidates(p) \ Gone(p, size) : overlay[q].copy = g
  PROVE  IsFiniteSet(FilesOf(d)) /\ Total(d, FilesOf(d)) <= Limit
<1> DEFINE Q == Candidates(p) \ Gone(p, size)
           K == {overlay[q].copy : q \in Q}
           S == StrandedFiles(p)
           N == {f} \cap FilesOf(d)
           e == [q \in Q |-> overlay[q].copy]
<1>1. /\ size \in Nat /\ size <= MaxFile /\ Gone(p, size) = Evicted(p, size)
      /\ Fits(p, size, Gone(p, size))
  BY SizesAssumption DEF Admits, Gone
<1>2. \A q \in Q : /\ q \in Paths /\ HasCopy(q) /\ overlay[q].copy \in FilesOf(d)
                   /\ d[overlay[q].copy] = overlay[q].size
  BY KeptFiles DEF FilesOf
<1>3. \A g \in S : g \in FilesOf(d) /\ d[g] = disk[g] /\ disk[g] # None
  BY LeftFields DEF FilesOf, StrandedFiles
<1>4. FilesOf(d) = (K \cup S) \cup N
  BY <1>2, <1>3
<1>5. /\ IsFiniteSet(Q) /\ Q \in SUBSET Candidates(p) /\ Gone(p, size) \in SUBSET Candidates(p)
      /\ IsFiniteSet(Candidates(p)) /\ IsFiniteSet(S)
  BY CandidatesFinite, CountedIs, GoneFields, FS_Subset
<1>6. IsFiniteSet(K) /\ Total(d, K) = Total(Bytes, Q)
  <2>1. \A q \in Q : Bytes[q] \in Nat /\ d[e[q]] = Bytes[q]
    BY <1>2, <1>5, CandidateBytes
  <2>2. \A q, r \in Q : e[q] = e[r] => q = r
    BY <1>2, CopyFields
  <2>3. K = {e[q] : q \in Q}
    OBVIOUS
  <2> HIDE DEF Q, K, e
  <2> QED BY <1>5, <2>1, <2>2, <2>3, TotalImage
<1>7. Total(Bytes, Q) = Total(Bytes, Candidates(p)) - Total(Bytes, Gone(p, size))
  <2> HIDE DEF K, S, N, e
  <2> QED BY <1>5, CandidateBytes, TotalDifference
<1>8. Total(d, S) <= Total(StrandedLeft(p), S)
  <2>1. ASSUME NEW g \in S
        PROVE  d[g] \in Nat /\ StrandedLeft(p)[g] \in Nat /\ d[g] <= StrandedLeft(p)[g]
    <3>1. g \in Files /\ StrandedLeft(p)[g] \in Nat /\ d[g] = disk[g] /\ d[g] \in Nat
      BY <1>3, LeftFields DEF StrandedFiles
    <3>2. StrandedLeft(p)[g] \in {disk[g], stranded[g]} /\ StrandedLeft(p)[g] # None
      BY <3>1, LeftFields DEF StrandedFiles
    <3> QED BY <3>1, <3>2 DEF StrandedCounted
  <2> HIDE DEF S
  <2> QED BY <1>5, <2>1, TotalPointwise
<1>9. IsFiniteSet(N) /\ Total(d, N) <= size /\ Total(d, N) \in Nat
  <2>1. CASE f \in FilesOf(d)
    <3>1. N = {} \cup {f} /\ d[f] \in Nat /\ d[f] <= size
      BY <2>1 DEF FilesOf
    <3>2. IsFiniteSet({} \cup {f}) /\ Total(d, {} \cup {f}) = Total(d, {}) + d[f]
      BY <3>1, TotalAdd, FS_EmptySet, FS_AddElement
    <3>3. Total(d, {}) = 0
      BY TotalEmpty
    <3> HIDE DEF N
    <3> QED BY <3>1, <3>2, <3>3
  <2>2. CASE f \notin FilesOf(d)
    <3>1. N = {}
      BY <2>2
    <3>2. Total(d, {}) = 0 /\ IsFiniteSet({})
      BY TotalEmpty, FS_EmptySet
    <3> HIDE DEF N
    <3> QED BY <1>1, <3>1, <3>2
  <2> QED BY <2>1, <2>2
<1>10. /\ \A g \in K \cup S : d[g] \in Nat
       /\ \A g \in (K \cup S) \cup N : d[g] \in Nat
  BY <1>4, BytesAreNat
<1> HIDE DEF Q, K, S, N, e
<1>11. IsFiniteSet(K \cup S) /\ Total(d, K \cup S) <= Total(d, K) + Total(d, S)
       /\ Total(d, K \cup S) \in Nat
  BY <1>5, <1>6, <1>10, FS_Union, TotalOfUnion, TotalNat
<1>12. /\ IsFiniteSet((K \cup S) \cup N)
       /\ Total(d, (K \cup S) \cup N) <= Total(d, K \cup S) + Total(d, N)
       /\ Total(d, (K \cup S) \cup N) \in Nat
  BY <1>9, <1>10, <1>11, FS_Union, TotalOfUnion, TotalNat
<1>13. /\ Total(d, K) \in Nat /\ Total(d, S) \in Nat
       /\ Total(Bytes, Candidates(p)) \in Nat /\ Total(Bytes, Gone(p, size)) \in Nat
       /\ Total(StrandedLeft(p), S) \in Nat
  BY <1>5, <1>6, <1>10, TotalNat, SizeOfAllIs, CountedIs DEF S
<1>14. Total(Bytes, Candidates(p)) + Total(StrandedLeft(p), S)
       - Total(Bytes, Gone(p, size)) + size <= Limit
  BY <1>1, <1>5, CountedIs, SizeOfAllIs DEF Fits, S
<1>15. Total(d, (K \cup S) \cup N) <= Limit
  BY <1>1, <1>6, <1>7, <1>8, <1>9, <1>11, <1>12, <1>13, <1>14, SizesAssumption
<1> QED BY <1>4, <1>12, <1>15

LEMMA UploadFits ==
  ASSUME ServeInv, NothingUntracked', StrandedCounted, DiskFinite, UsageWithinLimit,
         NEW p \in Paths, NEW size \in Sizes, NEW f \in Files, NEW copy \in Files \cup {None},
         Admits(p, size), disk[f] = None, copy \in {f, None}, StoreEntry(p, size, copy),
         disk' \in [Files -> Nat \cup {None}],
         disk'[f] # None => disk'[f] <= size,
         \A g \in Files \ {f} : disk'[g] = DiskLeft(p, size)[g] /\ stranded'[g] = StrandedLeft(p)[g]
  PROVE  DiskFinite' /\ UsageWithinLimit'
<1>1. OnDisk' = FilesOf(disk')
  BY DEF OnDisk, FilesOf
<1>2. CASE Limit > 0
  <2>1. ASSUME NEW g \in FilesOf(disk')
        PROVE  \/ g = f \/ g \in StrandedFiles(p)
               \/ \E q \in Candidates(p) \ Gone(p, size) : overlay[q].copy = g
    <3>1. \/ stranded'[g] # None \/ \E q \in Paths : HasCopy(q)' /\ overlay'[q].copy = g
      BY <1>1, <2>1 DEF NothingUntracked, OnDisk, Tracked, Stranded
    <3>2. g \in Files
      BY <2>1 DEF FilesOf
    <3>3. CASE g # f /\ stranded'[g] # None
      BY <3>2, <3>3 DEF StrandedFiles
    <3>4. ASSUME g # f, NEW q \in Paths, HasCopy(q)', overlay'[q].copy = g
          PROVE  \E r \in Candidates(p) \ Gone(p, size) : overlay[r].copy = g
      <4>1. size \in Nat
        BY SizesAssumption
      <4>2. q # p
        BY <3>2, <3>4, <4>1, StoreFields, SizesAssumption
      <4>3. q \in Candidates(p) \ Gone(p, size) /\ overlay'[q] = overlay[q]
        BY <3>4, <4>1, <4>2, StoreFields
      <4> QED BY <3>4, <4>3
    <3> QED BY <3>1, <3>3, <3>4
  <2>2. \A g \in Files : disk[g] # None => disk'[g] = DiskLeft(p, size)[g]
    OBVIOUS
  <2>3. IsFiniteSet(FilesOf(disk')) /\ Total(disk', FilesOf(disk')) <= Limit
    BY <1>2, <2>1, <2>2, RoomMade
  <2> QED BY <1>1, <2>3, UsageBoundNext DEF DiskFinite
<1>3. CASE ~(Limit > 0)
  <2>1. OnDisk' \in SUBSET (OnDisk \cup {f})
    BY LeftFields DEF OnDisk
  <2>2. IsFiniteSet(OnDisk \cup {f})
    BY FS_AddElement DEF DiskFinite
  <2> QED BY <1>3, <2>1, <2>2, FS_Subset, UsageBoundNext DEF DiskFinite
<1> QED BY <1>2, <1>3

\* Strandings are counted with what they are on disk, at the least.
LEMMA UploadCounts ==
  ASSUME ServeInv, StrandedCounted, NEW p \in Paths, NEW size, NEW f \in Files, disk[f] = None,
         \A g \in Files \ {f} : disk'[g] = DiskLeft(p, size)[g] /\ stranded'[g] = StrandedLeft(p)[g],
         stranded'[f] # None => disk'[f] <= stranded'[f]
  PROVE  StrandedCounted'
<1>1. ASSUME NEW g \in Files \ {f}, stranded'[g] # None, Limit > 0
      PROVE  disk'[g] <= stranded'[g]
  <2>1. disk'[g] = disk[g] /\ disk[g] # None /\ stranded'[g] \in {disk[g], stranded[g]}
    BY <1>1, LeftFields
  <2>2. disk[g] \in Nat
    BY <2>1 DEF ServeInv, TypeOK
  <2> QED BY <1>1, <2>1, <2>2 DEF StrandedCounted
<1> QED BY <1>1 DEF StrandedCounted

LEMMA UploadKeepsBudget ==
  ASSUME BudgetInv, NothingUntracked', NEW p \in Paths, NEW size \in Sizes, Upload(p, size)
  PROVE  StrandedCounted' /\ DiskFinite' /\ UsageWithinLimit'
<1> USE DEF BudgetInv, TrackInv
<1>0. size \in Nat /\ size # None /\ None \notin Nat
  BY SizesAssumption
<1>1. CASE UploadWithoutCopy(p, size)
  <2>1. disk' = DiskLeft(p, size) /\ stranded' = StrandedLeft(p)
    BY <1>1 DEF UploadWithoutCopy
  <2>2. DiskFinite' /\ UsageWithinLimit'
    BY <2>1, LeftTyped, LeftFields, ShrinkFits DEF ServeInv
  <2>3. ASSUME NEW g \in Files, stranded'[g] # None, Limit > 0
        PROVE  disk'[g] <= stranded'[g]
    <3>1. disk'[g] = disk[g] /\ disk[g] # None /\ stranded'[g] \in {disk[g], stranded[g]}
      BY <2>1, <2>3, LeftFields
    <3>2. disk[g] \in Nat
      BY <3>1 DEF ServeInv, TypeOK
    <3> QED BY <2>3, <3>1, <3>2 DEF StrandedCounted
  <2> QED BY <2>2, <2>3 DEF StrandedCounted
<1>2. ASSUME NEW f \in Files, UploadWithCopy(p, size, f)
      PROVE  StrandedCounted' /\ DiskFinite' /\ UsageWithinLimit'
  <2>1. /\ StoreEntry(p, size, f) /\ disk[f] = None /\ Admits(p, size)
        /\ disk' = [DiskLeft(p, size) EXCEPT ![f] = size] /\ stranded' = StrandedLeft(p)
    BY <1>2 DEF UploadWithCopy
  <2>2. /\ disk' \in [Files -> Nat \cup {None}] /\ disk'[f] = size
        /\ \A g \in Files \ {f} : disk'[g] = DiskLeft(p, size)[g] /\ stranded'[g] = StrandedLeft(p)[g]
    BY <1>0, <1>2, <2>1, LeftTyped
  <2>3. stranded'[f] = None
    BY <1>2, <2>1, LeftFields
  <2>4. StrandedCounted'
    BY <1>2, <2>1, <2>2, <2>3, UploadCounts
  <2>5. DiskFinite' /\ UsageWithinLimit'
    BY <1>0, <1>2, <2>1, <2>2, UploadFits
  <2> QED BY <2>4, <2>5
<1>3. ASSUME NEW f \in Files, NEW partial \in 0..size, NEW counted \in 0..size,
             UploadCopyFails(p, size, f, partial, counted)
      PROVE  StrandedCounted' /\ DiskFinite' /\ UsageWithinLimit'
  <2>1. /\ StoreEntry(p, size, None) /\ disk[f] = None /\ Admits(p, size)
        /\ partial <= size /\ counted \in {partial, size}
        /\ disk' = [DiskLeft(p, size) EXCEPT ![f] = IF f \in stuck THEN partial ELSE None]
        /\ stranded' = [StrandedLeft(p) EXCEPT ![f] = IF f \in stuck THEN counted ELSE None]
    BY <1>3 DEF UploadCopyFails
  <2>2. partial \in Nat /\ counted \in Nat
    BY <1>0, <1>3
  <2>3. /\ disk' \in [Files -> Nat \cup {None}]
        /\ disk'[f] = (IF f \in stuck THEN partial ELSE None)
        /\ stranded'[f] = (IF f \in stuck THEN counted ELSE None)
        /\ \A g \in Files \ {f} : disk'[g] = DiskLeft(p, size)[g] /\ stranded'[g] = StrandedLeft(p)[g]
    BY <1>3, <2>1, <2>2, LeftTyped
  <2>4. StrandedCounted'
    BY <1>0, <1>3, <2>1, <2>2, <2>3, UploadCounts
  <2>5. DiskFinite' /\ UsageWithinLimit'
    BY <1>0, <1>3, <2>1, <2>2, <2>3, UploadFits
  <2> QED BY <2>4, <2>5
<1> QED BY <1>1, <1>2, <1>3 DEF Upload

LEMMA DropKeepsBudget ==
  ASSUME BudgetInv, NEW P \in SUBSET Paths, Drop(P)
  PROVE  StrandedCounted' /\ DiskFinite' /\ UsageWithinLimit'
<1> USE DEF BudgetInv, TrackInv, ServeInv
<1>1. \A f \in Files :
        /\ disk'[f] = IF f \in CopiesOf(P) \ stuck THEN None ELSE disk[f]
        /\ stranded'[f] = IF f \in CopiesOf(P) \cap stuck THEN disk[f] ELSE stranded[f]
        /\ f \in CopiesOf(P) => disk[f] \in Nat /\ stranded[f] = None
  BY StrandsValue DEF Drop, Unlinked
<1>2. disk' \in [Files -> Nat \cup {None}]
  BY DEF Drop, Unlinked, TypeOK
<1>3. DiskFinite' /\ UsageWithinLimit'
  <2>1. \A f \in Files : disk'[f] \in {None, disk[f]}
    BY <1>1
  <2> QED BY <1>2, <2>1, ShrinkFits
<1>4. ASSUME NEW f \in Files, stranded'[f] # None, Limit > 0
      PROVE  disk'[f] <= stranded'[f]
  <2>1. CASE f \in CopiesOf(P)
    BY <1>1, <1>4, <2>1
  <2>2. CASE f \notin CopiesOf(P)
    BY <1>1, <1>4, <2>2 DEF StrandedCounted
  <2> QED BY <2>1, <2>2
<1> QED BY <1>3, <1>4 DEF StrandedCounted

LEMMA SameKeepsBudget ==
  ASSUME BudgetInv, UNCHANGED <<disk, stranded>>
  PROVE  StrandedCounted' /\ DiskFinite' /\ UsageWithinLimit'
<1>1. OnDisk' = OnDisk
  BY DEF OnDisk
<1> QED BY <1>1, UsageBound, UsageBoundNext DEF BudgetInv, StrandedCounted, DiskFinite

LEMMA RestartKeepsBudget ==
  ASSUME BudgetInv, Restart
  PROVE  StrandedCounted' /\ DiskFinite' /\ UsageWithinLimit'
<1> USE DEF BudgetInv, TrackInv, ServeInv
<1>1. PICK unknown \in SUBSET (OnDisk \cap stuck) :
        stranded' = [f \in Files |-> IF f \notin OnDisk \cap stuck THEN None
                                     ELSE IF f \in unknown THEN Limit ELSE disk[f]]
  BY DEF Restart
<1>2. \A f \in Files : disk'[f] = IF f \in OnDisk \ stuck THEN None ELSE disk[f]
  BY DEF Restart, Unlinked
<1>3. disk' \in [Files -> Nat \cup {None}]
  BY DEF Restart, Unlinked, TypeOK
<1>4. DiskFinite' /\ UsageWithinLimit'
  <2>1. \A f \in Files : disk'[f] \in {None, disk[f]}
    BY <1>2
  <2> QED BY <1>3, <2>1, ShrinkFits
<1>5. ASSUME NEW f \in Files, stranded'[f] # None, Limit > 0
      PROVE  disk'[f] <= stranded'[f]
  <2>1. f \in OnDisk /\ disk'[f] = disk[f] /\ disk[f] \in Nat /\ stranded'[f] \in {Limit, disk[f]}
    BY <1>1, <1>2, <1>5 DEF OnDisk, TypeOK
  <2>2. disk[f] <= Limit
    <3>1. \A g \in OnDisk : disk[g] \in Nat
      BY DEF OnDisk, TypeOK
    <3> DEFINE T == OnDisk \ {f}
    <3>2. IsFiniteSet(T) /\ \A g \in T : disk[g] \in Nat
      BY <3>1, FS_Subset DEF DiskFinite
    <3>3. Total(disk, OnDisk) = disk[f] + Total(disk, T)
      BY <2>1, <3>1, TotalRemove DEF DiskFinite
    <3>4. Total(disk, T) \in Nat
      <4> HIDE DEF T
      <4> QED BY <3>2, TotalNat
    <3>5. Total(disk, OnDisk) <= Limit
      BY <1>5, UsageBound
    <3> HIDE DEF T
    <3> QED BY <2>1, <3>3, <3>4, <3>5, SizesAssumption
  <2> QED BY <2>1, <2>2
<1> QED BY <1>4, <1>5 DEF StrandedCounted

LEMMA NextKeepsBudget ==
  ASSUME ~SharedWrites, BudgetInv, [Next]_vars
  PROVE  BudgetInv'
<1>1. TrackInv'
  BY NextTracks DEF BudgetInv
<1>2. ASSUME NEW p \in Paths, NEW size \in Sizes, Upload(p, size) PROVE BudgetInv'
  BY <1>1, <1>2, UploadKeepsBudget DEF BudgetInv, TrackInv
<1>3. ASSUME NEW p \in Paths, Drop({p}) PROVE BudgetInv'
  BY <1>1, <1>3, DropKeepsBudget DEF BudgetInv
<1>4. ASSUME UNCHANGED <<disk, stranded>> PROVE BudgetInv'
  BY <1>1, <1>4, SameKeepsBudget DEF BudgetInv
<1>5. CASE Restart
  BY <1>1, <1>5, RestartKeepsBudget DEF BudgetInv
<1>6. CASE \E p \in Paths : \/ DeleteBegin(p) \/ DeleteEnd(p) \/ DeleteMissing(p)
                            \/ CatchUp(p) \/ Look(p)
  BY <1>3, <1>4, <1>6 DEF DeleteBegin, DeleteEnd, DeleteMissing, CatchUp, Look
<1>7. CASE \E p, q \in Paths : MoveBegin(p, q) \/ MoveOver(p, q) \/ MoveReplaces(p, q)
  BY <1>3, <1>4, <1>7 DEF MoveBegin, MoveOver, MoveReplaces
<1>8. CASE \E m \in moving : MoveEnd(m) \/ MoveReplaced(m) \/ MoveFails(m)
  BY <1>4, <1>8 DEF MoveEnd, MoveReplaced, MoveFails
<1>9. CASE TimePasses \/ (\E f \in Files : Sticks(f)) \/ UNCHANGED vars
  BY <1>4, <1>9 DEF TimePasses, Sticks, vars
<1> QED BY <1>2, <1>5, <1>6, <1>7, <1>8, <1>9 DEF Next

LEMMA InitBudget == Init => BudgetInv
<1> SUFFICES ASSUME Init PROVE BudgetInv
  OBVIOUS
<1>1. OnDisk = {} /\ StrandedCounted
  BY DEF Init, OnDisk, StrandedCounted
<1>2. DiskFinite /\ UsageWithinLimit
  BY <1>1, FS_EmptySet, TotalEmpty, UsageBound, SizesAssumption DEF DiskFinite
<1> QED BY <1>1, <1>2, InitTracks DEF BudgetInv

\* The spool directory never outgrows CACHE_MAX_SIZE_MB (store.py:
\* _reserve_local_copy, _local_copies_size), whatever fails to be deleted or
\* copied, however entries expire and however often the gateway restarts.
THEOREM UsageHolds ==
  ASSUME ~SharedWrites
  PROVE  Spec => []UsageWithinLimit
<1>1. BudgetInv /\ [Next]_vars => BudgetInv'
  BY NextKeepsBudget
<1>2. BudgetInv => UsageWithinLimit
  BY DEF BudgetInv
<1> QED BY <1>1, <1>2, InitBudget, PTL DEF Spec

-----------------------------------------------------------------------------
(* The order of evictions.                                                 *)

\* What is evicted stays evicted when more goes before it.
LEMMA FitsMore ==
  ASSUME ServeInv, DiskFinite, NEW p \in Paths, NEW size \in Nat,
         NEW Q \in SUBSET Candidates(p), NEW R \in SUBSET Candidates(p), Q \subseteq R,
         Fits(p, size, Q)
  PROVE  Fits(p, size, R)
<1>1. /\ SizeOfAll(Q) = Total(Bytes, Q) /\ Total(Bytes, Q) \in Nat
      /\ SizeOfAll(R) = Total(Bytes, R) /\ Total(Bytes, R) \in Nat /\ IsFiniteSet(R)
  BY SizeOfAllIs
<1>2. Total(Bytes, Q) <= Total(Bytes, R)
  <2>1. \A q \in R : Bytes[q] \in Nat
    BY CandidateBytes
  <2> QED BY <1>1, <2>1, TotalMonotone
<1>3. CountedFor(p) \in Nat
  BY CountedIs, SizeOfAllIs
<1> QED BY <1>1, <1>2, <1>3, SizesAssumption DEF Fits

LEMMA EvictsOldest ==
  ASSUME ServeInv, DiskFinite, NEW o \in Paths, NEW size \in Sizes,
         NEW copy \in Files \cup {None}, StoreEntry(o, size, copy),
         NEW p \in Paths, NEW q \in Paths,
         HasCopy(p), Uploaded(p)', ~HasCopy(p)', overlay'[p].exp = overlay[p].exp,
         HasCopy(q)', overlay'[q] = overlay[q], overlay[q].exp < overlay[p].exp
  PROVE  overlay[q].copy \in stuck
<1>1. size \in Nat /\ uploads \in Nat
  BY SizesAssumption DEF ServeInv, TypeOK
<1>2. /\ overlay[p] # None /\ overlay[p].exp \in Nat /\ overlay[p].exp <= uploads
      /\ overlay[q] # None
  BY EntryFields DEF ServeInv, NumberedByUpload, HasCopy, Uploaded
<1>3. overlay[q].exp \in Nat
  BY <1>2, EntryFields DEF ServeInv
<1>4. p # o /\ q # o
  <2>1. overlay'[o].exp = uploads + 1
    BY <1>1, StoreFields
  <2> QED BY <1>1, <1>2, <1>3, <2>1
<1>5. q \in Candidates(o) \ Gone(o, size)
  BY <1>1, <1>4, StoreFields
<1>6. p \in Gone(o, size)
  <2>1. p \notin Candidates(o) \ Gone(o, size)
    BY <1>1, <1>4, StoreFields
  <2>2. p \notin Swept(o)
    <3>1. p \in Swept(o) => overlay'[p] = None
      <4>1. p \in Swept(o) => p \notin Gone(o, size)
        BY GoneFields
      <4> QED BY <1>4, <4>1 DEF StoreEntry, Gone, Without
    <3> QED BY <3>1 DEF Uploaded
  <2> QED BY <2>1, <2>2 DEF Candidates
<1>7. SUFFICES ASSUME overlay[q].copy \notin stuck PROVE FALSE
  OBVIOUS
<1>8. /\ Gone(o, size) = Evicted(o, size) /\ Limit # 0 /\ ~(size > Limit)
      /\ ~Fits(o, size, Before(o, p))
  BY <1>6 DEF Gone, Evicted
<1>9. Fits(o, size, Before(o, q))
  BY <1>5, <1>7, <1>8 DEF Evicted
<1>10. /\ Before(o, q) \in SUBSET Candidates(o) /\ Before(o, p) \in SUBSET Candidates(o)
       /\ Before(o, q) \subseteq Before(o, p)
  <2>1. \A r \in Candidates(o) : overlay[r].exp \in Nat
    BY GoneFields, EntryFields DEF ServeInv, HasCopy, Uploaded
  <2> QED BY <1>2, <1>3, <2>1 DEF Before
<1> QED BY <1>1, <1>8, <1>9, <1>10, FitsMore


\* Whatever a step does, it makes one file at the most.
LEMMA StaysFinite ==
  ASSUME ServeInv, DiskFinite, [Next]_vars
  PROVE  DiskFinite'
<1>1. ASSUME NEW f, OnDisk' \subseteq OnDisk \cup {f} PROVE DiskFinite'
  <2>1. IsFiniteSet(OnDisk \cup {f}) /\ OnDisk' \in SUBSET (OnDisk \cup {f})
    BY <1>1, FS_AddElement DEF DiskFinite
  <2> QED BY <2>1, FS_Subset DEF DiskFinite
<1>2. ASSUME \A f \in Files : disk'[f] \in {None, disk[f]} PROVE DiskFinite'
  BY <1>1, <1>2 DEF OnDisk
<1>3. ASSUME NEW p \in Paths, NEW size \in Sizes, Upload(p, size) PROVE DiskFinite'
  <2>1. CASE UploadWithoutCopy(p, size)
    BY <1>2, <2>1, LeftFields DEF UploadWithoutCopy
  <2>2. ASSUME NEW f \in Files, UploadWithCopy(p, size, f) PROVE DiskFinite'
    <3>1. \A g \in Files \ {f} : disk'[g] = DiskLeft(p, size)[g]
      BY <2>2, LeftTyped DEF UploadWithCopy
    <3>2. OnDisk' \subseteq OnDisk \cup {f}
      BY <3>1, LeftFields DEF OnDisk
    <3> QED BY <1>1, <3>2
  <2>3. ASSUME NEW f \in Files, NEW partial, NEW counted,
               UploadCopyFails(p, size, f, partial, counted)
        PROVE  DiskFinite'
    <3>1. \A g \in Files \ {f} : disk'[g] = DiskLeft(p, size)[g]
      BY <2>3, LeftTyped DEF UploadCopyFails
    <3>2. OnDisk' \subseteq OnDisk \cup {f}
      BY <3>1, LeftFields DEF OnDisk
    <3> QED BY <1>1, <3>2
  <2> QED BY <1>3, <2>1, <2>2, <2>3 DEF Upload
<1>4. ASSUME NEW P, Drop(P) PROVE DiskFinite'
  BY <1>2, <1>4 DEF Drop, Unlinked
<1>5. CASE Restart
  BY <1>2, <1>5 DEF Restart, Unlinked
<1>6. CASE UNCHANGED disk
  BY <1>2, <1>6
<1>7. CASE \E p \in Paths : \/ DeleteBegin(p) \/ DeleteEnd(p) \/ DeleteMissing(p)
                            \/ CatchUp(p) \/ Look(p)
  BY <1>4, <1>6, <1>7 DEF DeleteBegin, DeleteEnd, DeleteMissing, CatchUp, Look
<1>8. CASE \E p, q \in Paths : MoveBegin(p, q) \/ MoveOver(p, q) \/ MoveReplaces(p, q)
  BY <1>4, <1>6, <1>8 DEF MoveBegin, MoveOver, MoveReplaces
<1>9. CASE \E m \in moving : MoveEnd(m) \/ MoveReplaced(m) \/ MoveFails(m)
  BY <1>6, <1>9 DEF MoveEnd, MoveReplaced, MoveFails
<1>10. CASE TimePasses \/ (\E f \in Files : Sticks(f)) \/ UNCHANGED vars
  BY <1>6, <1>10 DEF TimePasses, Sticks, vars
<1> QED BY <1>3, <1>5, <1>7, <1>8, <1>9, <1>10 DEF Next

LEMMA OnlyUploadsCount ==
  ASSUME [Next]_vars, uploads \in Nat, uploads' > uploads
  PROVE  \E p \in Paths, size \in Sizes : Upload(p, size)
<1>1. uploads' # uploads
  OBVIOUS
<1> QED BY <1>1 DEF Next, vars, Drop, DeleteBegin, DeleteEnd, DeleteMissing, CatchUp, Look,
           MoveBegin, MoveOver, MoveReplaces, MoveEnd, MoveReplaced, MoveFails, TimePasses,
           Restart, Sticks

\* An upload that takes the copy of a living entry away leaves no older copy
\* it could have taken instead (store.py: _reserve_local_copy).
THEOREM EvictionsInOrder == Spec => OldestFirst
<1> DEFINE A == \A p, q \in Paths :
                   /\ uploads' > uploads
                   /\ HasCopy(p) /\ Uploaded(p)' /\ ~HasCopy(p)'
                   /\ overlay'[p].exp = overlay[p].exp
                   /\ HasCopy(q)' /\ overlay'[q] = overlay[q] /\ overlay[q].exp < overlay[p].exp
                   => overlay[q].copy \in stuck
<1>1. Init => ServeInv /\ DiskFinite
  <2>1. Init => OnDisk = {}
    BY DEF Init, OnDisk
  <2> QED BY <2>1, InitServes, FS_EmptySet DEF DiskFinite
<1>2. ServeInv /\ DiskFinite /\ [Next]_vars => (ServeInv /\ DiskFinite)'
  BY NextServes, StaysFinite
<1>3. ServeInv /\ DiskFinite /\ [Next]_vars => [A]_vars
  <2> SUFFICES ASSUME ServeInv, DiskFinite, [Next]_vars PROVE A
    OBVIOUS
  <2> SUFFICES ASSUME NEW p \in Paths, NEW q \in Paths, uploads' > uploads,
                      HasCopy(p), Uploaded(p)', ~HasCopy(p)', overlay'[p].exp = overlay[p].exp,
                      HasCopy(q)', overlay'[q] = overlay[q], overlay[q].exp < overlay[p].exp
               PROVE  overlay[q].copy \in stuck
    OBVIOUS
  <2>1. PICK o \in Paths, size \in Sizes : Upload(o, size)
    BY OnlyUploadsCount DEF ServeInv, TypeOK
  <2>2. PICK copy \in Files \cup {None} : StoreEntry(o, size, copy)
    BY <2>1 DEF Upload, UploadWithoutCopy, UploadWithCopy, UploadCopyFails
  <2> QED BY <2>2, EvictsOldest
<1> QED BY <1>1, <1>2, <1>3, PTL DEF Spec, OldestFirst

=============================================================================

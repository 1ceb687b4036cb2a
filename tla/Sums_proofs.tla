---------------------------- MODULE Sums_proofs -----------------------------
(***************************************************************************)
(* What SumOver is, for every function of naturals and every finite set.   *)
(*                                                                         *)
(* SumOver folds the community module's recursive function, whose value is *)
(* a CHOOSE: a function that satisfies the recursion must be shown to      *)
(* exist before anything is known of it.  It is built one size of subset   *)
(* at a time (FoldExists), and each law below is then proved by taking a   *)
(* smallest subset that breaks it (LeastNat, SmallestSubset).              *)
(***************************************************************************)
EXTENDS Sums, FiniteSetTheorems, WellFoundedInduction, TLAPS

(* Induction over the natural numbers, in the form of a least element. *)
LEMMA LeastNat ==
  ASSUME NEW T, T \subseteq Nat, T # {}
  PROVE  \E n \in T : \A m \in T : n <= m
<1> DEFINE Lt == {ss \in Nat \X Nat : ss[1] < ss[2]}
<1>1. IsWellFoundedOn(Lt, Nat)
  BY NatLessThanWellFounded DEF OpToRel
<1>2. \A m, n \in Nat : m < n => <<m, n>> \in Lt
  OBVIOUS
<1> HIDE DEF Lt
<1>3. PICK n \in T : \A m \in T : <<m, n>> \notin Lt
  BY <1>1, WFMin
<1>4. ASSUME NEW m \in T PROVE n <= m
  <2>1. m \in Nat /\ n \in Nat /\ <<m, n>> \notin Lt
    BY <1>3
  <2>2. ~(m < n)
    BY <1>2, <2>1
  <2> QED
    BY <2>1, <2>2
<1> QED
  BY <1>4

(* g is the fold of f over the subsets of S, as the definition unfolds it. *)
Pick(s) == CHOOSE x \in s : TRUE
IsFold(g, f, S) ==
  g = [s \in SUBSET S |-> IF s = {} THEN 0 ELSE f[Pick(s)] + g[s \ {Pick(s)}]]

(* What is picked from a set is in it. *)
LEMMA PickIsAnElement ==
  ASSUME NEW s, s # {}
  PROVE  Pick(s) \in s
BY DEF Pick

(* The sum is the value at S of a function the recursion describes. *)
LEMMA Unfold ==
  ASSUME NEW f, NEW S
  PROVE  SumOver(f, S) = (CHOOSE g : IsFold(g, f, S))[S]
BY DEF SumOver, FoldFunctionOnSet, MapThenFoldSet, IsFold, Pick

(* The fold of the subsets of at most n elements. *)
FoldStep(g, f, S, n) ==
  [s \in SUBSET S |-> IF s = {} \/ Cardinality(s) > n THEN 0
                      ELSE f[Pick(s)] + g[s \ {Pick(s)}]]
IsFoldTo(g, f, S, n) == g = FoldStep(g, f, S, n)

(* The size of a subset, and of a subset less its picked element. *)
LEMMA SubsetSize ==
  ASSUME NEW S, IsFiniteSet(S), NEW s \in SUBSET S
  PROVE  /\ IsFiniteSet(s) /\ Cardinality(s) \in Nat
         /\ Cardinality(s) <= Cardinality(S)
         /\ Cardinality(s) = 0 <=> s = {}
         /\ s # {} => /\ s \ {Pick(s)} \in SUBSET S
                      /\ Cardinality(s \ {Pick(s)}) = Cardinality(s) - 1
BY FS_Subset, FS_CardinalityType, FS_EmptySet, FS_RemoveElement, PickIsAnElement

(* A fold of the subsets of n elements gives one of those of n + 1. *)
LEMMA FoldExtends ==
  ASSUME NEW f, NEW S, IsFiniteSet(S), NEW n \in Nat,
         NEW g, IsFoldTo(g, f, S, n)
  PROVE  \E h : IsFoldTo(h, f, S, n + 1)
<1> DEFINE h == FoldStep(g, f, S, n + 1)
<1>1. ASSUME NEW s \in SUBSET S, Cardinality(s) <= n PROVE h[s] = g[s]
  <2>1. Cardinality(s) \in Nat
    BY SubsetSize
  <2>2. ~(Cardinality(s) > n) /\ ~(Cardinality(s) > n + 1)
    BY <1>1, <2>1
  <2> QED
    BY <2>2 DEF FoldStep, IsFoldTo
<1>2. ASSUME NEW s \in SUBSET S, s # {}, ~(Cardinality(s) > n + 1)
      PROVE  h[s \ {Pick(s)}] = g[s \ {Pick(s)}]
  <2>1. s \ {Pick(s)} \in SUBSET S /\ Cardinality(s \ {Pick(s)}) <= n
    BY <1>2, SubsetSize
  <2> QED
    BY <2>1, <1>1
<1>3. h = FoldStep(h, f, S, n + 1)
  <2> HIDE DEF h
  <2>1. \A s \in SUBSET S : (IF s = {} \/ Cardinality(s) > n + 1 THEN 0 ELSE f[Pick(s)] + g[s \ {Pick(s)}])
           = IF s = {} \/ Cardinality(s) > n + 1 THEN 0 ELSE f[Pick(s)] + h[s \ {Pick(s)}]
    BY <1>2
  <2>2. FoldStep(g, f, S, n + 1) = FoldStep(h, f, S, n + 1)
    BY <2>1 DEF FoldStep
  <2> QED
    BY <2>2 DEF h
<1> QED
  BY <1>3 DEF IsFoldTo

(* So there is one for every size. *)
LEMMA FoldToExists ==
  ASSUME NEW f, NEW S, IsFiniteSet(S), NEW n \in Nat
  PROVE  \E g : IsFoldTo(g, f, S, n)
<1> DEFINE T == {m \in Nat : ~\E g : IsFoldTo(g, f, S, m)}
<1> SUFFICES ASSUME T # {} PROVE FALSE
  OBVIOUS
<1>1. PICK m \in T : \A k \in T : m <= k
  BY LeastNat
<1>2. m # 0
  <2> DEFINE g == [s \in SUBSET S |-> 0]
  <2>1. ASSUME NEW s \in SUBSET S PROVE s = {} \/ Cardinality(s) > 0
    <3>1. Cardinality(s) \in Nat /\ (Cardinality(s) = 0 <=> s = {})
      BY SubsetSize
    <3> QED
      BY <3>1
  <2>2. FoldStep(g, f, S, 0) = g
    BY <2>1 DEF FoldStep
  <2> QED
    BY <2>2 DEF IsFoldTo
<1>3. m - 1 \in Nat /\ m - 1 \notin T
  BY <1>1, <1>2
<1>4. PICK g : IsFoldTo(g, f, S, m - 1)
  BY <1>3
<1>5. \E h : IsFoldTo(h, f, S, (m - 1) + 1)
  BY <1>3, <1>4, FoldExtends
<1> QED
  BY <1>5

(* And hence one for the whole of a finite set: the recursion has a solution. *)
LEMMA FoldExists ==
  ASSUME NEW f, NEW S, IsFiniteSet(S)
  PROVE  \E g : IsFold(g, f, S)
<1>1. PICK g : IsFoldTo(g, f, S, Cardinality(S))
  BY FoldToExists, FS_CardinalityType
<1>2. ASSUME NEW s \in SUBSET S PROVE ~(Cardinality(s) > Cardinality(S))
  <2>1. /\ Cardinality(s) \in Nat /\ Cardinality(S) \in Nat
        /\ Cardinality(s) <= Cardinality(S)
    BY SubsetSize, FS_CardinalityType
  <2> QED
    BY <2>1
<1>3. FoldStep(g, f, S, Cardinality(S)) =
        [s \in SUBSET S |-> IF s = {} THEN 0 ELSE f[Pick(s)] + g[s \ {Pick(s)}]]
  BY <1>2 DEF FoldStep
<1> QED
  BY <1>1, <1>3 DEF IsFoldTo, IsFold

(* Two folds that agree on the arguments of S agree on S. *)
LEMMA FoldsAgree ==
  ASSUME NEW f, NEW g, NEW A, NEW k, NEW h, NEW B,
         IsFold(g, f, A), IsFold(h, k, B),
         NEW S, IsFiniteSet(S), S \subseteq A, S \subseteq B,
         \A x \in S : f[x] = k[x]
  PROVE  g[S] = h[S]
<1> DEFINE Bad == {n \in Nat : \E s \in SUBSET S : Cardinality(s) = n /\ g[s] # h[s]}
<1>1. ASSUME Bad # {} PROVE FALSE
  <2>1. PICK n \in Bad : \A m \in Bad : n <= m
    BY <1>1, LeastNat
  <2>2. PICK s \in SUBSET S : Cardinality(s) = n /\ g[s] # h[s]
    BY <2>1
  <2>3. g[s] = (IF s = {} THEN 0 ELSE f[Pick(s)] + g[s \ {Pick(s)}])
    BY DEF IsFold
  <2>4. h[s] = (IF s = {} THEN 0 ELSE k[Pick(s)] + h[s \ {Pick(s)}])
    BY DEF IsFold
  <2>5. s # {}
    BY <2>2, <2>3, <2>4
  <2>6. Pick(s) \in S
    BY <2>5, PickIsAnElement
  <2>7. /\ s \ {Pick(s)} \in SUBSET S
        /\ Cardinality(s \ {Pick(s)}) = n - 1 /\ n \in Nat /\ n - 1 \in Nat
    BY <2>5, <2>2, SubsetSize
  <2>8. g[s \ {Pick(s)}] = h[s \ {Pick(s)}]
    BY <2>7, <2>1
  <2> QED
    BY <2>2, <2>3, <2>4, <2>5, <2>6, <2>8
<1>2. Cardinality(S) \notin Bad
  BY <1>1
<1> QED
  BY <1>2, SubsetSize

----------------------------------------------------------------------------
(* Sums.                                                                   *)

(* The sum of a set is that of its picked element and of the others. *)
LEMMA SumUnfolds ==
  ASSUME NEW f, NEW S, IsFiniteSet(S)
  PROVE  SumOver(f, S) = IF S = {} THEN 0 ELSE f[Pick(S)] + SumOver(f, S \ {Pick(S)})
<1> DEFINE g == CHOOSE g : IsFold(g, f, S)
           R == S \ {Pick(S)}
           h == CHOOSE h : IsFold(h, f, R)
<1>1. IsFold(g, f, S)
  BY FoldExists
<1>2. IsFiniteSet(R) /\ R \subseteq S
  BY FS_Subset
<1>3. IsFold(h, f, R)
  BY <1>2, FoldExists
<1>4. SumOver(f, S) = g[S] /\ SumOver(f, R) = h[R]
  BY Unfold
<1> HIDE DEF g, h
<1>5. g[S] = IF S = {} THEN 0 ELSE f[Pick(S)] + g[R]
  BY <1>1 DEF IsFold
<1>6. g[R] = h[R]
  BY <1>1, <1>2, <1>3, FoldsAgree
<1> QED
  BY <1>4, <1>5, <1>6

(* Nothing sums to nothing. *)
LEMMA SumOfNothing ==
  ASSUME NEW f
  PROVE  SumOver(f, {}) = 0
BY SumUnfolds, FS_EmptySet

(* Only the values on the set count. *)
LEMMA SumsAgree ==
  ASSUME NEW f, NEW g, NEW S, IsFiniteSet(S), \A x \in S : f[x] = g[x]
  PROVE  SumOver(f, S) = SumOver(g, S)
<1> DEFINE a == CHOOSE a : IsFold(a, f, S)
           b == CHOOSE b : IsFold(b, g, S)
<1>1. IsFold(a, f, S) /\ IsFold(b, g, S)
  BY FoldExists
<1>2. SumOver(f, S) = a[S] /\ SumOver(g, S) = b[S]
  BY Unfold
<1> HIDE DEF a, b
<1> QED
  BY <1>1, <1>2, FoldsAgree

(* A smallest counterexample among the subsets of S. *)
LEMMA SmallestSubset ==
  ASSUME NEW S, IsFiniteSet(S), NEW Bad, Bad \subseteq SUBSET S, Bad # {}
  PROVE  \E s \in Bad : \A t \in SUBSET S : Cardinality(t) < Cardinality(s) => t \notin Bad
<1> DEFINE Sizes == {Cardinality(s) : s \in Bad}
<1>1. Sizes \subseteq Nat /\ Sizes # {}
  <2>1. ASSUME NEW s \in Bad PROVE Cardinality(s) \in Nat
    BY SubsetSize
  <2> QED
    BY <2>1
<1>2. PICK n \in Sizes : \A m \in Sizes : n <= m
  BY <1>1, LeastNat
<1>3. PICK s \in Bad : Cardinality(s) = n
  BY <1>2
<1>4. ASSUME NEW t \in Bad PROVE ~(Cardinality(t) < Cardinality(s))
  <2>1. n <= Cardinality(t) /\ n \in Nat /\ Cardinality(t) \in Nat
    BY <1>1, <1>2
  <2> QED
    BY <2>1, <1>3
<1> QED
  BY <1>3, <1>4

(* A sum of naturals is a natural. *)
LEMMA SumIsNat ==
  ASSUME NEW f, NEW S, IsFiniteSet(S), \A x \in S : f[x] \in Nat
  PROVE  SumOver(f, S) \in Nat
<1> DEFINE Bad == {s \in SUBSET S : SumOver(f, s) \notin Nat}
<1>1. ASSUME Bad # {} PROVE FALSE
  <2>1. PICK s \in Bad : \A t \in SUBSET S : Cardinality(t) < Cardinality(s) => t \notin Bad
    BY <1>1, SmallestSubset
  <2> DEFINE r == s \ {Pick(s)}
  <2>2. IsFiniteSet(s) /\ s \in SUBSET S /\ SumOver(f, s) \notin Nat
    BY <2>1, FS_Subset
  <2>3. SumOver(f, s) = IF s = {} THEN 0 ELSE f[Pick(s)] + SumOver(f, r)
    BY <2>2, SumUnfolds
  <2>4. s # {}
    BY <2>2, <2>3
  <2>5. r \in SUBSET S /\ Cardinality(r) < Cardinality(s)
    <3>1. Cardinality(s) \in Nat /\ r \in SUBSET S /\ Cardinality(r) = Cardinality(s) - 1
      BY <2>2, <2>4, SubsetSize
    <3> QED
      BY <3>1
  <2>6. SumOver(f, r) \in Nat /\ f[Pick(s)] \in Nat
    BY <2>1, <2>2, <2>4, <2>5, PickIsAnElement
  <2> QED
    BY <2>2, <2>3, <2>4, <2>6
<1> QED
  BY <1>1

(* Any element can be taken out first. *)
THEOREM SumTakesOut ==
  ASSUME NEW f, NEW S, IsFiniteSet(S), \A x \in S : f[x] \in Nat, NEW e \in S
  PROVE  SumOver(f, S) = f[e] + SumOver(f, S \ {e})
<1> DEFINE Bad == {s \in SUBSET S : \E x \in s : SumOver(f, s) # f[x] + SumOver(f, s \ {x})}
<1>1. ASSUME Bad # {} PROVE FALSE
  <2>1. PICK s \in Bad : \A t \in SUBSET S : Cardinality(t) < Cardinality(s) => t \notin Bad
    BY <1>1, SmallestSubset
  <2>2. PICK x \in s : SumOver(f, s) # f[x] + SumOver(f, s \ {x})
    BY <2>1
  <2> DEFINE c == Pick(s)
             r == s \ {c}
             q == s \ {x}
             o == r \ {x}
  <2>3. IsFiniteSet(s) /\ s \in SUBSET S /\ s # {}
    BY <2>1, <2>2, FS_Subset
  <2>4. c \in s /\ SumOver(f, s) = f[c] + SumOver(f, r)
    BY <2>3, SumUnfolds, PickIsAnElement
  <2>5. c # x
    BY <2>2, <2>4
  <2>6. r \in SUBSET S /\ q \in SUBSET S /\ x \in r /\ c \in q /\ q \ {c} = o
    BY <2>2, <2>3, <2>4, <2>5
  <2>7. Cardinality(r) < Cardinality(s) /\ Cardinality(q) < Cardinality(s)
    <3>1. /\ Cardinality(s) \in Nat
          /\ Cardinality(r) = Cardinality(s) - 1 /\ Cardinality(q) = Cardinality(s) - 1
      BY <2>3, <2>4, <2>2, FS_RemoveElement, FS_CardinalityType
    <3> QED
      BY <3>1
  <2>8. SumOver(f, r) = f[x] + SumOver(f, o)
    BY <2>1, <2>6, <2>7
  <2>9. SumOver(f, q) = f[c] + SumOver(f, o)
    BY <2>1, <2>6, <2>7
  <2>10. f[x] \in Nat /\ f[c] \in Nat
    BY <2>2, <2>3, <2>4
  <2>11. SumOver(f, o) \in Nat
    <3>1. IsFiniteSet(o) /\ o \subseteq S
      BY <2>3, FS_Subset
    <3> QED
      BY <3>1, SumIsNat
  <2> HIDE DEF c, r, q, o
  <2>12. SumOver(f, s) = f[x] + SumOver(f, q)
    BY <2>4, <2>8, <2>9, <2>10, <2>11
  <2> QED
    BY <2>2, <2>12 DEF q
<1> QED
  BY <1>1

(* One more element adds its value. *)
LEMMA SumAdds ==
  ASSUME NEW f, NEW g, NEW S, IsFiniteSet(S), NEW e, e \notin S,
         \A x \in S : f[x] = g[x] /\ g[x] \in Nat, g[e] \in Nat
  PROVE  /\ SumOver(g, S \cup {e}) = SumOver(f, S) + g[e]
         /\ SumOver(f, S) \in Nat
<1>1. IsFiniteSet(S \cup {e}) /\ (S \cup {e}) \ {e} = S
  BY FS_AddElement
<1>2. SumOver(g, S \cup {e}) = g[e] + SumOver(g, (S \cup {e}) \ {e})
  BY <1>1, SumTakesOut
<1>3. SumOver(g, S) = SumOver(f, S)
  BY SumsAgree
<1>4. SumOver(g, S) \in Nat
  BY SumIsNat
<1>5. SumOver(g, S \cup {e}) = g[e] + SumOver(f, S)
  BY <1>1, <1>2, <1>3
<1>6. g[e] \in Nat /\ SumOver(f, S) \in Nat
  BY <1>3, <1>4
<1> QED
  BY <1>5, <1>6

(* More elements never sum to less. *)
LEMMA SumsGrow ==
  ASSUME NEW f, NEW g, NEW T, IsFiniteSet(T), NEW S, S \subseteq T,
         \A x \in T : g[x] \in Nat, \A x \in S : f[x] = g[x]
  PROVE  SumOver(f, S) <= SumOver(g, T)
<1>0. IsFiniteSet(S)
  BY FS_Subset
<1> DEFINE Bad == {t \in SUBSET T : S \subseteq t /\ ~(SumOver(g, S) <= SumOver(g, t))}
<1>1. ASSUME Bad # {} PROVE FALSE
  <2>1. PICK t \in Bad : \A u \in SUBSET T : Cardinality(u) < Cardinality(t) => u \notin Bad
    BY <1>1, SmallestSubset
  <2>2. IsFiniteSet(t) /\ t \in SUBSET T /\ S \subseteq t
    BY <2>1, FS_Subset
  <2>3. SumOver(g, S) \in Nat
    BY <1>0, SumIsNat
  <2>4. PICK x \in t : x \notin S
    BY <2>1, <2>2, <2>3
  <2> DEFINE u == t \ {x}
  <2>5. u \in SUBSET T /\ S \subseteq u /\ IsFiniteSet(u)
    BY <2>2, <2>4, FS_Subset
  <2>6. Cardinality(u) < Cardinality(t)
    <3>1. Cardinality(t) \in Nat /\ Cardinality(u) = Cardinality(t) - 1
      BY <2>2, <2>4, FS_RemoveElement, FS_CardinalityType
    <3> QED
      BY <3>1
  <2>7. SumOver(g, S) <= SumOver(g, u)
    BY <2>1, <2>5, <2>6
  <2>8. SumOver(g, t) = g[x] + SumOver(g, u)
    BY <2>2, <2>4, SumTakesOut
  <2>9. SumOver(g, u) \in Nat /\ g[x] \in Nat
    BY <2>2, <2>4, <2>5, SumIsNat
  <2>10. SumOver(g, S) <= SumOver(g, t)
    <3> HIDE DEF u
    <3> QED
      BY <2>3, <2>7, <2>8, <2>9
  <2> QED
    BY <2>1, <2>10
<1>2. SumOver(g, S) <= SumOver(g, T)
  BY <1>1
<1>3. SumOver(f, S) = SumOver(g, S)
  BY <1>0, SumsAgree
<1> QED
  BY <1>2, <1>3
Renamed(h, T) == {h[x] : x \in T}

(* A sum over renamed arguments is the same sum. *)
LEMMA SumRenamed ==
  ASSUME NEW f, NEW T, IsFiniteSet(T), NEW g, NEW h,
         \A x \in T : g[h[x]] = f[x] /\ f[x] \in Nat,
         \A x, y \in T : h[x] = h[y] => x = y
  PROVE  SumOver(g, Renamed(h, T)) = SumOver(f, T)
<1> DEFINE Image(s) == Renamed(h, s)
           Bad == {s \in SUBSET T : SumOver(g, Image(s)) # SumOver(f, s)}
<1>1. ASSUME Bad # {} PROVE FALSE
  <2>1. PICK s \in Bad : \A t \in SUBSET T : Cardinality(t) < Cardinality(s) => t \notin Bad
    BY <1>1, SmallestSubset
  <2>2. IsFiniteSet(s) /\ s \in SUBSET T /\ SumOver(g, Image(s)) # SumOver(f, s)
    BY <2>1, FS_Subset
  <2>3. s # {}
    <3>1. s = {} => Image(s) = {}
      BY DEF Renamed
    <3> HIDE DEF Image
    <3> QED
      BY <3>1, <2>2, SumOfNothing
  <2>4. PICK e : e \in s
    BY <2>3
  <2> DEFINE r == s \ {e}
  <2>5. r \in SUBSET T /\ IsFiniteSet(r) /\ e \notin r /\ s = r \cup {e}
    BY <2>2, <2>4, FS_Subset
  <2>6. Cardinality(r) < Cardinality(s)
    <3>1. Cardinality(s) \in Nat /\ Cardinality(r) = Cardinality(s) - 1
      BY <2>2, <2>4, FS_RemoveElement, FS_CardinalityType
    <3> QED
      BY <3>1
  <2>7. SumOver(g, Image(r)) = SumOver(f, r)
    BY <2>1, <2>5, <2>6
  <2>8. Image(s) = Image(r) \cup {h[e]} /\ h[e] \notin Image(r)
    BY <2>2, <2>4, <2>5 DEF Renamed
  <2>9. IsFiniteSet(Image(r))
    <3>1. [x \in r |-> h[x]] \in Surjection(r, Image(r))
      BY DEF Surjection, Renamed
    <3> HIDE DEF Image
    <3> QED
      BY <2>5, <3>1, FS_Surjection
  <2>10. \A z \in Image(r) : g[z] \in Nat
    BY <2>5 DEF Renamed
  <2>11. g[h[e]] = f[e] /\ f[e] \in Nat /\ \A x \in r : f[x] \in Nat
    BY <2>2, <2>4, <2>5
  <2> HIDE DEF r, Image
  <2>12. SumOver(g, Image(s)) = SumOver(g, Image(r)) + g[h[e]]
    BY <2>8, <2>9, <2>10, <2>11, SumAdds
  <2>13. SumOver(f, s) = SumOver(f, r) + f[e]
    BY <2>5, <2>11, SumAdds
  <2> QED
    BY <2>2, <2>7, <2>11, <2>12, <2>13
<1>2. T \notin Bad
  BY <1>1
<1> QED
  BY <1>2

(* A sum over two disjoint sets is the sum of both. *)
LEMMA SumOfTwo ==
  ASSUME NEW f, NEW S, IsFiniteSet(S), NEW T, IsFiniteSet(T), S \cap T = {},
         \A x \in S \cup T : f[x] \in Nat
  PROVE  SumOver(f, S \cup T) = SumOver(f, S) + SumOver(f, T)
<1> DEFINE Bad == {t \in SUBSET T : SumOver(f, S \cup t) # SumOver(f, S) + SumOver(f, t)}
<1>1. ASSUME Bad # {} PROVE FALSE
  <2>1. PICK t \in Bad : \A u \in SUBSET T : Cardinality(u) < Cardinality(t) => u \notin Bad
    <3>1. Bad \subseteq SUBSET T
      OBVIOUS
    <3> HIDE DEF Bad
    <3> QED
      BY <1>1, <3>1, SmallestSubset
  <2>2. IsFiniteSet(t) /\ t \in SUBSET T
    BY <2>1, FS_Subset
  <2>3. SumOver(f, S) \in Nat /\ SumOver(f, t) \in Nat
    BY <2>2, SumIsNat
  <2>4. ASSUME t = {} PROVE FALSE
    <3>1. SumOver(f, t) = 0 /\ S \cup t = S
      BY <2>4, SumOfNothing
    <3>2. SumOver(f, S \cup t) # SumOver(f, S) + SumOver(f, t)
      BY <2>1
    <3>3. SumOver(f, S) # SumOver(f, S) + SumOver(f, t)
      BY <3>1, <3>2
    <3> QED
      BY <3>1, <3>3, <2>3
  <2>5. PICK e : e \in t
    BY <2>4
  <2> DEFINE u == t \ {e}
             w == S \cup u
  <2>6. /\ u \in SUBSET T /\ IsFiniteSet(u) /\ e \notin u /\ t = u \cup {e}
        /\ e \notin w /\ S \cup t = w \cup {e} /\ IsFiniteSet(w)
        /\ f[e] \in Nat /\ \A x \in w : f[x] \in Nat
    BY <2>2, <2>5, FS_Subset, FS_Union
  <2>7. Cardinality(u) < Cardinality(t)
    <3>1. Cardinality(t) \in Nat /\ Cardinality(u) = Cardinality(t) - 1
      BY <2>2, <2>5, FS_RemoveElement, FS_CardinalityType
    <3> QED
      BY <3>1
  <2>8. SumOver(f, w) = SumOver(f, S) + SumOver(f, u)
    BY <2>1, <2>6, <2>7
  <2> HIDE DEF u, w
  <2>9. SumOver(f, S \cup t) = SumOver(f, w) + f[e]
    BY <2>6, SumAdds
  <2>10. SumOver(f, t) = SumOver(f, u) + f[e] /\ SumOver(f, u) \in Nat
    <3>1. \A x \in u : f[x] \in Nat
      BY <2>6 DEF w
    <3> QED
      BY <3>1, <2>6, SumAdds
  <2>11. SumOver(f, S \cup t) = SumOver(f, S) + SumOver(f, t)
    BY <2>3, <2>6, <2>8, <2>9, <2>10
  <2> QED
    BY <2>1, <2>11
<1>2. T \notin Bad
  BY <1>1
<1> QED
  BY <1>2
(* The arguments of B, moved past m. *)
Past(m, B) == {m + k : k \in B}

(* Shifting the arguments past m leaves a sum alone. *)
LEMMA SumShifted ==
  ASSUME NEW m \in Nat, NEW B, IsFiniteSet(B), B \subseteq Nat,
         NEW g, NEW h, \A k \in B : h[m + k] = g[k] /\ g[k] \in Nat
  PROVE  SumOver(h, Past(m, B)) = SumOver(g, B)
<1> DEFINE up == [k \in B |-> m + k]
<1>1. \A k \in B : h[up[k]] = g[k] /\ g[k] \in Nat
  OBVIOUS
<1>2. \A j, k \in B : up[j] = up[k] => j = k
  <2>1. ASSUME NEW j \in B, NEW k \in B, up[j] = up[k] PROVE j = k
    <3>1. j \in Nat /\ k \in Nat /\ m + j = m + k
      BY <2>1
    <3> QED
      BY <3>1
  <2> QED
    BY <2>1
<1>3. Past(m, B) = Renamed(up, B)
  BY DEF Past, Renamed
<1> HIDE DEF up
<1>4. SumOver(h, Renamed(up, B)) = SumOver(g, B)
  BY ONLY IsFiniteSet(B), <1>1, <1>2, SumRenamed
<1> QED
  BY <1>3, <1>4

=============================================================================

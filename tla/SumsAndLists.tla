---------------------------- MODULE SumsAndLists ----------------------------
(***************************************************************************)
(* What the proofs keep needing of finite sums, MapThenSumSet of           *)
(* FiniteSetsExt, and of lists: a sum changes by what is added to its set, *)
(* and by nothing else; a filter leaves a part of a list, in its order, of *)
(* all the members that are asked for.                                     *)
(*                                                                         *)
(* Induction takes the form of a least counterexample: a nonempty set of   *)
(* subsets of a finite set has a member that contains no other.  Recursion *)
(* over 0..n follows from it: the numbers up to which a function with the  *)
(* steps asked for exists are all of 0..n.                                 *)
(***************************************************************************)
EXTENDS Lists, FiniteSetTheorems, TLAPS

SumOf(f, S) == MapThenSumSet(LAMBDA x : f[x], S)

----------------------------------------------------------------------------
(* Least counterexamples.                                                  *)

LEMMA LeastSet ==
  ASSUME NEW F, IsFiniteSet(F), NEW B \in SUBSET (SUBSET F), B # {}
  PROVE  \E s \in B : \A r \in B : ~(r \subseteq s /\ r # s)
  <1>1. IsWellFoundedOn(StrictSubsetOrdering(F), SUBSET F)
    BY FS_StrictSubsetOrderingWellFounded, FS_FiniteSubsetsOfFinite, Zenon
  <1>2. PICK s \in B : \A r \in B : ~(<<r, s>> \in StrictSubsetOrdering(F))
    BY <1>1, WFMin, Zenon
  <1>3. ASSUME NEW r \in B, r \subseteq s, r # s
        PROVE  FALSE
    <2>1. <<r, s>> \in StrictSubsetOrdering(F)
      BY <1>3 DEF StrictSubsetOrdering
    <2> QED
      BY <1>2, <2>1, Zenon
  <1> QED
    BY <1>3, Zenon

----------------------------------------------------------------------------
(* The recursive function MapThenSumSet chooses exists, and is the only    *)
(* one: what it gives for a set depends on that set alone.                 *)

Pick(s) == CHOOSE x \in s : TRUE
Folds(g, f, S) ==
  g = [s \in SUBSET S |-> IF s = {} THEN 0 ELSE f[Pick(s)] + g[s \ {Pick(s)}]]
Fold(f, S) == CHOOSE g : Folds(g, f, S)

LEMMA PickMember ==
  ASSUME NEW s, s # {}
  PROVE  Pick(s) \in s
  BY DEF Pick

LEMMA FoldsStep ==
  ASSUME NEW f, NEW g, NEW S, Folds(g, f, S), NEW s \in SUBSET S
  PROVE  /\ s = {} => g[s] = 0
         /\ s # {} => g[s] = f[Pick(s)] + g[s \ {Pick(s)}]
  <1> DEFINE H == [r \in SUBSET S |-> IF r = {} THEN 0 ELSE f[Pick(r)] + g[r \ {Pick(r)}]]
  <1>1. g = H
    BY DEF Folds
  <1>2. H[s] = IF s = {} THEN 0 ELSE f[Pick(s)] + g[s \ {Pick(s)}]
    OBVIOUS
  <1> QED
    BY <1>1, <1>2

LEMMA FoldsAgree ==
  ASSUME NEW f, NEW S, IsFiniteSet(S), NEW T \in SUBSET S,
         NEW g, Folds(g, f, S), NEW h, Folds(h, f, T),
         NEW r \in SUBSET T
  PROVE  g[r] = h[r]
  <1> DEFINE B == {s \in SUBSET T : g[s] # h[s]}
  <1>1. SUFFICES ASSUME B # {} PROVE FALSE
    OBVIOUS
  <1>2. B \in SUBSET (SUBSET S)
    OBVIOUS
  <1>3. PICK s \in B : \A q \in B : ~(q \subseteq s /\ q # s)
    <2> HIDE DEF B
    <2> QED BY <1>1, <1>2, LeastSet
  <1>4. s \in SUBSET S /\ s \in SUBSET T /\ g[s] # h[s]
    OBVIOUS
  <1>5. s # {}
    BY <1>4, FoldsStep
  <1>6. /\ s \ {Pick(s)} \in SUBSET T
        /\ s \ {Pick(s)} \subseteq s
        /\ s \ {Pick(s)} # s
    BY <1>4, <1>5, PickMember
  <1>7. g[s \ {Pick(s)}] = h[s \ {Pick(s)}]
    BY <1>3, <1>6
  <1>8. g[s] = f[Pick(s)] + g[s \ {Pick(s)}]
    <2> HIDE DEF B
    <2>1. s \in SUBSET S
      BY <1>4
    <2>2. \A q \in SUBSET S : q # {} => g[q] = f[Pick(q)] + g[q \ {Pick(q)}]
      BY FoldsStep
    <2> QED BY <1>5, <2>1, <2>2, Zenon
  <1>9. h[s] = f[Pick(s)] + h[s \ {Pick(s)}]
    BY <1>4, <1>5, FoldsStep
  <1> QED
    BY <1>4, <1>7, <1>8, <1>9

LEMMA FoldsExist ==
  ASSUME NEW f, NEW S, IsFiniteSet(S)
  PROVE  Folds(Fold(f, S), f, S)
  <1> DEFINE B == {s \in SUBSET S : ~Folds(Fold(f, s), f, s)}
  <1>1. SUFFICES ASSUME B # {} PROVE FALSE
    OBVIOUS
  <1>2. PICK s \in B : \A q \in B : ~(q \subseteq s /\ q # s)
    <2>1. B \in SUBSET (SUBSET S)
      OBVIOUS
    <2> HIDE DEF B
    <2> QED BY <1>1, <2>1, LeastSet
  <1>3. s \in SUBSET S /\ ~Folds(Fold(f, s), f, s)
    OBVIOUS
  <1>4. \A r \in SUBSET s : r # s => Folds(Fold(f, r), f, r) /\ IsFiniteSet(r)
    BY <1>2, <1>3, FS_Subset
  <1> DEFINE less(r) == r \ {Pick(r)}
  <1> DEFINE h == [r \in SUBSET s |-> IF r = {} THEN 0
                                      ELSE f[Pick(r)] + Fold(f, less(r))[less(r)]]
  <1> HIDE DEF B
  <1>5. ASSUME NEW r \in SUBSET s, r # {}
        PROVE  /\ less(r) \in SUBSET s /\ less(r) \in SUBSET r
               /\ less(r) # s
               /\ Pick(r) \in r /\ Pick(r) \notin less(r)
    BY <1>5, PickMember
  <1>6. ASSUME NEW r \in SUBSET s, r # s
        PROVE  Fold(f, r)[r] = h[r]
    <2>1. Folds(Fold(f, r), f, r) /\ IsFiniteSet(r)
      BY <1>4, <1>6
    <2>2. CASE r = {}
      <3>1. Fold(f, r)[r] = 0
        BY <2>1, <2>2, FoldsStep
      <3>2. h[r] = 0
        BY <2>2
      <3> QED BY <3>1, <3>2
    <2>3. CASE r # {}
      <3>1. Fold(f, r)[r] = f[Pick(r)] + Fold(f, r)[less(r)]
        BY <2>1, <2>3, FoldsStep
      <3>2. Folds(Fold(f, less(r)), f, less(r))
        BY <1>4, <1>5, <2>3
      <3>3. less(r) \in SUBSET r /\ less(r) \in SUBSET less(r)
        BY <1>5, <2>3
      <3>4. Fold(f, r)[less(r)] = Fold(f, less(r))[less(r)]
        <4> HIDE DEF less, h
        <4> QED BY <2>1, <3>2, <3>3, FoldsAgree
      <3>5. h[r] = f[Pick(r)] + Fold(f, less(r))[less(r)]
        BY <2>3
      <3> QED BY <3>1, <3>4, <3>5
    <2> QED BY <2>2, <2>3
  <1>7. ASSUME NEW r \in SUBSET s
        PROVE  h[r] = IF r = {} THEN 0 ELSE f[Pick(r)] + h[less(r)]
    <2>1. CASE r = {}
      BY <2>1
    <2>2. CASE r # {}
      <3>1. h[less(r)] = Fold(f, less(r))[less(r)]
        <4> HIDE DEF less, h
        <4> QED BY <1>5, <1>6, <2>2
      <3>2. h[r] = f[Pick(r)] + Fold(f, less(r))[less(r)]
        BY <2>2
      <3> QED BY <3>1, <3>2, <2>2
    <2> QED BY <2>1, <2>2
  <1>8. Folds(h, f, s)
    <2>1. h = [r \in SUBSET s |-> h[r]]
      OBVIOUS
    <2>2. [r \in SUBSET s |-> h[r]]
            = [r \in SUBSET s |-> IF r = {} THEN 0 ELSE f[Pick(r)] + h[less(r)]]
      <3> HIDE DEF h, less
      <3> QED BY <1>7
    <2>3. h = [r \in SUBSET s |-> IF r = {} THEN 0 ELSE f[Pick(r)] + h[less(r)]]
      <3> HIDE DEF h, less
      <3> QED BY <2>1, <2>2
    <2> HIDE DEF h
    <2> QED BY <2>3 DEF Folds
  <1>9. Folds(Fold(f, s), f, s)
    <2> HIDE DEF h
    <2> QED BY <1>8, Zenon DEF Fold
  <1> QED
    BY <1>3, <1>9

----------------------------------------------------------------------------
(* A sum is taken member by member, in the order of the choice.            *)

LEMMA SumIsFold ==
  ASSUME NEW f, NEW S
  PROVE  SumOf(f, S) = Fold(f, S)[S]
  BY DEF SumOf, Fold, Folds, Pick, MapThenSumSet, MapThenFoldSet

LEMMA SumEmpty ==
  ASSUME NEW f
  PROVE  SumOf(f, {}) = 0
  <1>1. IsFiniteSet({})
    BY FS_EmptySet
  <1>2. Folds(Fold(f, {}), f, {})
    BY <1>1, FoldsExist
  <1>3. Fold(f, {})[{}] = 0
    BY <1>2, FoldsStep
  <1> QED
    BY <1>3, SumIsFold

LEMMA SumPick ==
  ASSUME NEW f, NEW S, IsFiniteSet(S), S # {}
  PROVE  SumOf(f, S) = f[Pick(S)] + SumOf(f, S \ {Pick(S)})
  <1> DEFINE T == S \ {Pick(S)}
  <1>1. IsFiniteSet(T) /\ T \in SUBSET S /\ T \in SUBSET T
    BY FS_Subset
  <1>2. Folds(Fold(f, S), f, S) /\ Folds(Fold(f, T), f, T)
    BY <1>1, FoldsExist
  <1>3. Fold(f, S)[S] = f[Pick(S)] + Fold(f, S)[T]
    BY <1>2, FoldsStep
  <1>4. Fold(f, S)[T] = Fold(f, T)[T]
    <2> HIDE DEF T
    <2> QED BY <1>1, <1>2, FoldsAgree
  <1> QED
    BY <1>3, <1>4, SumIsFold

LEMMA SumType ==
  ASSUME NEW f, NEW S, IsFiniteSet(S), \A x \in S : f[x] \in Int
  PROVE  SumOf(f, S) \in Int
  <1> DEFINE B == {s \in SUBSET S : SumOf(f, s) \notin Int}
  <1>1. SUFFICES ASSUME B # {} PROVE FALSE
    OBVIOUS
  <1>2. PICK s \in B : \A q \in B : ~(q \subseteq s /\ q # s)
    <2>1. B \in SUBSET (SUBSET S)
      OBVIOUS
    <2> HIDE DEF B
    <2> QED BY <1>1, <2>1, LeastSet
  <1>3. s \in SUBSET S /\ SumOf(f, s) \notin Int /\ IsFiniteSet(s)
    BY FS_Subset
  <1>4. s # {}
    BY <1>3, SumEmpty
  <1> DEFINE r == s \ {Pick(s)}
  <1>5. r \in SUBSET S /\ r \subseteq s /\ r # s /\ Pick(s) \in S
    BY <1>3, <1>4, PickMember
  <1>6. SumOf(f, r) \in Int
    <2> HIDE DEF r
    <2> QED BY <1>2, <1>5
  <1>7. SumOf(f, s) = f[Pick(s)] + SumOf(f, r)
    BY <1>3, <1>4, SumPick
  <1> HIDE DEF r, B
  <1> QED
    BY <1>3, <1>5, <1>6, <1>7

\* The order does not matter: any member can be taken first.
LEMMA SumRemove ==
  ASSUME NEW f, NEW S, IsFiniteSet(S), \A x \in S : f[x] \in Int, NEW x \in S
  PROVE  SumOf(f, S) = f[x] + SumOf(f, S \ {x})
  <1> DEFINE B == {s \in SUBSET S : \E y \in s : SumOf(f, s) # f[y] + SumOf(f, s \ {y})}
  <1>1. SUFFICES ASSUME B # {} PROVE FALSE
    OBVIOUS
  <1>2. PICK s \in B : \A q \in B : ~(q \subseteq s /\ q # s)
    <2>1. B \in SUBSET (SUBSET S)
      OBVIOUS
    <2> HIDE DEF B
    <2> QED BY <1>1, <2>1, LeastSet
  <1>3. s \in SUBSET S /\ IsFiniteSet(s)
    BY FS_Subset
  <1>4. PICK y \in s : SumOf(f, s) # f[y] + SumOf(f, s \ {y})
    OBVIOUS
  <1>5. \A q \in SUBSET s : q # s =>
          \A z \in q : SumOf(f, q) = f[z] + SumOf(f, q \ {z})
    BY <1>2, <1>3
  <1>6. \A q \in SUBSET s : IsFiniteSet(q) /\ SumOf(f, q) \in Int
    BY <1>3, FS_Subset, SumType
  <1> HIDE DEF B
  <1> DEFINE p == Pick(s)
  <1>7. p \in s /\ p \in S /\ y \in S
    BY <1>3, <1>4, PickMember
  <1>8. SumOf(f, s) = f[p] + SumOf(f, s \ {p})
    BY <1>3, <1>4, SumPick
  <1> HIDE DEF p
  <1>9. p # y
    BY <1>4, <1>8
  <1>10. SumOf(f, s \ {p}) = f[y] + SumOf(f, (s \ {p}) \ {y})
    <2>1. s \ {p} \in SUBSET s /\ s \ {p} # s /\ y \in s \ {p}
      BY <1>4, <1>7, <1>9
    <2> QED BY <1>5, <2>1
  <1>11. SumOf(f, s \ {y}) = f[p] + SumOf(f, (s \ {y}) \ {p})
    <2>1. s \ {y} \in SUBSET s /\ s \ {y} # s /\ p \in s \ {y}
      BY <1>4, <1>7, <1>9
    <2> QED BY <1>5, <2>1
  <1>12. (s \ {p}) \ {y} = (s \ {y}) \ {p}
    OBVIOUS
  <1>13. SumOf(f, (s \ {p}) \ {y}) \in Int
    <2>1. (s \ {p}) \ {y} \in SUBSET s
      OBVIOUS
    <2> QED BY <1>6, <2>1
  <1>14. f[p] \in Int /\ f[y] \in Int
    BY <1>7
  <1>15. SumOf(f, s) = f[p] + (f[y] + SumOf(f, (s \ {p}) \ {y}))
    BY <1>8, <1>10
  <1>16. SumOf(f, s \ {y}) = f[p] + SumOf(f, (s \ {p}) \ {y})
    BY <1>11, <1>12
  <1>17. SumOf(f, s) = f[y] + SumOf(f, s \ {y})
    BY <1>13, <1>14, <1>15, <1>16
  <1> QED
    BY <1>4, <1>17

LEMMA SumAdd ==
  ASSUME NEW f, NEW S, IsFiniteSet(S), \A y \in S : f[y] \in Int,
         NEW x, x \notin S, f[x] \in Int
  PROVE  /\ IsFiniteSet(S \cup {x})
         /\ SumOf(f, S \cup {x}) = f[x] + SumOf(f, S)
  <1> DEFINE T == S \cup {x}
  <1>1. IsFiniteSet(T)
    BY FS_AddElement
  <1>2. x \in T /\ T \ {x} = S /\ \A y \in T : f[y] \in Int
    OBVIOUS
  <1> HIDE DEF T
  <1>3. SumOf(f, T) = f[x] + SumOf(f, T \ {x})
    BY <1>1, <1>2, SumRemove
  <1> QED
    BY <1>1, <1>2, <1>3 DEF T

\* Sums of the same terms are the same.
LEMMA SumSame ==
  ASSUME NEW f, NEW g, NEW S, IsFiniteSet(S), \A x \in S : f[x] = g[x]
  PROVE  SumOf(f, S) = SumOf(g, S)
  <1> DEFINE B == {s \in SUBSET S : SumOf(f, s) # SumOf(g, s)}
  <1>1. SUFFICES ASSUME B # {} PROVE FALSE
    OBVIOUS
  <1>2. PICK s \in B : \A q \in B : ~(q \subseteq s /\ q # s)
    <2>1. B \in SUBSET (SUBSET S)
      OBVIOUS
    <2> HIDE DEF B
    <2> QED BY <1>1, <2>1, LeastSet
  <1>3. s \in SUBSET S /\ SumOf(f, s) # SumOf(g, s) /\ IsFiniteSet(s)
    BY FS_Subset
  <1>4. s # {}
    BY <1>3, SumEmpty
  <1> DEFINE r == s \ {Pick(s)}
  <1>5. r \in SUBSET S /\ r \subseteq s /\ r # s /\ Pick(s) \in S
    BY <1>3, <1>4, PickMember
  <1>6. SumOf(f, r) = SumOf(g, r)
    <2> HIDE DEF r
    <2> QED BY <1>2, <1>5
  <1>7. /\ SumOf(f, s) = f[Pick(s)] + SumOf(f, r)
        /\ SumOf(g, s) = g[Pick(s)] + SumOf(g, r)
    BY <1>3, <1>4, SumPick
  <1> HIDE DEF r, B
  <1> QED
    BY <1>3, <1>5, <1>6, <1>7

\* One term changes.
LEMMA SumChange ==
  ASSUME NEW f, NEW g, NEW S, IsFiniteSet(S), NEW x \in S,
         \A y \in S : f[y] \in Int /\ g[y] \in Int,
         \A y \in S \ {x} : g[y] = f[y]
  PROVE  SumOf(g, S) = SumOf(f, S) + (g[x] - f[x])
  <1>1. IsFiniteSet(S \ {x})
    BY FS_Subset
  <1>2. SumOf(f, S \ {x}) = SumOf(g, S \ {x})
    BY <1>1, SumSame
  <1>3. SumOf(f, S \ {x}) \in Int
    BY <1>1, SumType
  <1>4. SumOf(f, S) = f[x] + SumOf(f, S \ {x})
    BY SumRemove
  <1>5. SumOf(g, S) = g[x] + SumOf(g, S \ {x})
    BY SumRemove
  <1> QED
    BY <1>2, <1>3, <1>4, <1>5

LEMMA SumNat ==
  ASSUME NEW f, NEW S, IsFiniteSet(S), \A x \in S : f[x] \in Nat
  PROVE  SumOf(f, S) \in Nat
  <1> DEFINE B == {s \in SUBSET S : SumOf(f, s) \notin Nat}
  <1>1. SUFFICES ASSUME B # {} PROVE FALSE
    OBVIOUS
  <1>2. PICK s \in B : \A q \in B : ~(q \subseteq s /\ q # s)
    <2>1. B \in SUBSET (SUBSET S)
      OBVIOUS
    <2> HIDE DEF B
    <2> QED BY <1>1, <2>1, LeastSet
  <1>3. s \in SUBSET S /\ SumOf(f, s) \notin Nat /\ IsFiniteSet(s)
    BY FS_Subset
  <1>4. s # {}
    BY <1>3, SumEmpty
  <1> DEFINE r == s \ {Pick(s)}
  <1>5. r \in SUBSET S /\ r \subseteq s /\ r # s /\ Pick(s) \in S
    BY <1>3, <1>4, PickMember
  <1>6. SumOf(f, r) \in Nat
    <2> HIDE DEF r
    <2> QED BY <1>2, <1>5
  <1>7. SumOf(f, s) = f[Pick(s)] + SumOf(f, r)
    BY <1>3, <1>4, SumPick
  <1> HIDE DEF r, B
  <1> QED
    BY <1>3, <1>5, <1>6, <1>7

LEMMA SumZero ==
  ASSUME NEW f, NEW S, IsFiniteSet(S), \A x \in S : f[x] = 0
  PROVE  SumOf(f, S) = 0
  <1> DEFINE B == {s \in SUBSET S : SumOf(f, s) # 0}
  <1>1. SUFFICES ASSUME B # {} PROVE FALSE
    OBVIOUS
  <1>2. PICK s \in B : \A q \in B : ~(q \subseteq s /\ q # s)
    <2>1. B \in SUBSET (SUBSET S)
      OBVIOUS
    <2> HIDE DEF B
    <2> QED BY <1>1, <2>1, LeastSet
  <1>3. s \in SUBSET S /\ SumOf(f, s) # 0 /\ IsFiniteSet(s)
    BY FS_Subset
  <1>4. s # {}
    BY <1>3, SumEmpty
  <1> DEFINE r == s \ {Pick(s)}
  <1>5. r \in SUBSET S /\ r \subseteq s /\ r # s /\ Pick(s) \in S
    BY <1>3, <1>4, PickMember
  <1>6. SumOf(f, r) = 0
    <2> HIDE DEF r
    <2> QED BY <1>2, <1>5
  <1>7. SumOf(f, s) = f[Pick(s)] + SumOf(f, r)
    BY <1>3, <1>4, SumPick
  <1> HIDE DEF r, B
  <1> QED
    BY <1>3, <1>5, <1>6, <1>7

----------------------------------------------------------------------------
(* Recursion: a function given by its steps over 0..n exists.              *)

\* A set of numbers that has 0, and each number with the one before it.
LEMMA Counting ==
  ASSUME NEW n \in Nat, NEW B \in SUBSET (0..n), 0 \in B,
         \A i \in 1..n : i - 1 \in B => i \in B
  PROVE  B = 0..n
  <1> DEFINE C == (0..n) \ B
             D == {0..k : k \in C}
  <1>1. SUFFICES ASSUME C # {} PROVE FALSE
    OBVIOUS
  <1>2. D \in SUBSET (SUBSET (0..n)) /\ D # {}
    BY <1>1
  <1>3. IsFiniteSet(0..n)
    BY FS_Interval
  <1>4. PICK s \in D : \A r \in D : ~(r \subseteq s /\ r # s)
    <2> DEFINE F == 0..n
    <2>1. IsFiniteSet(F) /\ D \in SUBSET (SUBSET F) /\ D # {}
      BY <1>2, <1>3
    <2> HIDE DEF D, F
    <2> QED
      BY <2>1, LeastSet
  <1>5. PICK k \in C : s = 0..k
    BY <1>4
  <1>6. k \in 1..n /\ k - 1 \in 0..n
    BY <1>5
  <1>7. k - 1 \in C
    BY <1>5, <1>6
  <1>8. 0..(k - 1) \in D
    BY <1>7
  <1>9. 0..(k - 1) \subseteq 0..k /\ k \in 0..k /\ k \notin 0..(k - 1)
    BY <1>6
  <1> QED
    BY <1>4, <1>5, <1>8, <1>9

\* The results of a step function, taken n times.
Runs(g, n, A, b, nx) ==
  g \in [0..n -> A] /\ g[0] = b /\ \A i \in 1..n : g[i] = nx[i][g[i - 1]]

LEMMA Recursion ==
  ASSUME NEW n \in Nat, NEW A, NEW b \in A, NEW nx \in [1..n -> [A -> A]]
  PROVE  \E g : Runs(g, n, A, b, nx)
  <1> DEFINE Upto(m, g) == Runs(g, m, A, b, nx)
             B == {m \in 0..n : \E g : Upto(m, g)}
  <1> USE DEF Runs
  <1>1. 0 \in B
    <2> DEFINE g == [i \in 0..0 |-> b]
    <2>1. Upto(0, g)
      OBVIOUS
    <2> HIDE DEF Upto, g
    <2> QED
      BY <2>1
  <1>2. ASSUME NEW m \in 1..n, m - 1 \in B PROVE m \in B
    <2>1. PICK g : Upto(m - 1, g)
      BY <1>2
    <2> DEFINE h == [i \in 0..m |-> IF i = m THEN nx[m][g[m - 1]] ELSE g[i]]
    <2>2. g[m - 1] \in A /\ nx[m][g[m - 1]] \in A
      BY <2>1
    <2>3. h \in [0..m -> A] /\ h[0] = b
      BY <2>1, <2>2
    <2>4. ASSUME NEW i \in 1..m PROVE h[i] = nx[i][h[i - 1]]
      <3>1. i - 1 \in 0..m /\ i - 1 # m /\ h[i - 1] = g[i - 1]
        OBVIOUS
      <3>2. CASE i = m
        BY <3>1, <3>2
      <3>3. CASE i # m
        <4>1. i \in 1..(m - 1) /\ h[i] = g[i]
          BY <3>3
        <4>2. g[i] = nx[i][g[i - 1]]
          BY <2>1, <4>1
        <4> QED
          BY <3>1, <4>1, <4>2
      <3> QED
        BY <3>2, <3>3
    <2>5. Upto(m, h)
      BY <2>3, <2>4
    <2> HIDE DEF Upto, h
    <2> QED
      BY <2>5
  <1>3. B = 0..n
    <2> HIDE DEF B
    <2>1. B \in SUBSET (0..n)
      BY DEF B
    <2> QED
      BY <1>1, <1>2, <2>1, Counting
  <1>4. n \in B
    BY <1>3
  <1> QED
    BY <1>4

----------------------------------------------------------------------------
(* Lists: what a filter leaves.                                            *)

Filters(kept, s, S) ==
  kept = [i \in 0..Len(s) |->
           IF i = 0 THEN <<>> ELSE IF s[i] \in S THEN Append(kept[i - 1], s[i]) ELSE kept[i - 1]]

LEMMA AmongIs == ASSUME NEW s, NEW S PROVE Among(s, S) = (CHOOSE kept : Filters(kept, s, S))[Len(s)]
  BY DEF Among, Filters

LEMMA FilterExists ==
  ASSUME NEW T, NEW s \in Seq(T), NEW S
  PROVE  \E kept : Filters(kept, s, S)
  <1> DEFINE n == Len(s)
             A == Seq(T)
             nx == [i \in 1..n |-> [a \in A |-> IF s[i] \in S THEN Append(a, s[i]) ELSE a]]
  <1>1. n \in Nat /\ <<>> \in A
    OBVIOUS
  <1>2. nx \in [1..n -> [A -> A]]
    OBVIOUS
  <1>3. PICK g \in [0..n -> A] : g[0] = <<>> /\ \A i \in 1..n : g[i] = nx[i][g[i - 1]]
    <2> DEFINE b == <<>>
    <2>1. b \in A
      OBVIOUS
    <2> HIDE DEF n, A, nx, b
    <2>2. \E g : Runs(g, n, A, b, nx)
      BY <1>1, <1>2, <2>1, Recursion, Zenon
    <2> QED
      BY <2>2 DEF b, Runs
  <1>4. ASSUME NEW i \in 1..n
        PROVE  g[i] = IF s[i] \in S THEN Append(g[i - 1], s[i]) ELSE g[i - 1]
    <2>1. i - 1 \in 0..n
      BY <1>1
    <2> DEFINE x == g[i - 1]
    <2>2. x \in A
      BY <2>1
    <2> HIDE DEF x
    <2>3. nx[i][x] = IF s[i] \in S THEN Append(x, s[i]) ELSE x
      BY <2>2
    <2> QED
      BY <1>3, <2>3 DEF x
  <1>5. ASSUME NEW i \in 0..n
        PROVE  g[i] = IF i = 0 THEN <<>>
                      ELSE IF s[i] \in S THEN Append(g[i - 1], s[i]) ELSE g[i - 1]
    <2>1. CASE i = 0
      BY <1>3, <2>1
    <2>2. CASE i # 0
      <3>1. i \in 1..n
        BY <1>1, <2>2
      <3> QED
        BY <1>4, <2>2, <3>1, Zenon
    <2> QED
      BY <2>1, <2>2
  <1>6. g = [i \in 0..n |-> g[i]]
    OBVIOUS
  <1>7. g = [i \in 0..n |-> IF i = 0 THEN <<>>
                            ELSE IF s[i] \in S THEN Append(g[i - 1], s[i]) ELSE g[i - 1]]
    <2> HIDE DEF n, A, nx
    <2> QED
      BY <1>5, <1>6
  <1> QED
    BY <1>7 DEF Filters

\* What a filter leaves of the first m: a choice of places, in their order, of
\* all that is in S.
Chosen(g, s, m, S, r) ==
  /\ g \in [1..Len(r) -> 1..m]
  /\ \A j \in 1..Len(r) : r[j] = s[g[j]] /\ s[g[j]] \in S
  /\ \A i, j \in 1..Len(r) : i < j => g[i] < g[j]
  /\ \A i \in 1..m : s[i] \in S => \E j \in 1..Len(r) : g[j] = i

LEMMA PlaceAdded ==
  ASSUME NEW T, NEW s \in Seq(T), NEW S, NEW m \in 1..Len(s), s[m] \in S,
         NEW r \in Seq(T), NEW g, Chosen(g, s, m - 1, S, r)
  PROVE  \E h : Chosen(h, s, m, S, Append(r, s[m]))
  <1> DEFINE q == Append(r, s[m])
             n == Len(r)
             h == [j \in 1..(n + 1) |-> IF j = n + 1 THEN m ELSE g[j]]
  <1>1. n \in Nat /\ Len(q) = n + 1 /\ q[n + 1] = s[m] /\ \A j \in 1..n : q[j] = r[j]
    OBVIOUS
  <1>2. \A j \in 1..(n + 1) : j = n + 1 \/ j \in 1..n
    BY <1>1
  <1>3. h[n + 1] = m /\ \A j \in 1..n : h[j] = g[j] /\ g[j] \in 1..(m - 1)
    BY <1>1 DEF Chosen
  <1> HIDE DEF q
  <1>4. h \in [1..(n + 1) -> 1..m]
    <2>0. m \in Nat /\ m > 0
      OBVIOUS
    <2>1. ASSUME NEW j \in 1..(n + 1) PROVE h[j] \in 1..m
      <3> HIDE DEF h, n
      <3> QED
        BY <1>2, <1>3, <2>0
    <2>2. h = [j \in 1..(n + 1) |-> h[j]]
      OBVIOUS
    <2> HIDE DEF h
    <2> QED
      BY <2>1, <2>2
  <1> HIDE DEF h, n
  <1>5. \A j \in 1..(n + 1) : q[j] = s[h[j]] /\ s[h[j]] \in S
    BY <1>1, <1>2, <1>3 DEF Chosen, n
  <1>6. \A i, j \in 1..(n + 1) : i < j => h[i] < h[j]
    BY <1>1, <1>2, <1>3 DEF Chosen, n
  <1>7. \A i \in 1..m : s[i] \in S => \E j \in 1..(n + 1) : h[j] = i
    <2> SUFFICES ASSUME NEW i \in 1..m, s[i] \in S PROVE \E j \in 1..(n + 1) : h[j] = i
      OBVIOUS
    <2>1. CASE i = m
      BY <1>1, <1>3, <2>1
    <2>2. CASE i # m
      <3>1. PICK j \in 1..n : g[j] = i
        BY <2>2 DEF Chosen, n
      <3> QED
        BY <1>1, <1>3, <3>1
    <2> QED
      BY <2>1, <2>2
  <1>8. Chosen(h, s, m, S, q)
    BY <1>1, <1>4, <1>5, <1>6, <1>7 DEF Chosen
  <1> QED
    BY <1>8 DEF q

LEMMA AmongPlaces ==
  ASSUME NEW T, NEW s \in Seq(T), NEW S
  PROVE  Among(s, S) \in Seq(T) /\ \E g : Chosen(g, s, Len(s), S, Among(s, S))
  <1> DEFINE n == Len(s)
             kept == CHOOSE k : Filters(k, s, S)
             Right(m) == kept[m] \in Seq(T) /\ \E g : Chosen(g, s, m, S, kept[m])
             B == {m \in 0..n : Right(m)}
  <1>1. Filters(kept, s, S)
    BY FilterExists
  <1> HIDE DEF kept
  <1>2. n \in Nat
    OBVIOUS
  <1>3. kept[0] = <<>>
    BY <1>1, <1>2 DEF Filters
  <1>4. ASSUME NEW m \in 1..n
        PROVE  kept[m] = IF s[m] \in S THEN Append(kept[m - 1], s[m]) ELSE kept[m - 1]
    <2>1. m \in 0..n /\ m # 0
      OBVIOUS
    <2> QED
      BY <1>1, <2>1 DEF Filters
  <1>5. Right(0)
    <2> DEFINE r == <<>>
               g == [j \in 1..0 |-> 1]
    <2>1. Chosen(g, s, 0, S, r) /\ r \in Seq(T)
      BY DEF Chosen
    <2> HIDE DEF g
    <2> QED
      BY <1>3, <2>1
  <1>6. ASSUME NEW m \in 1..n, Right(m - 1) PROVE Right(m)
    <2> DEFINE r == kept[m - 1]
    <2>1. r \in Seq(T) /\ \E g : Chosen(g, s, m - 1, S, r)
      BY <1>6
    <2>2. PICK g : Chosen(g, s, m - 1, S, r)
      BY <2>1
    <2>3. kept[m] = IF s[m] \in S THEN Append(r, s[m]) ELSE r
      BY <1>4
    <2> HIDE DEF r
    <2>4. CASE s[m] \in S
      <3>1. \E h : Chosen(h, s, m, S, Append(r, s[m]))
        BY <2>1, <2>2, <2>4, PlaceAdded
      <3>2. Append(r, s[m]) \in Seq(T)
        BY <2>1
      <3> QED
        BY <2>3, <2>4, <3>1, <3>2
    <2>5. CASE s[m] \notin S
      <3>1. Chosen(g, s, m, S, r)
        <4>1. \A i \in 1..m : s[i] \in S => i \in 1..(m - 1)
          BY <2>5
        <4>2. 1..(m - 1) \subseteq 1..m
          OBVIOUS
        <4> QED
          BY <2>2, <4>1, <4>2 DEF Chosen
      <3> QED
        BY <2>1, <2>3, <2>5, <3>1
    <2> QED
      BY <2>4, <2>5
  <1>7. B = 0..n
    <2> HIDE DEF Right
    <2>1. 0 \in B /\ \A m \in 1..n : m - 1 \in B => m \in B
      BY <1>2, <1>5, <1>6
    <2>2. B \in SUBSET (0..n)
      OBVIOUS
    <2> HIDE DEF B, n
    <2> QED
      BY <1>2, <2>1, <2>2, Counting
  <1>8. Right(n)
    BY <1>2, <1>7
  <1> QED
    BY <1>8, AmongIs DEF kept

\* r is s with some members left out.
Sublist(r, s) ==
  \E g \in [1..Len(r) -> 1..Len(s)] :
    /\ \A j \in 1..Len(r) : r[j] = s[g[j]]
    /\ \A i, j \in 1..Len(r) : i < j => g[i] < g[j]

LEMMA AmongFacts ==
  ASSUME NEW T, NEW s \in Seq(T), NEW S
  PROVE  /\ Among(s, S) \in Seq(T) /\ Sublist(Among(s, S), s)
         /\ ToSet(Among(s, S)) = ToSet(s) \cap S
  <1> DEFINE r == Among(s, S)
  <1>1. r \in Seq(T) /\ \E g : Chosen(g, s, Len(s), S, r)
    BY AmongPlaces
  <1>2. PICK g : Chosen(g, s, Len(s), S, r)
    BY <1>1
  <1> HIDE DEF r
  <1>3. Sublist(r, s)
    BY <1>2 DEF Chosen, Sublist
  <1>4. DOMAIN r = 1..Len(r) /\ DOMAIN s = 1..Len(s)
    BY <1>1
  <1>5. ToSet(r) = ToSet(s) \cap S
    BY <1>2, <1>4 DEF Chosen, ToSet
  <1> QED
    BY <1>1, <1>3, <1>5 DEF r

LEMMA FilteredEmpty ==
  ASSUME NEW S
  PROVE  Among(<<>>, S) = <<>>
  <1> DEFINE s == <<>>
  <1>1. s \in Seq({}) /\ Len(s) = 0
    OBVIOUS
  <1> HIDE DEF s
  <1>2. Among(s, S) \in Seq({}) /\ Sublist(Among(s, S), s)
    BY <1>1, AmongFacts
  <1>3. Len(Among(s, S)) = 0
    BY <1>1, <1>2 DEF Sublist
  <1> QED
    BY <1>2, <1>3 DEF s

----------------------------------------------------------------------------
(* Lists: sets as lists, parts, members.                                   *)

LEMMA SetAsList ==
  ASSUME NEW S, IsFiniteSet(S)
  PROVE  /\ SetToSeq(S) \in Seq(S)
         /\ \A i, j \in 1..Len(SetToSeq(S)) : SetToSeq(S)[i] = SetToSeq(S)[j] => i = j
  <1> DEFINE n == Cardinality(S)
             r == SetToSeq(S)
  <1>1. n \in Nat /\ ExistsBijection(1..n, S)
    BY FS_CardinalityType
  <1>2. \E f \in [1..n -> S] : IsInjective(f)
    BY <1>1 DEF ExistsBijection, Bijection, Injection
  <1>3. r \in [1..n -> S] /\ IsInjective(r)
    BY <1>2 DEF SetToSeq
  <1> HIDE DEF n, r
  <1>4. r \in Seq(S) /\ Len(r) = n
    BY <1>1, <1>3
  <1> QED
    BY <1>3, <1>4 DEF IsInjective, r

LEMMA ImageFinite ==
  ASSUME NEW D, IsFiniteSet(D), NEW f
  PROVE  IsFiniteSet({f[x] : x \in D})
  <1> DEFINE T == {f[x] : x \in D}
             g == [x \in D |-> f[x]]
  <1>1. g \in Surjection(D, T)
    BY DEF Surjection
  <1> HIDE DEF T, g
  <1>2. IsFiniteSet(T)
    BY <1>1, FS_Surjection
  <1> QED
    BY <1>2 DEF T

LEMMA MembersOf ==
  ASSUME NEW T, NEW s \in Seq(T)
  PROVE  /\ \A i \in 1..Len(s) : s[i] \in ToSet(s)
         /\ \A o \in ToSet(s) : o \in T /\ \E i \in 1..Len(s) : s[i] = o
  <1>1. DOMAIN s = 1..Len(s) /\ \A i \in 1..Len(s) : s[i] \in T
    OBVIOUS
  <1> QED
    BY <1>1 DEF ToSet

LEMMA TailShorter ==
  ASSUME NEW T, NEW s \in Seq(T), s # <<>>
  PROVE  /\ Tail(s) \in Seq(T) /\ Sublist(Tail(s), s)
         /\ Len(Tail(s)) = Len(s) - 1 /\ \A i \in 1..Len(Tail(s)) : Tail(s)[i] = s[i + 1]
  <1> DEFINE r == Tail(s)
             n == Len(s)
             g == [j \in 1..Len(r) |-> j + 1]
  <1>1. /\ r \in Seq(T) /\ n \in Nat /\ Len(r) = n - 1
        /\ \A j \in 1..Len(r) : j + 1 \in 1..n /\ r[j] = s[j + 1]
    OBVIOUS
  <1> HIDE DEF r, n
  <1>2. g \in [1..Len(r) -> 1..n] /\ \A j \in 1..Len(r) : g[j] = j + 1
    BY <1>1
  <1> HIDE DEF g
  <1>3. \A i, j \in 1..Len(r) : i < j => g[i] < g[j]
    BY <1>1, <1>2
  <1>4. Sublist(r, s)
    BY <1>1, <1>2, <1>3 DEF Sublist, n
  <1> QED
    BY <1>1, <1>4 DEF r, n

\* What is left of a list, and its first.
LEMMA Shortened ==
  ASSUME NEW T, NEW s \in Seq(T), s # <<>>
  PROVE  /\ Head(s) \in T /\ Head(s) = s[1] /\ 1 \in 1..Len(s) /\ Tail(s) \in Seq(T)
         /\ \A i \in 1..Len(Tail(s)) : i + 1 \in 1..Len(s) /\ Tail(s)[i] = s[i + 1]
         /\ ToSet(s) = {Head(s)} \cup ToSet(Tail(s))
  <1> DEFINE r == Tail(s)
             o == Head(s)
  <1>1. r \in Seq(T) /\ Len(r) = Len(s) - 1 /\ \A i \in 1..Len(r) : r[i] = s[i + 1]
    BY TailShorter
  <1>2. o = s[1] /\ Len(s) \in Nat \ {0} /\ o \in T
    OBVIOUS
  <1>3. DOMAIN r = 1..Len(r) /\ DOMAIN s = 1..Len(s)
    BY <1>1
  <1> HIDE DEF r, o
  <1>4. \A i \in 1..Len(r) : i + 1 \in 1..Len(s)
    BY <1>1, <1>2
  <1>5. ToSet(s) = {o} \cup ToSet(r)
    <2>1. ASSUME NEW i \in 1..Len(s) PROVE s[i] \in {o} \cup ToSet(r)
      <3>1. CASE i = 1
        BY <1>2, <3>1
      <3>2. CASE i # 1
        <4>1. i - 1 \in 1..Len(r) /\ r[i - 1] = s[(i - 1) + 1] /\ (i - 1) + 1 = i
          BY <1>1, <1>2, <3>2
        <4> QED
          BY <1>3, <4>1 DEF ToSet
      <3> QED
        BY <3>1, <3>2
    <2>2. 1 \in 1..Len(s)
      BY <1>2
    <2> QED
      BY <1>1, <1>2, <1>3, <1>4, <2>1, <2>2 DEF ToSet
  <1> QED
    BY <1>1, <1>2, <1>4, <1>5 DEF r, o

\* One more at the end.
LEMMA Appended ==
  ASSUME NEW T, NEW s \in Seq(T), NEW o \in T
  PROVE  /\ Append(s, o) \in Seq(T) /\ Len(Append(s, o)) = Len(s) + 1
         /\ Append(s, o)[Len(s) + 1] = o /\ \A i \in 1..Len(s) : Append(s, o)[i] = s[i]
         /\ \A i \in 1..Len(Append(s, o)) : i \in 1..Len(s) \/ i = Len(s) + 1
         /\ ToSet(Append(s, o)) = ToSet(s) \cup {o}
  <1> DEFINE r == Append(s, o)
  <1>1. /\ r \in Seq(T) /\ Len(r) = Len(s) + 1 /\ Len(s) \in Nat
        /\ r[Len(s) + 1] = o /\ \A i \in 1..Len(s) : r[i] = s[i]
    OBVIOUS
  <1>2. \A i \in 1..Len(r) : i \in 1..Len(s) \/ i = Len(s) + 1
    BY <1>1
  <1>3. DOMAIN r = 1..Len(r) /\ DOMAIN s = 1..Len(s)
    BY <1>1
  <1> HIDE DEF r
  <1>4. ToSet(r) = ToSet(s) \cup {o}
    <2>1. \A i \in 1..Len(r) : r[i] \in ToSet(s) \cup {o}
      BY <1>1, <1>2, <1>3 DEF ToSet
    <2>2. \A i \in 1..Len(s) : i \in 1..Len(r) /\ r[i] = s[i]
      BY <1>1
    <2>3. Len(s) + 1 \in 1..Len(r)
      BY <1>1
    <2> QED
      BY <1>1, <1>3, <2>1, <2>2, <2>3 DEF ToSet
  <1> QED
    BY <1>1, <1>2, <1>4 DEF r

LEMMA Concatenated ==
  ASSUME NEW T, NEW a \in Seq(T), NEW b \in Seq(T)
  PROVE  /\ a \o b \in Seq(T) /\ Len(a \o b) = Len(a) + Len(b)
         /\ \A i \in 1..Len(a) : (a \o b)[i] = a[i]
         /\ \A i \in 1..Len(b) : (a \o b)[Len(a) + i] = b[i]
         /\ \A i \in 1..Len(a \o b) : i \in 1..Len(a) \/ (i > Len(a) /\ i - Len(a) \in 1..Len(b))
  <1> DEFINE m == Len(a)
             n == Len(b)
             c == a \o b
  <1>1. m \in Nat /\ n \in Nat
    OBVIOUS
  <1>2. c \in Seq(T) /\ Len(c) = m + n /\ \A i \in 1..m : c[i] = a[i]
    OBVIOUS
  <1>3. ASSUME NEW i \in 1..n PROVE c[m + i] = b[i]
    <2>1. m + i \in 1..(m + n) /\ ~(m + i <= m) /\ m + i - m = i
      BY <1>1
    <2> QED
      BY <2>1
  <1> HIDE DEF m, n, c
  <1> QED
    BY <1>1, <1>2, <1>3 DEF m, n, c

LEMMA JoinedMembers ==
  ASSUME NEW T, NEW a \in Seq(T), NEW b \in Seq(T)
  PROVE  /\ a \o b \in Seq(T)
         /\ \A k \in 1..Len(a \o b) : \/ \E i \in 1..Len(a) : (a \o b)[k] = a[i]
                                      \/ \E i \in 1..Len(b) : (a \o b)[k] = b[i]
  <1> DEFINE c == a \o b
             m == Len(a)
  <1>1. /\ c \in Seq(T) /\ m \in Nat
        /\ \A i \in 1..m : c[i] = a[i]
        /\ \A i \in 1..Len(b) : c[m + i] = b[i]
        /\ \A i \in 1..Len(c) : i \in 1..m \/ (i > m /\ i - m \in 1..Len(b))
    BY Concatenated
  <1> HIDE DEF c, m
  <1>2. ASSUME NEW k \in 1..Len(c)
        PROVE  (\E i \in 1..m : c[k] = a[i]) \/ (\E i \in 1..Len(b) : c[k] = b[i])
    <2>1. CASE k \in 1..m
      BY <1>1, <2>1
    <2>2. CASE k > m /\ k - m \in 1..Len(b)
      <3>1. m + (k - m) = k
        BY <1>1
      <3>2. c[k] = b[k - m]
        BY <1>1, <2>2, <3>1
      <3> QED
        BY <2>2, <3>2
    <2> QED
      BY <1>1, <2>1, <2>2
  <1> QED
    BY <1>1, <1>2 DEF c, m

LEMMA JoinedSet ==
  ASSUME NEW T, NEW a \in Seq(T), NEW b \in Seq(T)
  PROVE  a \o b \in Seq(T) /\ ToSet(a \o b) = ToSet(a) \cup ToSet(b)
  <1> DEFINE q == a \o b
  <1>1. /\ q \in Seq(T) /\ Len(q) = Len(a) + Len(b) /\ Len(a) \in Nat /\ Len(b) \in Nat
        /\ \A i \in 1..Len(a) : q[i] = a[i]
        /\ \A i \in 1..Len(b) : q[Len(a) + i] = b[i]
        /\ \A i \in 1..Len(q) : i \in 1..Len(a) \/ (i > Len(a) /\ i - Len(a) \in 1..Len(b))
    BY Concatenated
  <1> HIDE DEF q
  <1>2. DOMAIN q = 1..Len(q) /\ DOMAIN a = 1..Len(a) /\ DOMAIN b = 1..Len(b)
    BY <1>1
  <1>3. ASSUME NEW i \in 1..Len(q) PROVE q[i] \in ToSet(a) \cup ToSet(b)
    <2>1. CASE i \in 1..Len(a)
      BY <1>1, <1>2, <2>1 DEF ToSet
    <2>2. CASE i > Len(a) /\ i - Len(a) \in 1..Len(b)
      <3>1. q[Len(a) + (i - Len(a))] = b[i - Len(a)] /\ Len(a) + (i - Len(a)) = i
        BY <1>1, <2>2
      <3> QED
        BY <1>2, <2>2, <3>1 DEF ToSet
    <2> QED
      BY <1>1, <2>1, <2>2
  <1>4. ASSUME NEW i \in 1..Len(a) PROVE a[i] \in ToSet(q)
    <2>1. i \in 1..Len(q) /\ q[i] = a[i]
      BY <1>1
    <2> QED
      BY <1>2, <2>1 DEF ToSet
  <1>5. ASSUME NEW i \in 1..Len(b) PROVE b[i] \in ToSet(q)
    <2>1. Len(a) + i \in 1..Len(q) /\ q[Len(a) + i] = b[i]
      BY <1>1
    <2> QED
      BY <1>2, <2>1 DEF ToSet
  <1>6. ToSet(q) = ToSet(a) \cup ToSet(b)
    BY <1>2, <1>3, <1>4, <1>5 DEF ToSet
  <1> QED
    BY <1>1, <1>6 DEF q

LEMMA SmallerOf ==
  ASSUME NEW x \in Int, NEW y \in Int
  PROVE  Min({x, y}) \in {x, y} /\ Min({x, y}) <= x /\ Min({x, y}) <= y
  <1>1. \E v \in {x, y} : \A u \in {x, y} : v <= u
    OBVIOUS
  <1>2. Min({x, y}) \in {x, y} /\ \A u \in {x, y} : Min({x, y}) <= u
    BY <1>1 DEF Min
  <1> QED
    BY <1>2

LEMMA SelectedPart ==
  ASSUME NEW T, NEW s \in Seq(T), NEW m \in Nat
  PROVE  LET r == SubSeq(s, 1, Min({m, Len(s)}))
         IN r \in Seq(T) /\ ToSet(r) \subseteq ToSet(s) /\ Sublist(r, s)
  <1> DEFINE n == Len(s)
             k == Min({m, n})
             r == SubSeq(s, 1, k)
  <1>1. n \in Nat
    OBVIOUS
  <1>2. k \in Nat /\ k <= n
    <2>1. m \in Int /\ n \in Int
      BY <1>1
    <2> HIDE DEF n
    <2>2. k \in {m, n} /\ k <= n
      BY ONLY <2>1, SmallerOf
    <2> QED
      BY <1>1, <2>2
  <1> HIDE DEF k
  <1>3. r \in Seq(T) /\ Len(r) = k /\ \A i \in 1..k : r[i] = s[i]
    BY <1>2
  <1> HIDE DEF r
  <1>4. DOMAIN r = 1..Len(r) /\ DOMAIN s = 1..n
    BY <1>3
  <1>5. ToSet(r) \subseteq ToSet(s)
    BY <1>1, <1>2, <1>3, <1>4 DEF ToSet
  <1> DEFINE g == [j \in 1..k |-> j]
  <1>6. g \in [1..k -> 1..n] /\ \A j \in 1..k : g[j] = j
    BY <1>1, <1>2
  <1> HIDE DEF g, n
  <1>7. \E f \in [1..k -> 1..n] : /\ \A j \in 1..k : r[j] = s[f[j]]
                                 /\ \A i, j \in 1..k : i < j => f[i] < f[j]
    BY <1>3, <1>6
  <1>8. Sublist(r, s)
    BY <1>3, <1>7 DEF Sublist, n
  <1> QED
    BY <1>3, <1>5, <1>8 DEF r, k, n
=============================================================================

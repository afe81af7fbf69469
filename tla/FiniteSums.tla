----------------------------- MODULE FiniteSums -----------------------------
(***************************************************************************)
(* Facts about finite sums, SumFunctionOnSet(f, S) of the community module *)
(* Functions, stated about a function f rather than an operator so that    *)
(* they can be cited for any f.                                            *)
(*                                                                         *)
(* The sum is a recursive function on the subsets of S that takes one      *)
(* element out at a time.  That such a function exists, that the order     *)
(* does not matter, and everything else here is proved by induction on     *)
(* the subset ordering, in the form of a least counterexample (WFMin).     *)
(***************************************************************************)
EXTENDS FiniteSetTheorems, TLAPS

(* The element the fold takes out of a set. *)
Picked(s) == CHOOSE x \in s : TRUE

(* g is the recursive function of the sum of f, on the subsets of S. *)
IsSum(g, f, S) ==
    g = [s \in SUBSET S |-> IF s = {} THEN 0 ELSE f[Picked(s)] + g[s \ {Picked(s)}]]

(* The sum is what a function of that form, chosen once, has at S. *)
LEMMA SumIsChosen ==
    ASSUME NEW S, NEW f
    PROVE  SumFunctionOnSet(f, S) = (CHOOSE g : IsSum(g, f, S))[S]
BY DEF SumFunctionOnSet, FoldFunctionOnSet, MapThenFoldSet, Picked, IsSum

(* A least element of a nonempty set of finite sets. *)
LEMMA LeastSet ==
    ASSUME NEW S, IsFiniteSet(S), NEW T, T \subseteq SUBSET S, T # {}
    PROVE  \E U \in T : \A V \in T : V \subseteq U => V = U
<1>1. T \subseteq FiniteSubsetsOf(S)
  BY FS_FiniteSubsetsOfFinite
<1>2. IsWellFoundedOn(StrictSubsetOrdering(S), FiniteSubsetsOf(S))
  BY FS_StrictSubsetOrderingWellFounded
<1>3. PICK U \in T : \A V \in T : ~ (<<V, U>> \in StrictSubsetOrdering(S))
  BY <1>1, <1>2, WFMin
<1>4. ASSUME NEW V \in T, V \subseteq U PROVE V = U
  BY <1>3, <1>4 DEF StrictSubsetOrdering
<1>5. QED BY <1>4

(* What the fold takes out was in the set. *)
LEMMA PickedIn == ASSUME NEW s, s # {} PROVE Picked(s) \in s
BY DEF Picked

(* Two such functions agree wherever both are defined. *)
LEMMA SumsAgree ==
    ASSUME NEW f, NEW V, NEW W, NEW g, NEW h, IsFiniteSet(V),
           IsSum(g, f, V), IsSum(h, f, W),
           NEW s \in SUBSET (V \cap W)
    PROVE  g[s] = h[s]
<1> DEFINE T == {r \in SUBSET (V \cap W) : g[r] # h[r]}
<1>1. SUFFICES ASSUME T # {} PROVE FALSE
  OBVIOUS
<1>2. T \subseteq SUBSET V
  OBVIOUS
<1>3. PICK r \in T : \A q \in T : q \subseteq r => q = r
  <2> HIDE DEF T
  <2> QED BY <1>1, <1>2, LeastSet
<1>4. /\ g[r] = IF r = {} THEN 0 ELSE f[Picked(r)] + g[r \ {Picked(r)}]
      /\ h[r] = IF r = {} THEN 0 ELSE f[Picked(r)] + h[r \ {Picked(r)}]
  BY DEF IsSum
<1>5. r # {}
  BY <1>4
<1>6. Picked(r) \in r
  BY <1>5, PickedIn
<1>7. r \ {Picked(r)} \notin T
  BY <1>3, <1>6
<1>8. g[r \ {Picked(r)}] = h[r \ {Picked(r)}]
  BY <1>7
<1>9. QED BY <1>4, <1>5, <1>8

(* The sum is what any such function has at S. *)
LEMMA SumIs ==
    ASSUME NEW f, NEW S, IsFiniteSet(S), NEW g, IsSum(g, f, S)
    PROVE  /\ SumFunctionOnSet(f, S) = g[S]
           /\ SumFunctionOnSet(f, S)
                = IF S = {} THEN 0 ELSE f[Picked(S)] + g[S \ {Picked(S)}]
<1> DEFINE h == CHOOSE k : IsSum(k, f, S)
<1>1. IsSum(h, f, S)
  OBVIOUS
<1>2. SumFunctionOnSet(f, S) = h[S]
  BY SumIsChosen
<1>3. h[S] = g[S]
  <2> HIDE DEF h
  <2> QED BY <1>1, SumsAgree
<1>4. g[S] = IF S = {} THEN 0 ELSE f[Picked(S)] + g[S \ {Picked(S)}]
  BY DEF IsSum
<1>5. QED BY <1>2, <1>3, <1>4

(* There is such a function on every finite set. *)
LEMMA SumExists ==
    ASSUME NEW f, NEW S, IsFiniteSet(S)
    PROVE  \E g : IsSum(g, f, S)
<1> DEFINE T == {V \in SUBSET S : ~ \E g : IsSum(g, f, V)}
<1>1. SUFFICES ASSUME T # {} PROVE FALSE
  OBVIOUS
<1>2. PICK U \in T : \A q \in T : q \subseteq U => q = U
  <2>1. T \subseteq SUBSET S
    OBVIOUS
  <2> HIDE DEF T
  <2> QED BY <1>1, <2>1, LeastSet
<1> DEFINE sum(s) == SumFunctionOnSet(f, s)
           h == [s \in SUBSET U |->
                   IF s = {} THEN 0 ELSE f[Picked(s)] + sum(s \ {Picked(s)})]
<1>3. ASSUME NEW W \in SUBSET U, W # U
      PROVE  sum(W) = IF W = {} THEN 0 ELSE f[Picked(W)] + sum(W \ {Picked(W)})
  <2>1. PICK g : IsSum(g, f, W)
    BY <1>2, <1>3
  <2>2. IsFiniteSet(W) /\ IsFiniteSet(U)
    BY FS_Subset
  <2>3. sum(W) = IF W = {} THEN 0 ELSE f[Picked(W)] + g[W \ {Picked(W)}]
    BY <2>1, <2>2, SumIs
  <2>4. CASE W = {}
    BY <2>3, <2>4
  <2>5. CASE W # {}
    <3> DEFINE R == W \ {Picked(W)}
    <3>1. Picked(W) \in W
      BY <2>5, PickedIn
    <3>2. R \in SUBSET U /\ R # U /\ IsFiniteSet(R)
      BY <3>1, <1>3, <2>2, FS_Subset
    <3>3. PICK k : IsSum(k, f, R)
      BY <1>2, <3>2
    <3>4. sum(R) = k[R]
      BY <3>2, <3>3, SumIs
    <3>5. R \in SUBSET (W \cap R)
      BY <3>1
    <3>6. g[R] = k[R]
      <4> HIDE DEF R
      <4> QED BY <2>1, <2>2, <3>3, <3>5, SumsAgree
    <3>7. QED BY <2>3, <2>5, <3>4, <3>6
  <2>6. QED BY <2>4, <2>5
<1>4. IsSum(h, f, U)
  <2>1. ASSUME NEW s \in SUBSET U, s # {}
        PROVE  h[s \ {Picked(s)}] = sum(s \ {Picked(s)})
    <3> DEFINE R == s \ {Picked(s)}
    <3>1. Picked(s) \in s
      BY <2>1, PickedIn
    <3>2. R \in SUBSET U /\ R # U
      BY <3>1
    <3>3. h[R] = IF R = {} THEN 0 ELSE f[Picked(R)] + sum(R \ {Picked(R)})
      BY <3>2
    <3>4. QED
      <4> HIDE DEF h, sum, R
      <4>1. h[R] = sum(R)
        BY <1>3, <3>2, <3>3
      <4> QED BY <4>1 DEF R
  <2> HIDE DEF sum
  <2>2. h = [s \in SUBSET U |-> IF s = {} THEN 0 ELSE f[Picked(s)] + h[s \ {Picked(s)}]]
    <3>1. ASSUME NEW s \in SUBSET U
          PROVE  (IF s = {} THEN 0 ELSE f[Picked(s)] + sum(s \ {Picked(s)}))
                   = (IF s = {} THEN 0 ELSE f[Picked(s)] + h[s \ {Picked(s)}])
      <4> HIDE DEF h
      <4> QED BY <2>1
    <3> QED BY <3>1
  <2> HIDE DEF h
  <2> QED BY <2>2 DEF IsSum
<1>5. QED BY <1>4

(* The sum's equation. *)
LEMMA SumUnfold ==
    ASSUME NEW f, NEW S, IsFiniteSet(S)
    PROVE  SumFunctionOnSet(f, S)
             = IF S = {} THEN 0
               ELSE f[Picked(S)] + SumFunctionOnSet(f, S \ {Picked(S)})
<1> DEFINE R == S \ {Picked(S)}
<1>1. PICK g : IsSum(g, f, S)
  BY SumExists
<1>2. IsFiniteSet(R)
  BY FS_Subset
<1>3. PICK k : IsSum(k, f, R)
  BY <1>2, SumExists
<1>4. g[R] = k[R]
  <2>1. R \in SUBSET (S \cap R)
    OBVIOUS
  <2> HIDE DEF R
  <2> QED BY <1>1, <1>3, <2>1, SumsAgree
<1>5. SumFunctionOnSet(f, R) = k[R]
  BY <1>2, <1>3, SumIs
<1>6. SumFunctionOnSet(f, S) = IF S = {} THEN 0 ELSE f[Picked(S)] + g[R]
  BY <1>1, SumIs
<1>7. QED BY <1>4, <1>5, <1>6

(* Nothing sums to 0. *)
LEMMA SumEmpty == ASSUME NEW f PROVE SumFunctionOnSet(f, {}) = 0
BY SumUnfold, FS_EmptySet

(* A sum of integers is an integer. *)
LEMMA SumInt ==
    ASSUME NEW f, NEW S, IsFiniteSet(S), \A x \in S : f[x] \in Int
    PROVE  SumFunctionOnSet(f, S) \in Int
<1> DEFINE T == {V \in SUBSET S : SumFunctionOnSet(f, V) \notin Int}
<1>1. SUFFICES ASSUME T # {} PROVE FALSE
  OBVIOUS
<1>2. PICK U \in T : \A q \in T : q \subseteq U => q = U
  <2>1. T \subseteq SUBSET S
    OBVIOUS
  <2> HIDE DEF T
  <2> QED BY <1>1, <2>1, LeastSet
<1>3. IsFiniteSet(U)
  BY FS_Subset
<1>4. CASE U = {}
  BY <1>2, <1>4, SumEmpty
<1>5. CASE U # {}
  <2>1. Picked(U) \in U
    BY <1>5, PickedIn
  <2>2. U \ {Picked(U)} \notin T
    BY <1>2, <2>1
  <2>3. SumFunctionOnSet(f, U \ {Picked(U)}) \in Int
    BY <2>2
  <2>4. f[Picked(U)] \in Int
    BY <2>1
  <2>5. QED BY <1>2, <1>3, <1>5, <2>3, <2>4, SumUnfold
<1>6. QED BY <1>4, <1>5

(* A sum of naturals is a natural. *)
LEMMA SumNat ==
    ASSUME NEW f, NEW S, IsFiniteSet(S), \A x \in S : f[x] \in Nat
    PROVE  SumFunctionOnSet(f, S) \in Nat
<1> DEFINE T == {V \in SUBSET S : SumFunctionOnSet(f, V) \notin Nat}
<1>1. SUFFICES ASSUME T # {} PROVE FALSE
  OBVIOUS
<1>2. PICK U \in T : \A q \in T : q \subseteq U => q = U
  <2>1. T \subseteq SUBSET S
    OBVIOUS
  <2> HIDE DEF T
  <2> QED BY <1>1, <2>1, LeastSet
<1>3. IsFiniteSet(U)
  BY FS_Subset
<1>4. CASE U = {}
  BY <1>2, <1>4, SumEmpty
<1>5. CASE U # {}
  <2>1. Picked(U) \in U
    BY <1>5, PickedIn
  <2>2. U \ {Picked(U)} \notin T
    BY <1>2, <2>1
  <2>3. SumFunctionOnSet(f, U \ {Picked(U)}) \in Nat
    BY <2>2
  <2>4. f[Picked(U)] \in Nat
    BY <2>1
  <2>5. QED BY <1>2, <1>3, <1>5, <2>3, <2>4, SumUnfold
<1>6. QED BY <1>4, <1>5

(* Any element may be taken out first. *)
LEMMA SumTakeOut ==
    ASSUME NEW f, NEW S, IsFiniteSet(S), \A x \in S : f[x] \in Int, NEW e \in S
    PROVE  SumFunctionOnSet(f, S) = f[e] + SumFunctionOnSet(f, S \ {e})
<1> DEFINE sum(V) == SumFunctionOnSet(f, V)
           T == {V \in SUBSET S : \E x \in V : sum(V) # f[x] + sum(V \ {x})}
<1>1. SUFFICES ASSUME T # {} PROVE FALSE
  OBVIOUS
<1>2. PICK U \in T : \A q \in T : q \subseteq U => q = U
  <2>1. T \subseteq SUBSET S
    OBVIOUS
  <2> HIDE DEF T
  <2> QED BY <1>1, <2>1, LeastSet
<1>3. PICK x \in U : sum(U) # f[x] + sum(U \ {x})
  BY <1>2
<1> DEFINE p == Picked(U)
<1>4. p \in U
  BY PickedIn
<1>5. IsFiniteSet(U) /\ IsFiniteSet(U \ {p}) /\ IsFiniteSet(U \ {x})
  BY FS_Subset
<1>6. sum(U) = f[p] + sum(U \ {p})
  BY <1>4, <1>5, SumUnfold
<1>7. p # x
  BY <1>3, <1>6
<1>8. sum(U \ {p}) = f[x] + sum((U \ {p}) \ {x})
  <2>1. U \ {p} \notin T
    BY <1>2, <1>4
  <2>2. x \in U \ {p}
    BY <1>7
  <2> HIDE DEF p, sum
  <2> QED BY <2>1, <2>2
<1>9. sum(U \ {x}) = f[p] + sum((U \ {x}) \ {p})
  <2>1. U \ {x} \notin T
    BY <1>2
  <2>2. p \in U \ {x}
    BY <1>4, <1>7
  <2> HIDE DEF p, sum
  <2> QED BY <2>1, <2>2
<1>10. (U \ {p}) \ {x} = (U \ {x}) \ {p}
  OBVIOUS
<1>11. f[x] \in Int /\ f[p] \in Int
  BY <1>4
<1>12. sum((U \ {x}) \ {p}) \in Int
  <2>1. IsFiniteSet((U \ {x}) \ {p})
    BY <1>5, FS_Subset
  <2> QED BY <2>1, SumInt
<1>13. QED
  <2> HIDE DEF p, sum, T
  <2>1. sum((U \ {p}) \ {x}) = sum((U \ {x}) \ {p})
    BY <1>10
  <2> QED BY <1>3, <1>6, <1>8, <1>9, <1>11, <1>12, <2>1

(* An element more. *)
LEMMA SumAdd ==
    ASSUME NEW f, NEW S, IsFiniteSet(S), NEW e, e \notin S,
           \A x \in S \cup {e} : f[x] \in Int
    PROVE  SumFunctionOnSet(f, S \cup {e}) = f[e] + SumFunctionOnSet(f, S)
<1>1. IsFiniteSet(S \cup {e})
  BY FS_AddElement
<1>2. (S \cup {e}) \ {e} = S
  OBVIOUS
<1>3. SumFunctionOnSet(f, S \cup {e}) = f[e] + SumFunctionOnSet(f, (S \cup {e}) \ {e})
  BY <1>1, SumTakeOut
<1>4. QED BY <1>2, <1>3

(* The sum depends on the function's values on the set alone. *)
LEMMA SumSame ==
    ASSUME NEW f, NEW g, NEW S, IsFiniteSet(S), \A x \in S : f[x] = g[x]
    PROVE  SumFunctionOnSet(f, S) = SumFunctionOnSet(g, S)
<1> DEFINE T == {V \in SUBSET S : SumFunctionOnSet(f, V) # SumFunctionOnSet(g, V)}
<1>1. SUFFICES ASSUME T # {} PROVE FALSE
  OBVIOUS
<1>2. PICK U \in T : \A q \in T : q \subseteq U => q = U
  <2>1. T \subseteq SUBSET S
    OBVIOUS
  <2> HIDE DEF T
  <2> QED BY <1>1, <2>1, LeastSet
<1>3. IsFiniteSet(U)
  BY FS_Subset
<1>4. U # {}
  BY <1>2, SumEmpty
<1>5. Picked(U) \in U
  BY <1>4, PickedIn
<1>6. U \ {Picked(U)} \notin T
  BY <1>2, <1>5
<1>7. SumFunctionOnSet(f, U \ {Picked(U)}) = SumFunctionOnSet(g, U \ {Picked(U)})
  BY <1>6
<1>8. f[Picked(U)] = g[Picked(U)]
  BY <1>5
<1>9. QED BY <1>2, <1>3, <1>4, <1>7, <1>8, SumUnfold

(* One value changed. *)
LEMMA SumChange ==
    ASSUME NEW f, NEW g, NEW S, IsFiniteSet(S), NEW e \in S,
           \A x \in S : f[x] \in Int, g[e] \in Int,
           \A x \in S \ {e} : g[x] = f[x]
    PROVE  SumFunctionOnSet(g, S) = SumFunctionOnSet(f, S) - f[e] + g[e]
<1>1. IsFiniteSet(S \ {e})
  BY FS_Subset
<1>2. \A x \in S : g[x] \in Int
  OBVIOUS
<1>3. SumFunctionOnSet(f, S) = f[e] + SumFunctionOnSet(f, S \ {e})
  BY SumTakeOut
<1>4. SumFunctionOnSet(g, S) = g[e] + SumFunctionOnSet(g, S \ {e})
  BY <1>2, SumTakeOut
<1>5. SumFunctionOnSet(f, S \ {e}) = SumFunctionOnSet(g, S \ {e})
  BY <1>1, SumSame
<1>6. SumFunctionOnSet(f, S \ {e}) \in Int
  BY <1>1, SumInt
<1>7. QED BY <1>3, <1>4, <1>5, <1>6

(* Two sets that share no element. *)
LEMMA SumUnion ==
    ASSUME NEW f, NEW S, NEW R, IsFiniteSet(S), IsFiniteSet(R), S \cap R = {},
           \A x \in S \cup R : f[x] \in Int
    PROVE  SumFunctionOnSet(f, S \cup R)
             = SumFunctionOnSet(f, S) + SumFunctionOnSet(f, R)
<1> DEFINE sum(V) == SumFunctionOnSet(f, V)
           T == {V \in SUBSET R : sum(S \cup V) # sum(S) + sum(V)}
<1>1. SUFFICES ASSUME T # {} PROVE FALSE
  OBVIOUS
<1>2. PICK U \in T : \A q \in T : q \subseteq U => q = U
  <2>1. T \subseteq SUBSET R
    OBVIOUS
  <2> HIDE DEF T
  <2> QED BY <1>1, <2>1, LeastSet
<1>3. IsFiniteSet(U)
  BY FS_Subset
<1>4. sum(S) \in Int
  BY SumInt
<1>5. CASE U = {}
  <2>1. sum(U) = 0 /\ S \cup U = S
    BY <1>5, SumEmpty
  <2>2. sum(S \cup U) # sum(S) + sum(U)
    <3> HIDE DEF sum
    <3> QED OBVIOUS
  <2>3. sum(S \cup U) = sum(S)
    <3> HIDE DEF sum
    <3> QED BY <2>1
  <2> HIDE DEF sum, T
  <2> QED BY <1>4, <2>1, <2>2, <2>3
<1>6. CASE U # {}
  <2> DEFINE p == Picked(U)
             W == U \ {p}
  <2>1. p \in U
    BY <1>6, PickedIn
  <2>2. W \notin T
    BY <1>2, <2>1
  <2>3. sum(S \cup W) = sum(S) + sum(W)
    <3> HIDE DEF sum
    <3> QED BY <2>2
  <2>4. IsFiniteSet(W) /\ IsFiniteSet(S \cup W)
    BY <1>3, FS_Subset, FS_Union
  <2>5. (S \cup W) \cup {p} = S \cup U /\ W \cup {p} = U /\ p \notin W /\ p \notin S \cup W
    BY <2>1
  <2>6. sum((S \cup W) \cup {p}) = f[p] + sum(S \cup W)
    <3> HIDE DEF p, W
    <3>1. W \subseteq R /\ p \in R
      BY <2>1 DEF W
    <3> QED BY <2>4, <2>5, <3>1, SumAdd
  <2>7. sum(W \cup {p}) = f[p] + sum(W)
    <3> HIDE DEF p, W
    <3>1. W \subseteq R /\ p \in R
      BY <2>1 DEF W
    <3> QED BY <2>4, <2>5, <3>1, SumAdd
  <2>8. f[p] \in Int /\ sum(W) \in Int
    <3>1. W \subseteq R /\ p \in R
      BY <2>1
    <3> HIDE DEF W, p
    <3> QED BY <2>4, <3>1, SumInt
  <2>9. sum(S \cup U) # sum(S) + sum(U)
    <3> HIDE DEF sum, p, W
    <3> QED OBVIOUS
  <2>10. sum(S \cup U) = f[p] + sum(S \cup W) /\ sum(U) = f[p] + sum(W)
    <3> HIDE DEF sum, p, W
    <3> QED BY <2>5, <2>6, <2>7
  <2> HIDE DEF sum, p, W, T
  <2>11. QED BY <1>4, <2>3, <2>8, <2>9, <2>10
<1>7. QED BY <1>5, <1>6

(* The sum over a part, and of one element, is no more than the whole. *)
LEMMA SumPart ==
    ASSUME NEW f, NEW S, IsFiniteSet(S), \A x \in S : f[x] \in Nat, NEW R \in SUBSET S
    PROVE  /\ SumFunctionOnSet(f, R) <= SumFunctionOnSet(f, S)
           /\ SumFunctionOnSet(f, S) = SumFunctionOnSet(f, R) + SumFunctionOnSet(f, S \ R)
<1>1. IsFiniteSet(R) /\ IsFiniteSet(S \ R)
  BY FS_Subset
<1>2. R \cap (S \ R) = {} /\ R \cup (S \ R) = S
  OBVIOUS
<1>3. SumFunctionOnSet(f, R) \in Nat /\ SumFunctionOnSet(f, S \ R) \in Nat
  BY <1>1, SumNat
<1>4. SumFunctionOnSet(f, R \cup (S \ R)) = SumFunctionOnSet(f, R) + SumFunctionOnSet(f, S \ R)
  BY <1>1, <1>2, SumUnion
<1>5. SumFunctionOnSet(f, S) = SumFunctionOnSet(f, R) + SumFunctionOnSet(f, S \ R)
  BY <1>2, <1>4
<1>6. QED BY <1>3, <1>5

(* A natural is at most the sum it is part of. *)
LEMMA SumMember ==
    ASSUME NEW f, NEW S, IsFiniteSet(S), \A x \in S : f[x] \in Nat, NEW e \in S
    PROVE  f[e] <= SumFunctionOnSet(f, S)
<1>1. IsFiniteSet(S \ {e})
  BY FS_Subset
<1>2. SumFunctionOnSet(f, S \ {e}) \in Nat
  BY <1>1, SumNat
<1>3. SumFunctionOnSet(f, S) = f[e] + SumFunctionOnSet(f, S \ {e})
  BY SumTakeOut
<1>4. QED BY <1>2, <1>3

(* A sum of zeros is zero. *)
LEMMA SumZero ==
    ASSUME NEW f, NEW S, IsFiniteSet(S), \A x \in S : f[x] = 0
    PROVE  SumFunctionOnSet(f, S) = 0
<1> DEFINE T == {V \in SUBSET S : SumFunctionOnSet(f, V) # 0}
<1>1. SUFFICES ASSUME T # {} PROVE FALSE
  OBVIOUS
<1>2. PICK U \in T : \A q \in T : q \subseteq U => q = U
  <2>1. T \subseteq SUBSET S
    OBVIOUS
  <2> HIDE DEF T
  <2> QED BY <1>1, <2>1, LeastSet
<1>3. IsFiniteSet(U)
  BY FS_Subset
<1>4. U # {}
  BY <1>2, SumEmpty
<1>5. Picked(U) \in U
  BY <1>4, PickedIn
<1>6. U \ {Picked(U)} \notin T
  BY <1>2, <1>5
<1>7. SumFunctionOnSet(f, U \ {Picked(U)}) = 0 /\ f[Picked(U)] = 0
  BY <1>5, <1>6
<1>8. QED BY <1>2, <1>3, <1>4, <1>7, SumUnfold

(* h names each element of S by one element of R, g is f by those names. *)
Renames(h, g, R, f, S) ==
    /\ \A y \in R : h[y] \in S
    /\ \A x \in S : \E y \in R : h[y] = x
    /\ \A y, z \in R : h[y] = h[z] => y = z
    /\ \A y \in R : f[h[y]] \in Int /\ g[y] = f[h[y]]

(* The same amounts under other names. *)
LEMMA SumRenamed ==
    ASSUME NEW f, NEW S, NEW g, NEW R, NEW h, IsFiniteSet(R), Renames(h, g, R, f, S)
    PROVE  SumFunctionOnSet(g, R) = SumFunctionOnSet(f, S)
<1>a. /\ \A y \in R : h[y] \in S
      /\ \A x \in S : \E y \in R : h[y] = x
      /\ \A y, z \in R : h[y] = h[z] => y = z
      /\ \A y \in R : f[h[y]] \in Int /\ g[y] = f[h[y]]
  BY DEF Renames
<1> DEFINE image(V) == {h[y] : y \in V}
           T == {V \in SUBSET R : ~ /\ IsFiniteSet(image(V))
                                    /\ SumFunctionOnSet(g, V) = SumFunctionOnSet(f, image(V))}
<1>1. SUFFICES T = {}
  <2>1. image(R) = S
    BY <1>a
  <2> HIDE DEF image
  <2> QED BY <2>1
<1>2. SUFFICES ASSUME T # {} PROVE FALSE
  OBVIOUS
<1>3. PICK U \in T : \A q \in T : q \subseteq U => q = U
  <2>1. T \subseteq SUBSET R
    OBVIOUS
  <2> HIDE DEF T
  <2> QED BY <1>2, <2>1, LeastSet
<1>4. IsFiniteSet(U)
  BY FS_Subset
<1>5. CASE U = {}
  <2>1. image(U) = {}
    BY <1>5
  <2> HIDE DEF image
  <2> QED BY <1>3, <1>5, <2>1, SumEmpty, FS_EmptySet
<1>6. CASE U # {}
  <2> DEFINE p == Picked(U)
             W == U \ {p}
  <2>1. p \in U
    BY <1>6, PickedIn
  <2>2. W \notin T
    BY <1>3, <2>1
  <2>3. /\ IsFiniteSet(image(W))
        /\ SumFunctionOnSet(g, W) = SumFunctionOnSet(f, image(W))
    <3> HIDE DEF image
    <3> QED BY <2>2
  <2>4. IsFiniteSet(W) /\ p \notin W /\ W \cup {p} = U /\ W \in SUBSET R /\ p \in R
    BY <1>4, <2>1, FS_Subset
  <2>5. image(U) = image(W) \cup {h[p]}
    <3> HIDE DEF p
    <3> QED BY <2>1
  <2>6. h[p] \notin image(W)
    <3> HIDE DEF p
    <3> QED BY <1>a, <2>4
  <2>7. \A x \in image(W) \cup {h[p]} : f[x] \in Int
    <3> HIDE DEF p
    <3> QED BY <1>a, <2>4
  <2>8. \A x \in W \cup {p} : g[x] \in Int
    <3> HIDE DEF p, W
    <3> QED BY <1>a, <2>4
  <2>9. g[p] = f[h[p]]
    <3> HIDE DEF p, W
    <3> QED BY <1>a, <2>4
  <2> HIDE DEF p, W, image
  <2>10. SumFunctionOnSet(f, image(W) \cup {h[p]}) = f[h[p]] + SumFunctionOnSet(f, image(W))
    BY <2>3, <2>6, <2>7, SumAdd
  <2>11. SumFunctionOnSet(g, W \cup {p}) = g[p] + SumFunctionOnSet(g, W)
    BY <2>4, <2>8, SumAdd
  <2>12. IsFiniteSet(image(U))
    BY <2>3, <2>5, FS_AddElement
  <2>13. SumFunctionOnSet(g, U) = SumFunctionOnSet(f, image(U))
    BY <2>3, <2>4, <2>5, <2>9, <2>10, <2>11
  <2>14. QED BY <1>3, <2>12, <2>13
<1>7. QED BY <1>5, <1>6

(* g sums f over each group of S, k saying which group of C one is in. *)
Groups(k, g, C, f, S) ==
    /\ \A x \in S : f[x] \in Int
    /\ \A c \in C : g[c] = SumFunctionOnSet(f, {x \in S : k[x] = c})
    /\ \A x \in S : k[x] \in C

(* Amounts summed by the group they belong to. *)
LEMMA SumByGroup ==
    ASSUME NEW f, NEW S, NEW k, NEW C, NEW g, IsFiniteSet(S), IsFiniteSet(C),
           Groups(k, g, C, f, S)
    PROVE  SumFunctionOnSet(g, C) = SumFunctionOnSet(f, S)
<1>a. /\ \A x \in S : f[x] \in Int
      /\ \A c \in C : g[c] = SumFunctionOnSet(f, {x \in S : k[x] = c})
      /\ \A x \in S : k[x] \in C
  BY DEF Groups
<1> DEFINE of(V) == {x \in S : k[x] \in V}
           T == {V \in SUBSET C : SumFunctionOnSet(g, V) # SumFunctionOnSet(f, of(V))}
<1>b. SUFFICES T = {}
  <2>1. of(C) = S
    BY <1>a
  <2> HIDE DEF of
  <2> QED BY <2>1
<1>1. SUFFICES ASSUME T # {} PROVE FALSE
  OBVIOUS
<1>2. PICK U \in T : \A q \in T : q \subseteq U => q = U
  <2>1. T \subseteq SUBSET C
    OBVIOUS
  <2> HIDE DEF T
  <2> QED BY <1>1, <2>1, LeastSet
<1>3. IsFiniteSet(U)
  BY FS_Subset
<1>4. CASE U = {}
  <2>1. of(U) = {}
    BY <1>4
  <2> HIDE DEF of
  <2> QED BY <1>2, <1>4, <2>1, SumEmpty
<1>5. CASE U # {}
  <2> DEFINE p == Picked(U)
             W == U \ {p}
  <2>1. p \in U
    BY <1>5, PickedIn
  <2>2. W \notin T
    BY <1>2, <2>1
  <2>3. SumFunctionOnSet(g, W) = SumFunctionOnSet(f, of(W))
    <3> HIDE DEF of
    <3> QED BY <2>2
  <2>4. IsFiniteSet(W) /\ p \notin W /\ W \cup {p} = U /\ W \in SUBSET C /\ p \in C
    BY <1>3, <2>1, FS_Subset
  <2>5. of(U) = of(W) \cup {x \in S : k[x] = p} /\ of(W) \cap {x \in S : k[x] = p} = {}
    <3> HIDE DEF p
    <3> QED BY <2>4
  <2>6. /\ IsFiniteSet(of(W)) /\ \A x \in of(W) : f[x] \in Int
        /\ IsFiniteSet({x \in S : k[x] = p})
    BY <1>a, FS_Subset
  <2>7. SumFunctionOnSet(f, of(U))
          = SumFunctionOnSet(f, of(W)) + SumFunctionOnSet(f, {x \in S : k[x] = p})
    <3> HIDE DEF of, p, W
    <3>1. \A x \in of(W) \cup {x \in S : k[x] = p} : f[x] \in Int
      BY <1>a DEF of
    <3> QED BY <2>5, <2>6, <3>1, SumUnion
  <2>8. \A c \in C : g[c] \in Int
    <3>1. ASSUME NEW c \in C PROVE g[c] \in Int
      <4>1. IsFiniteSet({x \in S : k[x] = c})
        BY FS_Subset
      <4>2. SumFunctionOnSet(f, {x \in S : k[x] = c}) \in Int
        BY <1>a, <4>1, SumInt
      <4> QED BY <1>a, <4>2
    <3> QED BY <3>1
  <2>9. SumFunctionOnSet(g, W \cup {p}) = g[p] + SumFunctionOnSet(g, W)
    <3> HIDE DEF of, p, W
    <3> QED BY <2>4, <2>8, SumAdd
  <2>10. g[p] = SumFunctionOnSet(f, {x \in S : k[x] = p})
    <3> HIDE DEF p
    <3> QED BY <1>a, <2>4
  <2>11. SumFunctionOnSet(f, of(W)) \in Int /\ SumFunctionOnSet(f, {x \in S : k[x] = p}) \in Int
    <3> HIDE DEF of, p, W
    <3>1. \A x \in {x \in S : k[x] = p} : f[x] \in Int
      BY <1>a
    <3> QED BY <2>6, <3>1, SumInt
  <2>12. SumFunctionOnSet(g, U) # SumFunctionOnSet(f, of(U))
    <3> HIDE DEF of, p, W
    <3> QED OBVIOUS
  <2> HIDE DEF of, p, W, T
  <2>13. SumFunctionOnSet(g, U) = SumFunctionOnSet(f, {x \in S : k[x] = p}) + SumFunctionOnSet(g, W)
    BY <2>4, <2>9, <2>10
  <2> DEFINE mine == SumFunctionOnSet(f, {x \in S : k[x] = p})
  <2>14. mine \in Int /\ SumFunctionOnSet(f, of(U)) = SumFunctionOnSet(f, of(W)) + mine
    BY <2>7, <2>11
  <2>15. SumFunctionOnSet(g, U) = mine + SumFunctionOnSet(f, of(W))
    BY <2>3, <2>13
  <2> HIDE DEF mine
  <2>16. QED BY <2>11, <2>12, <2>14, <2>15
<1>6. QED BY <1>4, <1>5

(* A sum of differences. *)
LEMMA SumMinus ==
    ASSUME NEW f, NEW g, NEW d, NEW S, IsFiniteSet(S),
           \A x \in S : f[x] \in Int /\ g[x] \in Int /\ d[x] = f[x] - g[x]
    PROVE  SumFunctionOnSet(d, S) = SumFunctionOnSet(f, S) - SumFunctionOnSet(g, S)
<1> DEFINE T == {V \in SUBSET S : SumFunctionOnSet(d, V)
                                    # SumFunctionOnSet(f, V) - SumFunctionOnSet(g, V)}
<1>1. SUFFICES ASSUME T # {} PROVE FALSE
  OBVIOUS
<1>2. PICK U \in T : \A q \in T : q \subseteq U => q = U
  <2>1. T \subseteq SUBSET S
    OBVIOUS
  <2> HIDE DEF T
  <2> QED BY <1>1, <2>1, LeastSet
<1>3. IsFiniteSet(U)
  BY FS_Subset
<1>4. U # {}
  <2>1. /\ SumFunctionOnSet(d, {}) = 0 /\ SumFunctionOnSet(f, {}) = 0
        /\ SumFunctionOnSet(g, {}) = 0
    BY SumEmpty
  <2>2. SumFunctionOnSet(d, {}) = SumFunctionOnSet(f, {}) - SumFunctionOnSet(g, {})
    BY <2>1
  <2>3. SumFunctionOnSet(d, U) # SumFunctionOnSet(f, U) - SumFunctionOnSet(g, U)
    OBVIOUS
  <2> HIDE DEF T
  <2>4. QED BY <2>2, <2>3
<1> DEFINE p == Picked(U)
           W == U \ {p}
<1>5. p \in U
  BY <1>4, PickedIn
<1>6. SumFunctionOnSet(d, W) = SumFunctionOnSet(f, W) - SumFunctionOnSet(g, W)
  <2>1. W \notin T
    BY <1>2, <1>5
  <2> QED BY <2>1
<1>7. /\ SumFunctionOnSet(d, U) = d[p] + SumFunctionOnSet(d, W)
      /\ SumFunctionOnSet(f, U) = f[p] + SumFunctionOnSet(f, W)
      /\ SumFunctionOnSet(g, U) = g[p] + SumFunctionOnSet(g, W)
  BY <1>3, <1>4, SumUnfold
<1>8. /\ f[p] \in Int /\ g[p] \in Int /\ d[p] = f[p] - g[p]
  BY <1>5
<1>9. SumFunctionOnSet(f, W) \in Int /\ SumFunctionOnSet(g, W) \in Int
  <2>1. IsFiniteSet(W)
    BY <1>3, FS_Subset
  <2>2. \A x \in W : f[x] \in Int /\ g[x] \in Int
    OBVIOUS
  <2> HIDE DEF W
  <2> QED BY <2>1, <2>2, SumInt
<1>10. QED
  <2> HIDE DEF p, W
  <2> QED BY <1>2, <1>6, <1>7, <1>8, <1>9

(* What adds nothing may be left out. *)
LEMMA SumSupport ==
    ASSUME NEW f, NEW S, IsFiniteSet(S), \A x \in S : f[x] \in Nat,
           NEW R \in SUBSET S, \A x \in S \ R : f[x] = 0
    PROVE  SumFunctionOnSet(f, R) = SumFunctionOnSet(f, S)
<1>1. IsFiniteSet(R) /\ IsFiniteSet(S \ R) /\ R \subseteq S
  BY FS_Subset
<1>2. SumFunctionOnSet(f, S) = SumFunctionOnSet(f, R) + SumFunctionOnSet(f, S \ R)
  BY SumPart
<1>3. SumFunctionOnSet(f, S \ R) = 0
  BY <1>1, SumZero
<1>4. SumFunctionOnSet(f, R) \in Nat
  BY <1>1, SumNat
<1> QED BY <1>2, <1>3, <1>4

(* Terms of which none is more add up to no more. *)
LEMMA SumBelow ==
    ASSUME NEW f, NEW g, NEW S, IsFiniteSet(S),
           \A x \in S : f[x] \in Nat /\ g[x] \in Nat /\ f[x] <= g[x]
    PROVE  SumFunctionOnSet(f, S) <= SumFunctionOnSet(g, S)
<1> DEFINE d == [x \in S |-> g[x] - f[x]]
<1>1. \A x \in S : g[x] \in Int /\ f[x] \in Int /\ d[x] = g[x] - f[x]
  OBVIOUS
<1>2. \A x \in S : d[x] \in Nat
  OBVIOUS
<1> HIDE DEF d
<1>3. SumFunctionOnSet(d, S) = SumFunctionOnSet(g, S) - SumFunctionOnSet(f, S)
  BY <1>1, SumMinus
<1>4. /\ SumFunctionOnSet(d, S) \in Nat /\ SumFunctionOnSet(g, S) \in Nat
      /\ SumFunctionOnSet(f, S) \in Nat
  BY <1>2, SumNat
<1> QED BY <1>3, <1>4

(* A factor of every term is a factor of the sum. *)
LEMMA SumTimes ==
    ASSUME NEW f, NEW g, NEW c \in Int, NEW S, IsFiniteSet(S),
           \A x \in S : f[x] \in Int /\ g[x] = c * f[x]
    PROVE  SumFunctionOnSet(g, S) = c * SumFunctionOnSet(f, S)
<1> DEFINE T == {V \in SUBSET S : SumFunctionOnSet(g, V) # c * SumFunctionOnSet(f, V)}
<1>1. SUFFICES ASSUME T # {} PROVE FALSE
  OBVIOUS
<1>2. PICK U \in T : \A q \in T : q \subseteq U => q = U
  <2>1. T \subseteq SUBSET S
    OBVIOUS
  <2> HIDE DEF T
  <2> QED BY <1>1, <2>1, LeastSet
<1>3. IsFiniteSet(U)
  BY FS_Subset
<1>4. U # {}
  <2>1. SumFunctionOnSet(g, {}) = 0 /\ SumFunctionOnSet(f, {}) = 0
    BY SumEmpty
  <2>2. SumFunctionOnSet(g, {}) = c * SumFunctionOnSet(f, {})
    BY <2>1
  <2>3. SumFunctionOnSet(g, U) # c * SumFunctionOnSet(f, U)
    OBVIOUS
  <2> HIDE DEF T
  <2>4. QED BY <2>2, <2>3
<1> DEFINE p == Picked(U)
           W == U \ {p}
<1>5. p \in U
  BY <1>4, PickedIn
<1>6. SumFunctionOnSet(g, W) = c * SumFunctionOnSet(f, W)
  <2>1. W \notin T
    BY <1>2, <1>5
  <2> QED BY <2>1
<1>7. /\ SumFunctionOnSet(g, U) = g[p] + SumFunctionOnSet(g, W)
      /\ SumFunctionOnSet(f, U) = f[p] + SumFunctionOnSet(f, W)
  BY <1>3, <1>4, SumUnfold
<1>8. f[p] \in Int /\ g[p] = c * f[p]
  BY <1>5
<1>9. SumFunctionOnSet(f, W) \in Int
  <2>1. IsFiniteSet(W)
    BY <1>3, FS_Subset
  <2>2. \A x \in W : f[x] \in Int
    OBVIOUS
  <2> HIDE DEF W
  <2> QED BY <2>1, <2>2, SumInt
<1>10. SumFunctionOnSet(g, U) # c * SumFunctionOnSet(f, U)
  OBVIOUS
<1>11. QED
  <2> HIDE DEF p, W, T
  <2>1. \A m, n \in Int : c * (m + n) = c * m + c * n
    OBVIOUS
  <2>2. c * SumFunctionOnSet(f, U) = c * f[p] + c * SumFunctionOnSet(f, W)
    BY <1>7, <1>8, <1>9, <2>1
  <2> QED BY <1>6, <1>7, <1>8, <1>10, <2>2

(* As many ones add up to their number. *)
LEMMA SumOnes ==
    ASSUME NEW f, NEW S, IsFiniteSet(S), \A x \in S : f[x] = 1
    PROVE  SumFunctionOnSet(f, S) = Cardinality(S)
<1> DEFINE T == {V \in SUBSET S : SumFunctionOnSet(f, V) # Cardinality(V)}
<1>1. SUFFICES ASSUME T # {} PROVE FALSE
  OBVIOUS
<1>2. PICK U \in T : \A q \in T : q \subseteq U => q = U
  <2>1. T \subseteq SUBSET S
    OBVIOUS
  <2> HIDE DEF T
  <2> QED BY <1>1, <2>1, LeastSet
<1>3. IsFiniteSet(U)
  BY FS_Subset
<1>4. U # {}
  BY <1>2, SumEmpty, FS_EmptySet
<1> DEFINE p == Picked(U)
           W == U \ {p}
<1>5. p \in U
  BY <1>4, PickedIn
<1>6. SumFunctionOnSet(f, W) = Cardinality(W)
  <2>1. W \notin T
    BY <1>2, <1>5
  <2> QED BY <2>1
<1>7. SumFunctionOnSet(f, U) = f[p] + SumFunctionOnSet(f, W)
  BY <1>3, <1>4, SumUnfold
<1>8. Cardinality(W) = Cardinality(U) - 1 /\ Cardinality(U) \in Nat
  BY <1>3, <1>5, FS_RemoveElement, FS_CardinalityType
<1>9. f[p] = 1 /\ SumFunctionOnSet(f, U) # Cardinality(U)
  BY <1>5
<1>10. QED
  <2> HIDE DEF p, W, T
  <2> QED BY <1>6, <1>7, <1>8, <1>9

(* A set of natural numbers has a least one. *)
LEMMA LeastNat ==
  ASSUME NEW T, T \subseteq Nat, T # {}
  PROVE  \E k \in T: \A m \in T: k <= m
<1>1. PICK k \in T: \A m \in T: ~ (<<m, k>> \in OpToRel(<, Nat))
  BY NatLessThanWellFounded, WFMin
<1>2. \A m \in T: ~ (m < k)
  BY <1>1 DEF OpToRel
<1> QED BY <1>2

(* A quotient and its remainder. *)
LEMMA DivisionFacts ==
  ASSUME NEW n \in Nat, NEW d \in Nat \ {0}
  PROVE  /\ n \div d \in Nat
         /\ n % d \in Nat
         /\ n % d < d
         /\ n = d * (n \div d) + (n % d)
BY SMT
=============================================================================

---------------------------- MODULE SumTheorems ----------------------------
(***************************************************************************)
(* Sums of a function over a finite set: SumFunctionOnSet of the module     *)
(* Functions, which the contracts' totals (supply, liquidity, stake, queue, *)
(* votes) are compared with.  Induction over the set is done in first-order *)
(* form: a smallest subset without the property is looked for, by the       *)
(* well-foundedness of the strict subset ordering.                          *)
(***************************************************************************)
EXTENDS Integers, FiniteSets, Functions, FiniteSetTheorems, TLAPS

(* What holds of the empty set and of a set with one more element, of S.    *)
LEMMA FiniteSetInduction ==
    ASSUME NEW S, IsFiniteSet(S), NEW Good, {} \in Good,
           \A T \in SUBSET S : \A x \in S \ T : T \in Good => T \cup {x} \in Good
    PROVE  S \in Good
<1> DEFINE Bad == {T \in SUBSET S : T \notin Good}
<1> SUFFICES ASSUME S \notin Good PROVE FALSE
  OBVIOUS
<1>1. Bad \subseteq FiniteSubsetsOf(S) /\ Bad # {}
  BY FS_FiniteSubsetsOfFinite
<1>2. IsWellFoundedOn(StrictSubsetOrdering(S), FiniteSubsetsOf(S))
  BY FS_StrictSubsetOrderingWellFounded
<1>3. PICK T \in Bad : \A U \in Bad : ~(<<U, T>> \in StrictSubsetOrdering(S))
  <2> HIDE DEF Bad
  <2>1. QED BY <1>1, <1>2, WFMin
<1>4. T # {}  OBVIOUS
<1>5. PICK x \in T : TRUE  BY <1>4
<1> DEFINE U == T \ {x}
<1>6. U \in SUBSET S /\ U \subseteq T /\ U # T  OBVIOUS
<1>7. <<U, T>> \in StrictSubsetOrdering(S)
  BY <1>6 DEF StrictSubsetOrdering
<1>8. U \in Good
  BY <1>3, <1>6, <1>7
<1>9. x \in S \ U /\ U \cup {x} = T  OBVIOUS
<1>10. QED  BY <1>6, <1>8, <1>9

-----------------------------------------------------------------------------
Chosen(s) == CHOOSE x \in s : TRUE

(* What SumFunctionOnSet(f, S) is made of: sums of all subsets of S.        *)
IsSums(f, sums, S) ==
    sums = [s \in SUBSET S |-> IF s = {} THEN 0 ELSE f[Chosen(s)] + sums[s \ {Chosen(s)}]]

(* The element the fold takes out of a set is one of its elements.          *)
LEMMA ChosenIn == ASSUME NEW s, s # {} PROVE Chosen(s) \in s
  BY DEF Chosen

(* The library's definition of the sum, as a recursive function.            *)
LEMMA SumDefined ==
    ASSUME NEW f, NEW S
    PROVE  SumFunctionOnSet(f, S) = (CHOOSE sums : IsSums(f, sums, S))[S]
  BY DEF SumFunctionOnSet, FoldFunctionOnSet, MapThenFoldSet, IsSums, Chosen

(* Its value at a subset.                                                   *)
LEMMA SumsAt ==
    ASSUME NEW f, NEW S, NEW sums, IsSums(f, sums, S), NEW s \in SUBSET S
    PROVE  sums[s] = IF s = {} THEN 0 ELSE f[Chosen(s)] + sums[s \ {Chosen(s)}]
<1> DEFINE Body(g, t) == IF t = {} THEN 0 ELSE f[Chosen(t)] + g[t \ {Chosen(t)}]
<1>1. sums = [t \in SUBSET S |-> Body(sums, t)]  BY DEF IsSums
<1> HIDE DEF Body
<1>2. sums[s] = Body(sums, s) BY <1>1
<1>3. QED BY <1>2 DEF Body

(* There is at most one such function on a set: two of them agree where     *)
(* both are defined.                                                        *)
LEMMA SumsAgree ==
    ASSUME NEW f, NEW S, NEW g, IsSums(f, g, S), NEW T, NEW h, IsSums(f, h, T),
           NEW U \in SUBSET (S \cap T), IsFiniteSet(U)
    PROVE  g[U] = h[U]
<1> DEFINE Bad == {V \in SUBSET U : g[V] # h[V]}
<1> SUFFICES ASSUME U \in Bad PROVE FALSE
  OBVIOUS
<1>1. Bad \subseteq FiniteSubsetsOf(U)
  BY FS_FiniteSubsetsOfFinite
<1>2. PICK V \in Bad : \A W \in Bad : ~(<<W, V>> \in StrictSubsetOrdering(U))
  <2>1. IsWellFoundedOn(StrictSubsetOrdering(U), FiniteSubsetsOf(U))
    BY FS_StrictSubsetOrderingWellFounded
  <2>2. Bad # {} OBVIOUS
  <2> HIDE DEF Bad
  <2>3. QED BY <1>1, <2>1, <2>2, WFMin
<1>3. V \in SUBSET S /\ V \in SUBSET T /\ V \in SUBSET U OBVIOUS
<1>4. V # {}
  <2>1. ASSUME V = {} PROVE g[V] = 0 /\ h[V] = 0  BY <1>3, <2>1, SumsAt
  <2>2. g[V] # h[V]  BY <1>2
  <2>3. QED  BY <2>1, <2>2
<1> DEFINE x == Chosen(V)
           W == V \ {x}
<1>5. x \in V BY <1>4, ChosenIn
<1>6. W \subseteq V /\ W # V /\ W \in SUBSET U  BY <1>5, <1>3
<1>7. <<W, V>> \in StrictSubsetOrdering(U) BY <1>6, <1>3 DEF StrictSubsetOrdering
<1>8. g[W] = h[W] BY <1>2, <1>6, <1>7
<1>9. g[V] = f[x] + g[W] /\ h[V] = f[x] + h[W]
  BY <1>3, <1>4, SumsAt
<1>10. QED  BY <1>2, <1>8, <1>9

(* There is such a function on every finite set.                            *)
LEMMA SumsExist ==
    ASSUME NEW f, NEW S, IsFiniteSet(S)
    PROVE  \E sums : IsSums(f, sums, S)
<1> DEFINE Good == {T \in SUBSET S : \E sums : IsSums(f, sums, T)}
           Bad  == {T \in SUBSET S : T \notin Good}
<1> SUFFICES ASSUME S \in Bad PROVE FALSE
  OBVIOUS
<1>1. PICK T \in Bad : \A W \in Bad : ~(<<W, T>> \in StrictSubsetOrdering(S))
  <2>1. IsWellFoundedOn(StrictSubsetOrdering(S), FiniteSubsetsOf(S))
    BY FS_StrictSubsetOrderingWellFounded
  <2>2. Bad # {} OBVIOUS
  <2>3. Bad \subseteq FiniteSubsetsOf(S)
    BY FS_FiniteSubsetsOfFinite
  <2> HIDE DEF Bad
  <2>4. QED BY <2>1, <2>2, <2>3, WFMin
<1> DEFINE G(U) == CHOOSE sums : IsSums(f, sums, U)
           h == [s \in SUBSET T |->
                   IF s = {} THEN 0
                   ELSE f[Chosen(s)] + G(s \ {Chosen(s)})[s \ {Chosen(s)}]]
<1>2. ASSUME NEW U \in SUBSET T, U # T PROVE IsSums(f, G(U), U) /\ IsFiniteSet(U)
  <2>1. U \in SUBSET S /\ <<U, T>> \in StrictSubsetOrdering(S)
    BY <1>2 DEF StrictSubsetOrdering
  <2>2. U \in Good BY <1>1, <2>1
  <2>3. IsFiniteSet(U) BY <2>1, FS_Subset
  <2>4. QED BY <2>2, <2>3
<1>3. ASSUME NEW s \in SUBSET T, s # {}
      PROVE  h[s \ {Chosen(s)}] = G(s \ {Chosen(s)})[s \ {Chosen(s)}]
  <2> DEFINE u == s \ {Chosen(s)}
             v == u \ {Chosen(u)}
  <2>1. Chosen(s) \in s BY <1>3, ChosenIn
  <2>2. u \in SUBSET T /\ u # T  BY <2>1
  <2>3. IsSums(f, G(u), u) /\ IsFiniteSet(u) BY <1>2, <2>2
  <2>4. G(u)[u] = IF u = {} THEN 0 ELSE f[Chosen(u)] + G(u)[v]
    <3> HIDE DEF G, u
    <3>1. u \in SUBSET u OBVIOUS
    <3>2. QED BY <2>3, <3>1, SumsAt
  <2>5. h[u] = IF u = {} THEN 0 ELSE f[Chosen(u)] + G(v)[v]
    <3> HIDE DEF G, u
    <3>1. QED BY <2>2
  <2>6. CASE u = {}  BY <2>4, <2>5, <2>6
  <2>7. CASE u # {}
    <3>1. Chosen(u) \in u BY <2>7, ChosenIn
    <3>2. v \in SUBSET T /\ v # T /\ v \in SUBSET (u \cap v) BY <2>2, <3>1
    <3>3. IsSums(f, G(v), v) /\ IsFiniteSet(v) BY <1>2, <3>2
    <3>4. G(u)[v] = G(v)[v]
      <4> HIDE DEF G, u, v
      <4>1. QED BY <2>3, <3>2, <3>3, SumsAgree
    <3>5. QED BY <2>4, <2>5, <2>7, <3>4
  <2>8. QED BY <2>6, <2>7
<1>4. IsSums(f, h, T)
  <2>1. ASSUME NEW s \in SUBSET T
        PROVE  h[s] = IF s = {} THEN 0 ELSE f[Chosen(s)] + h[s \ {Chosen(s)}]
    <3>1. h[s] = IF s = {} THEN 0
                 ELSE f[Chosen(s)] + G(s \ {Chosen(s)})[s \ {Chosen(s)}]
      <4> HIDE DEF G
      <4>1. QED OBVIOUS
    <3> HIDE DEF h, G
    <3>2. QED BY <3>1, <1>3
  <2>2. h = [s \in SUBSET T |-> h[s]] OBVIOUS
  <2> HIDE DEF h
  <2>3. QED BY <2>1, <2>2 DEF IsSums
<1>5. QED BY <1>1, <1>4

(* The sum over a finite set: none, or any one of it and the others.        *)
LEMMA SumStep ==
    ASSUME NEW f, NEW S, IsFiniteSet(S)
    PROVE  SumFunctionOnSet(f, S) =
              IF S = {} THEN 0 ELSE f[Chosen(S)] + SumFunctionOnSet(f, S \ {Chosen(S)})
<1> DEFINE G(U) == CHOOSE sums : IsSums(f, sums, U)
           U == S \ {Chosen(S)}
<1>1. IsFiniteSet(U) BY FS_RemoveElement
<1>2. IsSums(f, G(S), S) /\ IsSums(f, G(U), U)
  BY <1>1, SumsExist
<1>3. SumFunctionOnSet(f, S) = G(S)[S] /\ SumFunctionOnSet(f, U) = G(U)[U]
  BY SumDefined
<1> HIDE DEF G
<1>4. G(S)[S] = IF S = {} THEN 0 ELSE f[Chosen(S)] + G(S)[U]
  BY <1>2, SumsAt, S \in SUBSET S
<1>5. G(S)[U] = G(U)[U]
  <2>1. U \in SUBSET (S \cap U) OBVIOUS
  <2> HIDE DEF U
  <2>2. QED BY <1>1, <1>2, <2>1, SumsAgree
<1>6. QED BY <1>3, <1>4, <1>5

(* The sum of nothing.                                                      *)
LEMMA SumEmpty == ASSUME NEW f PROVE SumFunctionOnSet(f, {}) = 0
  BY SumStep, FS_EmptySet

(* The sum is an integer, and any one term can be taken out of it.          *)
LEMMA SumRemove ==
    ASSUME NEW f, NEW S, IsFiniteSet(S), \A x \in S : f[x] \in Int
    PROVE  /\ SumFunctionOnSet(f, S) \in Int
           /\ \A a \in S : SumFunctionOnSet(f, S) = f[a] + SumFunctionOnSet(f, S \ {a})
<1> DEFINE Sum(T) == SumFunctionOnSet(f, T)
           Right(T) == /\ Sum(T) \in Int
                       /\ \A a \in T : Sum(T) = f[a] + Sum(T \ {a})
           Bad == {T \in SUBSET S : ~Right(T)}
<1> SUFFICES ASSUME S \in Bad PROVE FALSE
  OBVIOUS
<1>1. PICK T \in Bad : \A W \in Bad : ~(<<W, T>> \in StrictSubsetOrdering(S))
  <2>1. IsWellFoundedOn(StrictSubsetOrdering(S), FiniteSubsetsOf(S))
    BY FS_StrictSubsetOrderingWellFounded
  <2>2. Bad # {} OBVIOUS
  <2>3. Bad \subseteq FiniteSubsetsOf(S)
    BY FS_FiniteSubsetsOfFinite
  <2> HIDE DEF Bad
  <2>4. QED BY <2>1, <2>2, <2>3, WFMin
<1>2. ASSUME NEW U \in SUBSET T, U # T PROVE Right(U)
  <2>1. U \in SUBSET S /\ <<U, T>> \in StrictSubsetOrdering(S)
    BY <1>2 DEF StrictSubsetOrdering
  <2>2. QED BY <1>1, <2>1
<1> DEFINE y == Chosen(T)
<1>3. IsFiniteSet(T) BY FS_Subset
<1>4. Sum(T) = IF T = {} THEN 0 ELSE f[y] + Sum(T \ {y})  BY <1>3, SumStep
<1> HIDE DEF Sum
<1>5. T # {}
  <2>1. ASSUME T = {} PROVE Right(T)  BY <1>4, <2>1
  <2>2. QED  BY <1>1, <2>1
<1>6. y \in T BY <1>5, ChosenIn
<1> HIDE DEF y
<1>7. f[y] \in Int /\ Sum(T \ {y}) \in Int
  <2>1. T \ {y} \in SUBSET T /\ T \ {y} # T  BY <1>6
  <2>2. Right(T \ {y})  BY <1>2, <2>1
  <2>3. QED  BY <2>2, <1>6
<1>8. ASSUME NEW a \in T, a # y PROVE Sum(T) = f[a] + Sum(T \ {a})
  <2> DEFINE R == (T \ {y}) \ {a}
  <2>1. Right(T \ {y}) /\ Right(T \ {a}) /\ Right(R)
    <3>1. T \ {y} \in SUBSET T /\ T \ {y} # T /\ T \ {a} \in SUBSET T /\ T \ {a} # T
      BY <1>6
    <3>2. R \in SUBSET T /\ R # T  BY <1>6
    <3> HIDE DEF Right
    <3>3. QED  BY <1>2, <3>1, <3>2
  <2>2. a \in T \ {y} /\ y \in T \ {a} /\ (T \ {a}) \ {y} = R  BY <1>6, <1>8
  <2>3. Sum(T \ {y}) = f[a] + Sum(R) /\ Sum(T \ {a}) = f[y] + Sum(R) /\ Sum(R) \in Int
    BY <2>1, <2>2
  <2>4. Sum(T) = f[y] + Sum(T \ {y})  BY <1>4, <1>5
  <2>5. f[a] \in Int  OBVIOUS
  <2> HIDE DEF R
  <2>6. QED  BY <1>7, <2>3, <2>4, <2>5
<1>9. Right(T)
  <2>1. Sum(T) \in Int  BY <1>4, <1>5, <1>7
  <2>2. \A a \in T : Sum(T) = f[a] + Sum(T \ {a})  BY <1>4, <1>5, <1>8
  <2>3. QED  BY <2>1, <2>2
<1>10. QED BY <1>1, <1>9

(* One more term.                                                           *)
LEMMA SumAdd ==
    ASSUME NEW f, NEW S, IsFiniteSet(S), NEW a, a \notin S,
           f[a] \in Int, \A x \in S : f[x] \in Int
    PROVE  SumFunctionOnSet(f, S \cup {a}) = f[a] + SumFunctionOnSet(f, S)
<1>1. IsFiniteSet(S \cup {a})  BY FS_AddElement
<1>2. (S \cup {a}) \ {a} = S  OBVIOUS
<1>3. a \in S \cup {a} /\ \A x \in S \cup {a} : f[x] \in Int  OBVIOUS
<1> DEFINE T == S \cup {a}
<1> HIDE DEF T
<1>4. SumFunctionOnSet(f, T) = f[a] + SumFunctionOnSet(f, T \ {a})
  BY <1>1, <1>3, SumRemove DEF T
<1>5. QED  BY <1>2, <1>4 DEF T

(* Functions that agree on a set have the same sum over it.                 *)
LEMMA SumSame ==
    ASSUME NEW f, NEW g, NEW S, IsFiniteSet(S), \A x \in S : f[x] \in Int /\ g[x] = f[x]
    PROVE  SumFunctionOnSet(g, S) = SumFunctionOnSet(f, S)
<1> DEFINE Good == {T \in SUBSET S : SumFunctionOnSet(g, T) = SumFunctionOnSet(f, T)}
<1>1. {} \in Good  BY SumEmpty
<1>2. ASSUME NEW T \in SUBSET S, NEW x \in S \ T, T \in Good PROVE T \cup {x} \in Good
  <2>1. IsFiniteSet(T)  BY FS_Subset
  <2>2. SumFunctionOnSet(f, T \cup {x}) = f[x] + SumFunctionOnSet(f, T)
    BY <2>1, SumAdd
  <2>3. SumFunctionOnSet(g, T \cup {x}) = g[x] + SumFunctionOnSet(g, T)
    BY <2>1, SumAdd
  <2>4. QED  BY <1>2, <2>2, <2>3
<1>3. S \in Good
  <2> HIDE DEF Good
  <2>1. QED  BY <1>1, <1>2, FiniteSetInduction
<1>4. QED  BY <1>3

(* One term changes, the sum changes by as much.                            *)
LEMMA SumChange ==
    ASSUME NEW f, NEW g, NEW S, IsFiniteSet(S), NEW a \in S,
           \A x \in S : f[x] \in Int /\ g[x] \in Int,
           \A x \in S \ {a} : g[x] = f[x]
    PROVE  SumFunctionOnSet(g, S) = SumFunctionOnSet(f, S) + (g[a] - f[a])
<1> DEFINE T == S \ {a}
<1>1. IsFiniteSet(T)  BY FS_RemoveElement
<1>2. SumFunctionOnSet(g, T) = SumFunctionOnSet(f, T) /\ SumFunctionOnSet(f, T) \in Int
  <2>1. \A x \in T : f[x] \in Int /\ g[x] = f[x]  OBVIOUS
  <2> HIDE DEF T
  <2>2. QED  BY <1>1, <2>1, SumSame, SumRemove
<1>3. SumFunctionOnSet(g, S) = g[a] + SumFunctionOnSet(g, T)  BY SumRemove
<1>4. SumFunctionOnSet(f, S) = f[a] + SumFunctionOnSet(f, T)  BY SumRemove
<1>5. f[a] \in Int /\ g[a] \in Int  OBVIOUS
<1> HIDE DEF T
<1>6. QED  BY <1>2, <1>3, <1>4, <1>5

(* Sums of natural numbers are natural numbers.                             *)
LEMMA SumNat ==
    ASSUME NEW f, NEW S, IsFiniteSet(S), \A x \in S : f[x] \in Nat
    PROVE  SumFunctionOnSet(f, S) \in Nat
<1> DEFINE Good == {T \in SUBSET S : SumFunctionOnSet(f, T) \in Nat}
<1>1. {} \in Good  BY SumEmpty
<1>2. ASSUME NEW T \in SUBSET S, NEW x \in S \ T, T \in Good PROVE T \cup {x} \in Good
  <2>1. IsFiniteSet(T)  BY FS_Subset
  <2>2. SumFunctionOnSet(f, T \cup {x}) = f[x] + SumFunctionOnSet(f, T)
    BY <2>1, SumAdd
  <2>3. QED  BY <1>2, <2>2
<1>3. S \in Good
  <2> HIDE DEF Good
  <2>1. QED  BY <1>1, <1>2, FiniteSetInduction
<1>4. QED  BY <1>3

(* No term is more than the sum.                                            *)
LEMMA SumMember ==
    ASSUME NEW f, NEW S, IsFiniteSet(S), \A x \in S : f[x] \in Nat, NEW a \in S
    PROVE  f[a] <= SumFunctionOnSet(f, S)
<1>1. SumFunctionOnSet(f, S) = f[a] + SumFunctionOnSet(f, S \ {a})  BY SumRemove
<1>2. IsFiniteSet(S \ {a})  BY FS_RemoveElement
<1>3. SumFunctionOnSet(f, S \ {a}) \in Nat  BY <1>2, SumNat
<1>4. QED  BY <1>1, <1>3

(* The sum of zeros.                                                        *)
LEMMA SumZero ==
    ASSUME NEW f, NEW S, IsFiniteSet(S), \A x \in S : f[x] = 0
    PROVE  SumFunctionOnSet(f, S) = 0
<1> DEFINE Good == {T \in SUBSET S : SumFunctionOnSet(f, T) = 0}
<1>1. {} \in Good  BY SumEmpty
<1>2. ASSUME NEW T \in SUBSET S, NEW x \in S \ T, T \in Good PROVE T \cup {x} \in Good
  <2>1. IsFiniteSet(T)  BY FS_Subset
  <2>2. SumFunctionOnSet(f, T \cup {x}) = f[x] + SumFunctionOnSet(f, T)
    BY <2>1, SumAdd
  <2>3. QED  BY <1>2, <2>2
<1>3. S \in Good
  <2> HIDE DEF Good
  <2>1. QED  BY <1>1, <1>2, FiniteSetInduction
<1>4. QED  BY <1>3

(* The sum over two sets that share no element.                             *)
LEMMA SumUnion ==
    ASSUME NEW f, NEW S, IsFiniteSet(S), \A x \in S : f[x] \in Int,
           NEW D, IsFiniteSet(D), \A x \in D : f[x] \in Int, S \cap D = {}
    PROVE  SumFunctionOnSet(f, S \cup D) = SumFunctionOnSet(f, S) + SumFunctionOnSet(f, D)
<1> DEFINE Good == {T \in SUBSET S :
                      SumFunctionOnSet(f, T \cup D) = SumFunctionOnSet(f, T) + SumFunctionOnSet(f, D)}
<1>0. SumFunctionOnSet(f, D) \in Int  BY SumRemove
<1>1. {} \in Good
  <2>1. {} \cup D = D  OBVIOUS
  <2>2. QED  BY <1>0, <2>1, SumEmpty
<1>2. ASSUME NEW T \in SUBSET S, NEW x \in S \ T, T \in Good PROVE T \cup {x} \in Good
  <2>1. IsFiniteSet(T) /\ IsFiniteSet(T \cup D)  BY FS_Subset, FS_Union
  <2>2. SumFunctionOnSet(f, T \cup {x}) = f[x] + SumFunctionOnSet(f, T)
    BY <2>1, SumAdd
  <2>3. x \notin T \cup D /\ (T \cup {x}) \cup D = (T \cup D) \cup {x}  OBVIOUS
  <2>4. SumFunctionOnSet(f, (T \cup D) \cup {x}) = f[x] + SumFunctionOnSet(f, T \cup D)
    BY <2>1, <2>3, SumAdd
  <2>5. SumFunctionOnSet(f, T) \in Int /\ f[x] \in Int
    BY <2>1, SumRemove
  <2>6. SumFunctionOnSet(f, T \cup D) = SumFunctionOnSet(f, T) + SumFunctionOnSet(f, D)
    BY <1>2
  <2>7. SumFunctionOnSet(f, (T \cup {x}) \cup D) = f[x] + SumFunctionOnSet(f, T \cup D)
    BY <2>3, <2>4
  <2>8. f[x] + SumFunctionOnSet(f, T \cup D)
            = SumFunctionOnSet(f, T \cup {x}) + SumFunctionOnSet(f, D)
    BY <1>0, <2>2, <2>5, <2>6
  <2>9. SumFunctionOnSet(f, (T \cup {x}) \cup D)
            = SumFunctionOnSet(f, T \cup {x}) + SumFunctionOnSet(f, D)
    BY <2>7, <2>8
  <2>10. T \cup {x} \in SUBSET S  OBVIOUS
  <2>11. QED  BY <2>9, <2>10
<1>3. S \in Good
  <2> HIDE DEF Good
  <2>1. QED  BY <1>1, <1>2, FiniteSetInduction
<1>4. QED  BY <1>3

(* What one loses another gets.                                             *)
LEMMA SumMove ==
    ASSUME NEW f, NEW g, NEW S, IsFiniteSet(S), NEW a \in S, NEW b \in S, a # b,
           \A x \in S : f[x] \in Int /\ g[x] \in Int,
           \A x \in S \ {a, b} : g[x] = f[x],
           NEW d \in Int, g[a] = f[a] - d, g[b] = f[b] + d
    PROVE  SumFunctionOnSet(g, S) = SumFunctionOnSet(f, S)
<1> DEFINE T == S \ {a}
           R == T \ {b}
<1>1. IsFiniteSet(T) /\ IsFiniteSet(R)  BY FS_RemoveElement
<1>2. b \in T /\ \A x \in T : x \in S  OBVIOUS
<1>3. SumFunctionOnSet(g, R) = SumFunctionOnSet(f, R) /\ SumFunctionOnSet(f, R) \in Int
  <2>1. \A x \in R : f[x] \in Int /\ g[x] = f[x]  OBVIOUS
  <2> HIDE DEF R
  <2>2. QED  BY <1>1, <2>1, SumSame, SumRemove
<1>4. /\ SumFunctionOnSet(g, S) = g[a] + SumFunctionOnSet(g, T)
      /\ SumFunctionOnSet(f, S) = f[a] + SumFunctionOnSet(f, T)
  BY SumRemove
<1>5. /\ SumFunctionOnSet(g, T) = g[b] + SumFunctionOnSet(g, R)
      /\ SumFunctionOnSet(f, T) = f[b] + SumFunctionOnSet(f, R)
  <2> HIDE DEF T
  <2>1. QED  BY <1>1, <1>2, SumRemove
<1>6. f[a] \in Int /\ g[a] \in Int /\ f[b] \in Int /\ g[b] \in Int  OBVIOUS
<1> HIDE DEF R, T
<1>7. QED  BY <1>3, <1>4, <1>5, <1>6

(* The same for many pairs at once: what each of A loses its own one of B   *)
(* gets.                                                                    *)
PairedOff(A, B, partner) ==
    /\ A \cap B = {}
    /\ partner \in [A -> B]
    /\ \A x, y \in A : partner[x] = partner[y] => x = y
    /\ \A z \in B : \E x \in A : partner[x] = z

LEMMA SumPairs ==
    ASSUME NEW f, NEW g, NEW S, IsFiniteSet(S), NEW A \in SUBSET S, NEW B \in SUBSET S,
           NEW partner, PairedOff(A, B, partner),
           \A x \in S : f[x] \in Int /\ g[x] \in Int,
           \A x \in S \ (A \cup B) : g[x] = f[x],
           \A x \in A : g[x] + g[partner[x]] = f[x] + f[partner[x]]
    PROVE  SumFunctionOnSet(g, S) = SumFunctionOnSet(f, S)
<1> DEFINE Of(T) == T \cup {partner[x] : x \in T}
           Good == {T \in SUBSET A : SumFunctionOnSet(g, Of(T)) = SumFunctionOnSet(f, Of(T))}
<1>0. /\ A \cap B = {} /\ partner \in [A -> B]
      /\ \A x, y \in A : partner[x] = partner[y] => x = y
      /\ \A z \in B : \E x \in A : partner[x] = z
  BY DEF PairedOff
<1>1. IsFiniteSet(A)  BY FS_Subset
<1>2. {} \in Good
  <2>1. Of({}) = {}  OBVIOUS
  <2>2. QED  BY <2>1, SumEmpty
<1>3. ASSUME NEW T \in SUBSET A, NEW x \in A \ T, T \in Good PROVE T \cup {x} \in Good
  <2> DEFINE y == partner[x]
             U == Of(T)
             V == U \cup {y}
  <2>1. U \in SUBSET S /\ y \in S /\ x \in S /\ x # y  BY <1>0
  <2>2. x \notin V /\ y \notin U  BY <1>0
  <2>3. Of(T \cup {x}) = V \cup {x}  OBVIOUS
  <2>4. IsFiniteSet(U) /\ IsFiniteSet(V)  BY <2>1, FS_Subset, FS_AddElement
  <2>5. SumFunctionOnSet(g, U) = SumFunctionOnSet(f, U)  BY <1>3
  <2>6. g[x] + g[y] = f[x] + f[y]  OBVIOUS
  <2>7. V \in SUBSET S  BY <2>1
  <2> HIDE DEF U, y
  <2>8. /\ SumFunctionOnSet(g, V) = g[y] + SumFunctionOnSet(g, U)
        /\ SumFunctionOnSet(f, V) = f[y] + SumFunctionOnSet(f, U)
    BY <2>1, <2>2, <2>4, SumAdd
  <2> HIDE DEF V
  <2>9. /\ SumFunctionOnSet(g, V \cup {x}) = g[x] + SumFunctionOnSet(g, V)
        /\ SumFunctionOnSet(f, V \cup {x}) = f[x] + SumFunctionOnSet(f, V)
    BY <2>1, <2>2, <2>4, <2>7, SumAdd
  <2>10. /\ f[x] \in Int /\ g[x] \in Int /\ f[y] \in Int /\ g[y] \in Int
         /\ SumFunctionOnSet(f, U) \in Int
    BY <2>1, <2>4, SumRemove
  <2>11. SumFunctionOnSet(g, V \cup {x}) = SumFunctionOnSet(f, V \cup {x})
    BY <2>5, <2>6, <2>8, <2>9, <2>10
  <2>12. T \cup {x} \in SUBSET A  OBVIOUS
  <2> HIDE DEF Of
  <2>13. QED  BY <2>3, <2>11, <2>12
<1>4. A \in Good
  <2> HIDE DEF Good
  <2>1. QED  BY <1>1, <1>2, <1>3, FiniteSetInduction
<1> DEFINE D == A \cup B
           R == S \ D
<1>5. SumFunctionOnSet(g, D) = SumFunctionOnSet(f, D)
  <2>1. Of(A) = D  BY <1>0
  <2>2. QED  BY <1>4, <2>1
<1>6. IsFiniteSet(D) /\ IsFiniteSet(R) /\ D \cap R = {} /\ D \cup R = S
  BY FS_Subset
<1>7. /\ \A x \in D : f[x] \in Int /\ g[x] \in Int
      /\ \A x \in R : f[x] \in Int /\ g[x] \in Int /\ g[x] = f[x]
  OBVIOUS
<1> HIDE DEF D, R
<1>8. SumFunctionOnSet(g, R) = SumFunctionOnSet(f, R)  BY <1>6, <1>7, SumSame
<1>9. /\ SumFunctionOnSet(g, D \cup R) = SumFunctionOnSet(g, D) + SumFunctionOnSet(g, R)
      /\ SumFunctionOnSet(f, D \cup R) = SumFunctionOnSet(f, D) + SumFunctionOnSet(f, R)
  BY <1>6, <1>7, SumUnion
<1>10. QED  BY <1>5, <1>6, <1>8, <1>9

(* The sum of the sums.                                                     *)
LEMMA SumPlus ==
    ASSUME NEW f, NEW g, NEW h, NEW S, IsFiniteSet(S),
           \A x \in S : f[x] \in Int /\ g[x] \in Int /\ h[x] = f[x] + g[x]
    PROVE  SumFunctionOnSet(h, S) = SumFunctionOnSet(f, S) + SumFunctionOnSet(g, S)
<1> DEFINE Good == {T \in SUBSET S :
              SumFunctionOnSet(h, T) = SumFunctionOnSet(f, T) + SumFunctionOnSet(g, T)}
<1>1. {} \in Good  BY SumEmpty
<1>2. ASSUME NEW T \in SUBSET S, NEW x \in S \ T, T \in Good PROVE T \cup {x} \in Good
  <2>1. IsFiniteSet(T)  BY FS_Subset
  <2>2. /\ SumFunctionOnSet(f, T \cup {x}) = f[x] + SumFunctionOnSet(f, T)
        /\ SumFunctionOnSet(g, T \cup {x}) = g[x] + SumFunctionOnSet(g, T)
        /\ SumFunctionOnSet(h, T \cup {x}) = h[x] + SumFunctionOnSet(h, T)
    BY <2>1, SumAdd
  <2>3. SumFunctionOnSet(f, T) \in Int /\ SumFunctionOnSet(g, T) \in Int
    BY <2>1, SumRemove
  <2>4. SumFunctionOnSet(h, T) = SumFunctionOnSet(f, T) + SumFunctionOnSet(g, T)
    BY <1>2
  <2>5. f[x] \in Int /\ g[x] \in Int /\ h[x] = f[x] + g[x]  OBVIOUS
  <2>6. SumFunctionOnSet(h, T \cup {x})
            = SumFunctionOnSet(f, T \cup {x}) + SumFunctionOnSet(g, T \cup {x})
    BY <2>2, <2>3, <2>4, <2>5
  <2>7. QED  BY <2>6
<1>3. S \in Good
  <2> HIDE DEF Good
  <2>1. QED  BY <1>1, <1>2, FiniteSetInduction
<1>4. QED  BY <1>3

(* Parts that are each within their share of k for t are so together.       *)
LEMMA SumScaled ==
    ASSUME NEW f, NEW g, NEW S, IsFiniteSet(S), NEW k \in Nat, NEW t \in Nat,
           \A x \in S : f[x] \in Nat /\ g[x] \in Nat /\ g[x] * t <= f[x] * k
    PROVE  SumFunctionOnSet(g, S) * t <= SumFunctionOnSet(f, S) * k
<1> DEFINE Good == {T \in SUBSET S :
              SumFunctionOnSet(g, T) * t <= SumFunctionOnSet(f, T) * k}
<1>1. {} \in Good  BY SumEmpty
<1>2. ASSUME NEW T \in SUBSET S, NEW x \in S \ T, T \in Good PROVE T \cup {x} \in Good
  <2> DEFINE a == SumFunctionOnSet(f, T)
             b == SumFunctionOnSet(g, T)
             c == f[x]
             d == g[x]
  <2>1. IsFiniteSet(T)  BY FS_Subset
  <2>2. /\ SumFunctionOnSet(f, T \cup {x}) = c + a
        /\ SumFunctionOnSet(g, T \cup {x}) = d + b
    BY <2>1, SumAdd
  <2>3. a \in Nat /\ b \in Nat  BY <2>1, SumNat
  <2>4. b * t <= a * k  BY <1>2
  <2>5. c \in Nat /\ d \in Nat /\ d * t <= c * k  OBVIOUS
  <2> HIDE DEF a, b, c, d
  <2>6. (c + a) * k = c * k + a * k /\ (d + b) * t = d * t + b * t  BY <2>3, <2>5
  <2>7. a * k \in Nat /\ b * t \in Nat /\ c * k \in Nat /\ d * t \in Nat
    BY <2>3, <2>5
  <2>8. (d + b) * t <= (c + a) * k  BY <2>4, <2>5, <2>6, <2>7
  <2>9. QED  BY <2>2, <2>8
<1>3. S \in Good
  <2> HIDE DEF Good
  <2>1. QED  BY <1>1, <1>2, FiniteSetInduction
<1>4. QED  BY <1>3

(* As many ones as there are elements.                                      *)
LEMMA SumOnes ==
    ASSUME NEW f, NEW S, IsFiniteSet(S), \A x \in S : f[x] = 1
    PROVE  SumFunctionOnSet(f, S) = Cardinality(S)
<1> DEFINE Good == {T \in SUBSET S : SumFunctionOnSet(f, T) = Cardinality(T)}
<1>1. {} \in Good  BY SumEmpty, FS_EmptySet
<1>2. ASSUME NEW T \in SUBSET S, NEW x \in S \ T, T \in Good PROVE T \cup {x} \in Good
  <2>1. IsFiniteSet(T)  BY FS_Subset
  <2>2. SumFunctionOnSet(f, T \cup {x}) = f[x] + SumFunctionOnSet(f, T)
    BY <2>1, SumAdd
  <2>3. Cardinality(T \cup {x}) = Cardinality(T) + 1 /\ Cardinality(T) \in Nat
    BY <2>1, FS_AddElement, FS_CardinalityType
  <2>4. f[x] = 1 /\ SumFunctionOnSet(f, T) = Cardinality(T)  BY <1>2
  <2>5. SumFunctionOnSet(f, T \cup {x}) = Cardinality(T \cup {x})
    BY <2>2, <2>3, <2>4
  <2>6. QED  BY <2>5
<1>3. S \in Good
  <2> HIDE DEF Good
  <2>1. QED  BY <1>1, <1>2, FiniteSetInduction
<1>4. QED  BY <1>3
=============================================================================

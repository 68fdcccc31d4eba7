-------------------------------- MODULE Facts --------------------------------
(***************************************************************************)
(* What the proofs need about least and greatest elements, about folds     *)
(* over finite sets (sums, products, sequences) and sums over a sequence,  *)
(* about the elements of a sequence that are kept when others are removed, *)
(* and about numbers in a mixed radix.  A fold is a recursive function     *)
(* over the subsets; what it computes is shown by looking at a smallest    *)
(* set for which it fails, there being one because strict inclusion of     *)
(* finite sets is well founded.                                            *)
(***************************************************************************)
EXTENDS Integers, FiniteSets, FiniteSetsExt, FiniteSetTheorems,
        WellFoundedInduction, SequencesExt, SequenceTheorems, TLAPS

-----------------------------------------------------------------------------
(* Among finite sets there is a smallest one of any kind.                  *)
LEMMA SmallestSet ==
  ASSUME NEW S, NEW K, K \subseteq FiniteSubsetsOf(S), K # {}
  PROVE  \E s \in K : \A t \in K : t \subseteq s => t = s
PROOF
  <1>1. IsWellFoundedOn(StrictSubsetOrdering(S), FiniteSubsetsOf(S))
    BY FS_StrictSubsetOrderingWellFounded
  <1>2. PICK s \in K : \A t \in K : <<t, s>> \notin StrictSubsetOrdering(S)
    BY <1>1, WFMin
  <1>3. \A t \in K : t \in SUBSET S /\ s \in SUBSET S
    BY DEF FiniteSubsetsOf
  <1>4. ASSUME NEW t \in K, t \subseteq s
        PROVE  t = s
    <2>1. <<t, s>> \in (SUBSET S) \X (SUBSET S)
      BY <1>3, <1>4
    <2> QED
      BY <1>2, <1>4, <2>1 DEF StrictSubsetOrdering
  <1> QED
    BY <1>4

(* A finite set of integers that is not empty has a least and a greatest   *)
(* element, which Min and Max are.                                         *)
LEMMA LeastGreatest ==
  ASSUME NEW S \in SUBSET Int, IsFiniteSet(S), S # {}
  PROVE  /\ Min(S) \in S /\ \A y \in S : Min(S) <= y
         /\ Max(S) \in S /\ \A y \in S : Max(S) >= y
PROOF
  <1> DEFINE Has(s) == /\ \E x \in s : \A y \in s : x <= y
                       /\ \E x \in s : \A y \in s : x >= y
             K == {s \in FiniteSubsetsOf(Int) : s # {} /\ ~ Has(s)}
  <1>1. K = {}
    <2>1. SUFFICES ASSUME K # {} PROVE FALSE
      OBVIOUS
    <2>2. PICK s \in K : \A t \in K : t \subseteq s => t = s
      <3>1. K \subseteq FiniteSubsetsOf(Int)
        OBVIOUS
      <3> HIDE DEF K
      <3> QED
        BY <2>1, <3>1, SmallestSet
    <2>3. PICK x \in s : TRUE
      OBVIOUS
    <2> DEFINE t == s \ {x}
    <2>4. s \in SUBSET Int /\ IsFiniteSet(s)
      BY DEF FiniteSubsetsOf
    <2>5. IsFiniteSet(t) /\ t \in SUBSET Int /\ t # s /\ t \subseteq s
      BY <2>3, <2>4, FS_RemoveElement
    <2>6. t \notin K
      BY <2>2, <2>5
    <2>7. t = {} \/ Has(t)
      BY <2>5, <2>6 DEF FiniteSubsetsOf
    <2>8. Has(s)
      <3>1. CASE t = {}
        <4>1. s = {x}
          BY <3>1
        <4> QED
          BY <2>4, <4>1
      <3>2. CASE Has(t)
        <4>1. PICK a \in t : \A y \in t : a <= y
          BY <3>2
        <4>2. PICK b \in t : \A y \in t : b >= y
          BY <3>2
        <4>3. a \in Int /\ b \in Int /\ x \in Int /\ s = t \cup {x}
          BY <2>4
        <4>4. \E m \in s : \A y \in s : m <= y
          <5>1. CASE a <= x
            BY <4>1, <4>3, <5>1
          <5>2. CASE ~ a <= x
            <6>1. \A y \in s : x <= y
              BY <4>1, <4>3, <5>2, <2>4
            <6> QED
              BY <6>1, <4>3
          <5> QED
            BY <5>1, <5>2
        <4>5. \E m \in s : \A y \in s : m >= y
          <5>1. CASE b >= x
            BY <4>2, <4>3, <5>1
          <5>2. CASE ~ b >= x
            <6>1. \A y \in s : x >= y
              BY <4>2, <4>3, <5>2, <2>4
            <6> QED
              BY <6>1, <4>3
          <5> QED
            BY <5>1, <5>2
        <4> QED
          BY <4>4, <4>5
      <3> QED
        BY <2>7, <3>1, <3>2
    <2> QED
      BY <2>8
  <1>2. Has(S)
    BY <1>1 DEF FiniteSubsetsOf
  <1> QED
    BY <1>2 DEF Min, Max

-----------------------------------------------------------------------------
(* Sums and products.                                                      *)

Pick(s) == CHOOSE x \in s : TRUE

(* g folds w over every subset of S, one element after the other, from     *)
(* o[2] on: it sums up, it multiplies, or it appends what is not there.    *)
Base(o) == o[2]
Joined(o, a, b) ==
  IF o[1] = "sum" THEN a + b
  ELSE IF o[1] = "product" THEN a * b
  ELSE IF Contains(b, a) THEN b ELSE Append(b, a)

FoldsUp(o, g, w, S) ==
  g = [s \in SUBSET S |-> IF s = {} THEN Base(o) ELSE Joined(o, w[Pick(s)], g[s \ {Pick(s)}])]

SumsUp(g, w, S) ==
  g = [s \in SUBSET S |-> IF s = {} THEN 0 ELSE w[Pick(s)] + g[s \ {Pick(s)}]]

SumOver(w, S) == MapThenSumSet(LAMBDA x : w[x], S)

Multiplies(g, w, S) ==
  g = [s \in SUBSET S |-> IF s = {} THEN 1 ELSE w[Pick(s)] * g[s \ {Pick(s)}]]

ProductOver(w, S) == FoldFunctionOnSet(LAMBDA n, m : n * m, 1, w, S)

(* The element picked is one of the set.                                   *)
LEMMA PickIn ==
  ASSUME NEW s, s # {}
  PROVE  Pick(s) \in s /\ s \ {Pick(s)} \subseteq s /\ s \ {Pick(s)} # s
PROOF
  BY DEF Pick

(* Two such functions agree wherever both are defined.                     *)
LEMMA FoldsAgree ==
  ASSUME NEW o, NEW w, NEW v, NEW S, NEW T, NEW g, NEW h, IsFiniteSet(S),
         FoldsUp(o, g, w, S), FoldsUp(o, h, v, T),
         \A x \in S \cap T : w[x] = v[x],
         NEW u \in SUBSET S, u \in SUBSET T
  PROVE  g[u] = h[u]
PROOF
  <1> DEFINE K == {s \in FiniteSubsetsOf(S) : s \subseteq T /\ g[s] # h[s]}
  <1>1. SUFFICES ASSUME K # {} PROVE FALSE
    <2>1. u \in FiniteSubsetsOf(S)
      BY FS_Subset DEF FiniteSubsetsOf
    <2> QED
      BY <2>1
  <1>2. PICK s \in K : \A t \in K : t \subseteq s => t = s
    <2>1. K \subseteq FiniteSubsetsOf(S)
      OBVIOUS
    <2> HIDE DEF K
    <2> QED
      BY <1>1, <2>1, SmallestSet
  <1>3. s \in SUBSET S /\ s \in SUBSET T /\ IsFiniteSet(s) /\ g[s] # h[s]
    BY DEF FiniteSubsetsOf
  <1>4. /\ g[s] = IF s = {} THEN Base(o) ELSE Joined(o, w[Pick(s)], g[s \ {Pick(s)}])
        /\ h[s] = IF s = {} THEN Base(o) ELSE Joined(o, v[Pick(s)], h[s \ {Pick(s)}])
    BY <1>3 DEF FoldsUp
  <1>5. s # {}
    BY <1>3, <1>4
  <1>6. Pick(s) \in s
    BY <1>5, PickIn
  <1> DEFINE t == s \ {Pick(s)}
  <1>7. t \in FiniteSubsetsOf(S) /\ t \subseteq s /\ t # s /\ t \subseteq T
    BY <1>3, <1>5, PickIn, FS_Subset DEF FiniteSubsetsOf
  <1>8. g[t] = h[t]
    BY <1>2, <1>7
  <1> QED
    BY <1>3, <1>4, <1>5, <1>6, <1>8

(* There is such a function for every finite set.                          *)
LEMMA FoldsExist ==
  ASSUME NEW o, NEW w, NEW S, IsFiniteSet(S)
  PROVE  \E g : FoldsUp(o, g, w, S)
PROOF
  <1> DEFINE K == {s \in FiniteSubsetsOf(S) : ~ \E g : FoldsUp(o, g, w, s)}
  <1>1. SUFFICES ASSUME K # {} PROVE FALSE
    <2>1. S \in FiniteSubsetsOf(S)
      BY DEF FiniteSubsetsOf
    <2> QED
      BY <2>1
  <1>2. PICK s \in K : \A t \in K : t \subseteq s => t = s
    <2>1. K \subseteq FiniteSubsetsOf(S)
      OBVIOUS
    <2> HIDE DEF K
    <2> QED
      BY <1>1, <2>1, SmallestSet
  <1>3. s \in SUBSET S /\ IsFiniteSet(s) /\ ~ \E g : FoldsUp(o, g, w, s)
    BY DEF FiniteSubsetsOf
  <1> DEFINE G(u) == CHOOSE g : FoldsUp(o, g, w, u)
             g == [u \in SUBSET s |-> IF u = {} THEN Base(o)
                                      ELSE Joined(o, w[Pick(u)], G(u \ {Pick(u)})[u \ {Pick(u)}])]
  <1>4. ASSUME NEW u \in SUBSET s, u # s
        PROVE  FoldsUp(o, G(u), w, u) /\ IsFiniteSet(u)
    <2>1. u \in FiniteSubsetsOf(S) /\ IsFiniteSet(u)
      BY <1>3, FS_Subset DEF FiniteSubsetsOf
    <2>2. u \notin K
      BY <1>2, <1>4
    <2>3. \E f : FoldsUp(o, f, w, u)
      BY <2>1, <2>2
    <2> QED
      BY <2>1, <2>3
  <1>5. ASSUME NEW u \in SUBSET s, u # s
        PROVE  g[u] = G(u)[u]
    <2>1. G(u)[u] = IF u = {} THEN Base(o) ELSE Joined(o, w[Pick(u)], G(u)[u \ {Pick(u)}])
      <3>1. FoldsUp(o, G(u), w, u)
        BY <1>4, <1>5
      <3> HIDE DEF G
      <3> QED
        BY <3>1 DEF FoldsUp
    <2>2. CASE u = {}
      <3> HIDE DEF G
      <3> QED
        BY <2>1, <2>2
    <2>3. CASE u # {}
      <3> DEFINE t == u \ {Pick(u)}
      <3>1. t \in SUBSET u /\ t \in SUBSET s /\ t # s
        BY <1>5, <2>3, PickIn
      <3>2. FoldsUp(o, G(u), w, u) /\ FoldsUp(o, G(t), w, t) /\ IsFiniteSet(u)
        BY <1>4, <1>5, <3>1
      <3>3. G(u)[t] = G(t)[t]
        <4> HIDE DEF G, t
        <4> QED
          BY <3>1, <3>2, FoldsAgree
      <3> HIDE DEF G
      <3> QED
        BY <2>1, <2>3, <3>3
    <2> QED
      BY <2>2, <2>3
  <1>6. \A u \in SUBSET s : u # {} => g[u \ {Pick(u)}] = G(u \ {Pick(u)})[u \ {Pick(u)}]
    <2> SUFFICES ASSUME NEW u \in SUBSET s, u # {}
                 PROVE  g[u \ {Pick(u)}] = G(u \ {Pick(u)})[u \ {Pick(u)}]
      OBVIOUS
    <2>1. u \ {Pick(u)} \in SUBSET s /\ u \ {Pick(u)} # s
      BY PickIn
    <2> HIDE DEF g, G
    <2> QED
      BY <1>5, <2>1
  <1>7. FoldsUp(o, g, w, s)
    <2> HIDE DEF G
    <2> QED
      BY <1>6 DEF FoldsUp
  <1> QED
    BY <1>3, <1>7

(* So it is for sums ...                                                   *)
LEMMA SumsAgree ==
  ASSUME NEW w, NEW v, NEW S, NEW T, NEW g, NEW h, IsFiniteSet(S),
         SumsUp(g, w, S), SumsUp(h, v, T),
         \A x \in S \cap T : w[x] = v[x],
         NEW u \in SUBSET S, u \in SUBSET T
  PROVE  g[u] = h[u]
PROOF
  <1>1. FoldsUp(<<"sum", 0>>, g, w, S) /\ FoldsUp(<<"sum", 0>>, h, v, T)
    BY DEF FoldsUp, SumsUp, Base, Joined
  <1> QED
    BY <1>1, FoldsAgree

(* ... of any finite set ...                                               *)
LEMMA SumsExist ==
  ASSUME NEW w, NEW S, IsFiniteSet(S)
  PROVE  \E g : SumsUp(g, w, S)
PROOF
  <1>1. \A g : FoldsUp(<<"sum", 0>>, g, w, S) <=> SumsUp(g, w, S)
    BY DEF FoldsUp, SumsUp, Base, Joined
  <1> QED
    BY <1>1, FoldsExist

(* ... and for products.                                                   *)
LEMMA ProductsExist ==
  ASSUME NEW w, NEW S, IsFiniteSet(S)
  PROVE  \E g : Multiplies(g, w, S)
PROOF
  <1>1. \A g : FoldsUp(<<"product", 1>>, g, w, S) <=> Multiplies(g, w, S)
    BY DEF FoldsUp, Multiplies, Base, Joined
  <1> QED
    BY <1>1, FoldsExist

(* A sequence that is given the elements of a set it does not hold yet.    *)
AppendsOnce(g, runs, S) ==
  g = [s \in SUBSET S |->
         IF s = {} THEN runs
         ELSE IF Contains(g[s \ {Pick(s)}], Pick(s)) THEN g[s \ {Pick(s)}]
         ELSE Append(g[s \ {Pick(s)}], Pick(s))]

(* Such a function exists for any sequence and finite set.                 *)
LEMMA AppendsExist ==
  ASSUME NEW runs, NEW S, IsFiniteSet(S)
  PROVE  \E g : AppendsOnce(g, runs, S)
PROOF
  <1> DEFINE w == [x \in S |-> x]
             o == <<"once", runs>>
  <1>1. \A s \in SUBSET S : s # {} => w[Pick(s)] = Pick(s)
    BY PickIn
  <1>2. Base(o) = runs /\ \A x, y : Joined(o, x, y) = IF Contains(y, x) THEN y ELSE Append(y, x)
    BY DEF Base, Joined
  <1> HIDE DEF w, o
  <1>3. \A g : FoldsUp(o, g, w, S) <=> AppendsOnce(g, runs, S)
    BY <1>1, <1>2 DEF FoldsUp, AppendsOnce
  <1> QED
    BY <1>3, FoldsExist

(* The product over S is what such a function gives for S.                 *)
LEMMA ProductValue ==
  ASSUME NEW w, NEW S, IsFiniteSet(S)
  PROVE  \E g : Multiplies(g, w, S) /\ ProductOver(w, S) = g[S]
PROOF
  <1> DEFINE f == CHOOSE iter : iter = [s \in SUBSET S |->
                    IF s = {} THEN 1
                    ELSE w[CHOOSE x \in s : TRUE] * iter[s \ {CHOOSE x \in s : TRUE}]]
  <1>1. ProductOver(w, S) = f[S]
    BY DEF ProductOver, FoldFunctionOnSet, MapThenFoldSet
  <1>2. \E g : Multiplies(g, w, S)
    BY ProductsExist
  <1>3. Multiplies(f, w, S)
    BY <1>2 DEF Multiplies, Pick
  <1> HIDE DEF f
  <1> QED
    BY <1>1, <1>3

(* A product of positive numbers is one.                                   *)
LEMMA ProductPositive ==
  ASSUME NEW w, NEW S, IsFiniteSet(S), \A x \in S : w[x] \in Nat \ {0}
  PROVE  ProductOver(w, S) \in Nat \ {0}
PROOF
  <1>1. PICK g : Multiplies(g, w, S) /\ ProductOver(w, S) = g[S]
    BY ProductValue
  <1> DEFINE K == {s \in FiniteSubsetsOf(S) : g[s] \notin Nat \ {0}}
  <1>2. SUFFICES ASSUME K # {} PROVE FALSE
    <2>1. S \in FiniteSubsetsOf(S)
      BY DEF FiniteSubsetsOf
    <2> QED
      BY <1>1, <2>1
  <1>3. PICK s \in K : \A t \in K : t \subseteq s => t = s
    <2>1. K \subseteq FiniteSubsetsOf(S)
      OBVIOUS
    <2> HIDE DEF K
    <2> QED
      BY <1>2, <2>1, SmallestSet
  <1>4. s \in SUBSET S /\ IsFiniteSet(s) /\ g[s] \notin Nat \ {0}
    BY DEF FiniteSubsetsOf
  <1>5. g[s] = IF s = {} THEN 1 ELSE w[Pick(s)] * g[s \ {Pick(s)}]
    BY <1>1, <1>4 DEF Multiplies
  <1>6. s # {}
    BY <1>4, <1>5
  <1> DEFINE t == s \ {Pick(s)}
  <1>7. t \in FiniteSubsetsOf(S) /\ t \subseteq s /\ t # s /\ Pick(s) \in S
    BY <1>4, <1>6, PickIn, FS_Subset DEF FiniteSubsetsOf
  <1>8. g[t] \in Nat \ {0} /\ w[Pick(s)] \in Nat \ {0}
    BY <1>3, <1>7
  <1>9. \A a, b \in Nat \ {0} : a * b \in Nat \ {0}
    OBVIOUS
  <1>10. g[s] = w[Pick(s)] * g[t]
    BY <1>5, <1>6
  <1> HIDE DEF t
  <1> QED
    BY <1>4, <1>8, <1>9, <1>10

(* Two such functions agree, and the product is what any of them gives.    *)
LEMMA ProductsAgree ==
  ASSUME NEW w, NEW v, NEW S, NEW T, NEW g, NEW h, IsFiniteSet(S),
         Multiplies(g, w, S), Multiplies(h, v, T),
         \A x \in S \cap T : w[x] = v[x],
         NEW u \in SUBSET S, u \in SUBSET T
  PROVE  g[u] = h[u]
PROOF
  <1>1. FoldsUp(<<"product", 1>>, g, w, S) /\ FoldsUp(<<"product", 1>>, h, v, T)
    BY DEF FoldsUp, Multiplies, Base, Joined
  <1> QED
    BY <1>1, FoldsAgree

(* The product over S is what any such function gives for S.               *)
LEMMA ProductIs ==
  ASSUME NEW w, NEW S, IsFiniteSet(S), NEW g, Multiplies(g, w, S)
  PROVE  ProductOver(w, S) = g[S]
PROOF
  <1>1. PICK h : Multiplies(h, w, S) /\ ProductOver(w, S) = h[S]
    BY ProductValue
  <1> QED
    BY <1>1, ProductsAgree

(* The product of nothing.                                                 *)
LEMMA ProductEmpty ==
  ASSUME NEW w
  PROVE  ProductOver(w, {}) = 1
PROOF
  <1>1. IsFiniteSet({})
    BY FS_EmptySet
  <1>2. PICK g : Multiplies(g, w, {}) /\ ProductOver(w, {}) = g[{}]
    BY <1>1, ProductValue
  <1> QED
    BY <1>2 DEF Multiplies

(* Any element can be taken out of a product as well.                      *)
LEMMA ProductTakeOut ==
  ASSUME NEW w, NEW S, IsFiniteSet(S), \A y \in S : w[y] \in Nat \ {0}, NEW x \in S
  PROVE  ProductOver(w, S) = ProductOver(w, S \ {x}) * w[x]
PROOF
  <1>1. PICK g : Multiplies(g, w, S)
    BY ProductsExist
  <1>2. ASSUME NEW s \in SUBSET S
        PROVE  /\ g[s] = ProductOver(w, s) /\ g[s] \in Nat \ {0}
               /\ g[s] = IF s = {} THEN 1 ELSE w[Pick(s)] * g[s \ {Pick(s)}]
    <2>1. IsFiniteSet(s)
      BY FS_Subset
    <2>2. PICK h : Multiplies(h, w, s)
      BY <2>1, ProductsExist
    <2>3. ProductOver(w, s) = h[s] /\ h[s] = g[s]
      BY <1>1, <2>1, <2>2, ProductIs, ProductsAgree
    <2>4. ProductOver(w, s) \in Nat \ {0}
      BY <2>1, ProductPositive
    <2>5. g[s] = IF s = {} THEN 1 ELSE w[Pick(s)] * g[s \ {Pick(s)}]
      BY <1>1 DEF Multiplies
    <2> QED
      BY <2>3, <2>4, <2>5
  <1> DEFINE K == {s \in FiniteSubsetsOf(S) : \E y \in s : g[s] # g[s \ {y}] * w[y]}
  <1>3. SUFFICES ASSUME K # {} PROVE FALSE
    <2>1. S \in FiniteSubsetsOf(S)
      BY DEF FiniteSubsetsOf
    <2>2. g[S] = g[S \ {x}] * w[x]
      BY <1>3, <2>1
    <2>3. S \ {x} \in SUBSET S /\ S \in SUBSET S
      OBVIOUS
    <2> HIDE DEF K
    <2> QED
      BY <1>2, <2>2, <2>3
  <1>4. PICK s \in K : \A t \in K : t \subseteq s => t = s
    <2>1. K \subseteq FiniteSubsetsOf(S)
      OBVIOUS
    <2> HIDE DEF K
    <2> QED
      BY <1>3, <2>1, SmallestSet
  <1>5. s \in SUBSET S /\ IsFiniteSet(s)
    BY DEF FiniteSubsetsOf
  <1>6. PICK y \in s : g[s] # g[s \ {y}] * w[y]
    OBVIOUS
  <1> DEFINE p == Pick(s)
  <1>7. p \in s /\ g[s] = w[p] * g[s \ {p}]
    BY <1>2, <1>5, <1>6, PickIn
  <1>8. p \in S /\ y \in S /\ w[p] \in Nat \ {0} /\ w[y] \in Nat \ {0}
    BY <1>5, <1>6, <1>7
  <1>9. p # y
    <2>1. g[s \ {y}] \in Nat \ {0}
      BY <1>2, <1>5
    <2>2. w[y] * g[s \ {y}] = g[s \ {y}] * w[y]
      BY <1>8, <2>1
    <2> QED
      BY <1>6, <1>7, <2>2
  <1>10. g[s \ {p}] = g[(s \ {p}) \ {y}] * w[y]
    <2>1. s \ {p} \in FiniteSubsetsOf(S) /\ s \ {p} \subseteq s /\ s \ {p} # s /\ y \in s \ {p}
      BY <1>5, <1>7, <1>9, FS_Subset DEF FiniteSubsetsOf
    <2> QED
      BY <1>4, <2>1
  <1>11. g[s \ {y}] = g[(s \ {y}) \ {p}] * w[p]
    <2>1. s \ {y} \in FiniteSubsetsOf(S) /\ s \ {y} \subseteq s /\ s \ {y} # s /\ p \in s \ {y}
      BY <1>5, <1>6, <1>7, <1>9, FS_Subset DEF FiniteSubsetsOf
    <2> QED
      BY <1>4, <2>1
  <1>12. (s \ {p}) \ {y} = (s \ {y}) \ {p} /\ (s \ {p}) \ {y} \in SUBSET S
    BY <1>5
  <1>13. g[(s \ {p}) \ {y}] \in Nat \ {0}
    BY <1>2, <1>12
  <1>14. \A a, b, c \in Nat \ {0} : a * (c * b) = (c * a) * b
    OBVIOUS
  <1>15. w[p] * (g[(s \ {p}) \ {y}] * w[y]) = (g[(s \ {p}) \ {y}] * w[p]) * w[y]
    BY <1>8, <1>13, <1>14
  <1>16. g[s] = g[s \ {y}] * w[y]
    BY <1>7, <1>10, <1>11, <1>12, <1>15
  <1> QED
    BY <1>6, <1>16

(* The sum over S is what such a function gives for S.                     *)
LEMMA SumValue ==
  ASSUME NEW w, NEW S, IsFiniteSet(S), NEW g, SumsUp(g, w, S)
  PROVE  SumOver(w, S) = g[S]
PROOF
  <1> DEFINE f == CHOOSE iter : iter = [s \in SUBSET S |->
                    IF s = {} THEN 0
                    ELSE w[CHOOSE x \in s : TRUE] + iter[s \ {CHOOSE x \in s : TRUE}]]
  <1>1. SumOver(w, S) = f[S]
    BY DEF SumOver, MapThenSumSet, MapThenFoldSet
  <1>2. SumsUp(f, w, S)
    BY DEF SumsUp, Pick
  <1> HIDE DEF f
  <1> QED
    BY <1>1, <1>2, SumsAgree

(* A sum of integers is one, and depends on the terms only.                *)
LEMMA SumInt ==
  ASSUME NEW w, NEW S, IsFiniteSet(S), \A x \in S : w[x] \in Int
  PROVE  SumOver(w, S) \in Int
PROOF
  <1>1. PICK g : SumsUp(g, w, S)
    BY SumsExist
  <1> DEFINE K == {s \in FiniteSubsetsOf(S) : g[s] \notin Int}
  <1>2. SUFFICES ASSUME K # {} PROVE FALSE
    <2>1. S \in FiniteSubsetsOf(S)
      BY DEF FiniteSubsetsOf
    <2> QED
      BY <1>1, <2>1, SumValue
  <1>3. PICK s \in K : \A t \in K : t \subseteq s => t = s
    <2>1. K \subseteq FiniteSubsetsOf(S)
      OBVIOUS
    <2> HIDE DEF K
    <2> QED
      BY <1>2, <2>1, SmallestSet
  <1>4. s \in SUBSET S /\ IsFiniteSet(s) /\ g[s] \notin Int
    BY DEF FiniteSubsetsOf
  <1>5. g[s] = IF s = {} THEN 0 ELSE w[Pick(s)] + g[s \ {Pick(s)}]
    BY <1>1, <1>4 DEF SumsUp
  <1>6. s # {}
    BY <1>4, <1>5
  <1> DEFINE t == s \ {Pick(s)}
  <1>7. t \in FiniteSubsetsOf(S) /\ t \subseteq s /\ t # s /\ Pick(s) \in S
    BY <1>4, <1>6, PickIn, FS_Subset DEF FiniteSubsetsOf
  <1>8. g[t] \in Int
    BY <1>3, <1>7
  <1> QED
    BY <1>4, <1>5, <1>6, <1>7, <1>8

(* Weights that agree on a set have the same sum over it.                  *)
LEMMA SumSame ==
  ASSUME NEW w, NEW v, NEW S, IsFiniteSet(S), \A x \in S : w[x] = v[x]
  PROVE  SumOver(w, S) = SumOver(v, S)
PROOF
  <1>1. PICK g : SumsUp(g, w, S)
    BY SumsExist
  <1>2. PICK h : SumsUp(h, v, S)
    BY SumsExist
  <1> QED
    BY <1>1, <1>2, SumsAgree, SumValue

(* Nothing sums to zero.                                                   *)
LEMMA SumEmpty ==
  ASSUME NEW w
  PROVE  SumOver(w, {}) = 0
PROOF
  <1>1. IsFiniteSet({})
    BY FS_EmptySet
  <1>2. PICK g : SumsUp(g, w, {})
    BY <1>1, SumsExist
  <1>3. g[{}] = 0
    BY <1>2 DEF SumsUp
  <1> QED
    BY <1>1, <1>2, <1>3, SumValue

(* Any element can be taken out of a sum, whichever was picked first.      *)
LEMMA SumTakeOut ==
  ASSUME NEW w, NEW S, IsFiniteSet(S), \A y \in S : w[y] \in Int, NEW x \in S
  PROVE  SumOver(w, S) = SumOver(w, S \ {x}) + w[x]
PROOF
  <1>1. PICK g : SumsUp(g, w, S)
    BY SumsExist
  <1>2. ASSUME NEW s \in SUBSET S
        PROVE  /\ g[s] = SumOver(w, s) /\ g[s] \in Int
               /\ g[s] = IF s = {} THEN 0 ELSE w[Pick(s)] + g[s \ {Pick(s)}]
    <2>1. IsFiniteSet(s)
      BY FS_Subset
    <2>2. PICK h : SumsUp(h, w, s)
      BY <2>1, SumsExist
    <2>3. SumOver(w, s) = h[s] /\ h[s] = g[s]
      BY <1>1, <2>1, <2>2, SumValue, SumsAgree
    <2>4. SumOver(w, s) \in Int
      BY <2>1, SumInt
    <2>5. g[s] = IF s = {} THEN 0 ELSE w[Pick(s)] + g[s \ {Pick(s)}]
      BY <1>1 DEF SumsUp
    <2> QED
      BY <2>3, <2>4, <2>5
  <1> DEFINE K == {s \in FiniteSubsetsOf(S) : \E y \in s : g[s] # g[s \ {y}] + w[y]}
  <1>3. SUFFICES ASSUME K # {} PROVE FALSE
    <2>1. S \in FiniteSubsetsOf(S)
      BY DEF FiniteSubsetsOf
    <2>2. g[S] = g[S \ {x}] + w[x]
      BY <1>3, <2>1
    <2>3. S \ {x} \in SUBSET S /\ S \in SUBSET S
      OBVIOUS
    <2> HIDE DEF K
    <2> QED
      BY <1>2, <2>2, <2>3
  <1>4. PICK s \in K : \A t \in K : t \subseteq s => t = s
    <2>1. K \subseteq FiniteSubsetsOf(S)
      OBVIOUS
    <2> HIDE DEF K
    <2> QED
      BY <1>3, <2>1, SmallestSet
  <1>5. s \in SUBSET S /\ IsFiniteSet(s)
    BY DEF FiniteSubsetsOf
  <1>6. PICK y \in s : g[s] # g[s \ {y}] + w[y]
    OBVIOUS
  <1> DEFINE p == Pick(s)
  <1>7. p \in s /\ g[s] = w[p] + g[s \ {p}]
    BY <1>2, <1>5, <1>6, PickIn
  <1>8. p \in S /\ y \in S /\ w[p] \in Int /\ w[y] \in Int
    BY <1>5, <1>6, <1>7
  <1>9. p # y
    <2>1. g[s \ {y}] \in Int
      BY <1>2, <1>5
    <2>2. w[y] + g[s \ {y}] = g[s \ {y}] + w[y]
      BY <1>8, <2>1
    <2> QED
      BY <1>6, <1>7, <2>2
  <1>10. g[s \ {p}] = g[(s \ {p}) \ {y}] + w[y]
    <2>1. s \ {p} \in FiniteSubsetsOf(S) /\ s \ {p} \subseteq s /\ s \ {p} # s /\ y \in s \ {p}
      BY <1>5, <1>7, <1>9, FS_Subset DEF FiniteSubsetsOf
    <2> QED
      BY <1>4, <2>1
  <1>11. g[s \ {y}] = g[(s \ {y}) \ {p}] + w[p]
    <2>1. s \ {y} \in FiniteSubsetsOf(S) /\ s \ {y} \subseteq s /\ s \ {y} # s /\ p \in s \ {y}
      BY <1>5, <1>6, <1>7, <1>9, FS_Subset DEF FiniteSubsetsOf
    <2> QED
      BY <1>4, <2>1
  <1>12. (s \ {p}) \ {y} = (s \ {y}) \ {p} /\ (s \ {p}) \ {y} \in SUBSET S
    BY <1>5
  <1>13. g[(s \ {p}) \ {y}] \in Int
    BY <1>2, <1>12
  <1>14. \A a, b, c \in Int : a + (c + b) = (c + a) + b
    OBVIOUS
  <1>15. w[p] + (g[(s \ {p}) \ {y}] + w[y]) = (g[(s \ {p}) \ {y}] + w[p]) + w[y]
    BY <1>8, <1>13, <1>14
  <1>16. g[s] = g[s \ {y}] + w[y]
    BY <1>7, <1>10, <1>11, <1>12, <1>15
  <1> QED
    BY <1>6, <1>16

(* The sum with one more element.                                          *)
LEMMA SumAdd ==
  ASSUME NEW w, NEW S, NEW x, IsFiniteSet(S), x \notin S,
         \A y \in S \cup {x} : w[y] \in Int
  PROVE  SumOver(w, S \cup {x}) = SumOver(w, S) + w[x]
PROOF
  <1>1. IsFiniteSet(S \cup {x}) /\ (S \cup {x}) \ {x} = S /\ x \in S \cup {x}
    BY FS_AddElement
  <1> QED
    BY <1>1, SumTakeOut

-----------------------------------------------------------------------------
(* Sums over a sequence.                                                   *)

Image(f, s) == {f[x] : x \in s}

(* A sum does not depend on what its terms are numbered by.                *)
LEMMA SumImage ==
  ASSUME NEW f, NEW v, NEW w, NEW S, IsFiniteSet(S),
         \A x, y \in S : f[x] = f[y] => x = y,
         \A x \in S : w[f[x]] = v[x] /\ v[x] \in Int
  PROVE  IsFiniteSet(Image(f, S)) /\ SumOver(w, Image(f, S)) = SumOver(v, S)
PROOF
  <1> DEFINE Right(s) == IsFiniteSet(Image(f, s)) /\ SumOver(w, Image(f, s)) = SumOver(v, s)
             K == {s \in FiniteSubsetsOf(S) : ~ Right(s)}
  <1>1. SUFFICES ASSUME K # {} PROVE FALSE
    <2>1. S \in FiniteSubsetsOf(S)
      BY DEF FiniteSubsetsOf
    <2> QED
      BY <2>1
  <1>2. PICK s \in K : \A t \in K : t \subseteq s => t = s
    <2>1. K \subseteq FiniteSubsetsOf(S)
      OBVIOUS
    <2> HIDE DEF K
    <2> QED
      BY <1>1, <2>1, SmallestSet
  <1>3. s \in SUBSET S /\ IsFiniteSet(s) /\ ~ Right(s)
    BY DEF FiniteSubsetsOf
  <1>4. s # {}
    <2>1. SUFFICES ASSUME s = {} PROVE FALSE
      OBVIOUS
    <2>2. Image(f, s) = {}
      BY <2>1 DEF Image
    <2>3. SumOver(w, {}) = 0 /\ SumOver(v, {}) = 0
      BY SumEmpty
    <2> QED
      BY <1>3, <2>1, <2>2, <2>3, FS_EmptySet
  <1>5. PICK x \in s : TRUE
    BY <1>4
  <1> DEFINE t == s \ {x}
  <1>6. t \in FiniteSubsetsOf(S) /\ t \subseteq s /\ t # s /\ IsFiniteSet(t)
    BY <1>3, <1>5, FS_Subset DEF FiniteSubsetsOf
  <1>7. Right(t)
    BY <1>2, <1>6
  <1>8. /\ Image(f, s) = Image(f, t) \cup {f[x]}
        /\ f[x] \notin Image(f, t)
    BY <1>3, <1>5 DEF Image
  <1>9. IsFiniteSet(Image(f, s))
    BY <1>7, <1>8, FS_AddElement
  <1>10. \A y \in Image(f, t) \cup {f[x]} : w[y] \in Int
    BY <1>3, <1>5 DEF Image
  <1>11. SumOver(w, Image(f, s)) = SumOver(w, Image(f, t)) + w[f[x]]
    <2> DEFINE A == Image(f, t)
               b == f[x]
    <2>1. IsFiniteSet(A) /\ b \notin A /\ Image(f, s) = A \cup {b}
      BY <1>7, <1>8
    <2>2. \A y \in A \cup {b} : w[y] \in Int
      BY <1>10
    <2>3. SumOver(w, A \cup {b}) = SumOver(w, A) + w[b]
      <3> HIDE DEF A, b
      <3> QED
        BY <2>1, <2>2, SumAdd
    <2> QED
      BY <2>1, <2>3
  <1>12. SumOver(v, s) = SumOver(v, t) + v[x]
    BY <1>3, <1>5, SumTakeOut
  <1>13. w[f[x]] = v[x]
    BY <1>3, <1>5
  <1> QED
    BY <1>3, <1>7, <1>9, <1>11, <1>12, <1>13

SeqSum(s) == SumOver(s, DOMAIN s)

(* The empty sequence sums to zero.                                        *)
LEMMA SeqSumEmpty ==
  SeqSum(<<>>) = 0
PROOF
  <1>1. DOMAIN <<>> = {}
    OBVIOUS
  <1> QED
    BY <1>1, SumEmpty DEF SeqSum

(* The sum of integers is one.                                             *)
LEMMA SeqSumInt ==
  ASSUME NEW s \in Seq(Int)
  PROVE  SeqSum(s) \in Int
PROOF
  <1>1. Len(s) \in Nat /\ DOMAIN s = 1 .. Len(s) /\ IsFiniteSet(1 .. Len(s))
    BY LenProperties, FS_Interval
  <1>2. \A i \in 1 .. Len(s) : s[i] \in Int
    BY ElementOfSeq
  <1> QED
    BY <1>1, <1>2, SumInt DEF SeqSum

(* The sum with one more element at the end.                               *)
LEMMA SeqSumAppend ==
  ASSUME NEW s \in Seq(Int), NEW x \in Int
  PROVE  SeqSum(Append(s, x)) = SeqSum(s) + x
PROOF
  <1> DEFINE t == Append(s, x)
             n == Len(s)
  <1>1. n \in Nat /\ DOMAIN s = 1 .. n /\ IsFiniteSet(1 .. n) /\ n + 1 \notin 1 .. n
    BY LenProperties, FS_Interval
  <1>2. /\ t \in Seq(Int) /\ Len(t) = n + 1 /\ t[n + 1] = x
        /\ \A i \in 1 .. n : t[i] = s[i]
    BY AppendProperties
  <1>3. DOMAIN t = (1 .. n) \cup {n + 1}
    <2>1. DOMAIN t = 1 .. n + 1
      BY <1>2, LenProperties
    <2> QED
      BY <1>1, <2>1
  <1>4. \A i \in (1 .. n) \cup {n + 1} : t[i] \in Int
    BY <1>2, ElementOfSeq
  <1> HIDE DEF t, n
  <1>5. SumOver(t, (1 .. n) \cup {n + 1}) = SumOver(t, 1 .. n) + t[n + 1]
    BY <1>1, <1>4, SumAdd, ZenonT(30)
  <1>6. SumOver(t, 1 .. n) = SumOver(s, 1 .. n)
    BY <1>1, <1>2, SumSame
  <1> QED
    BY <1>1, <1>2, <1>3, <1>5, <1>6 DEF SeqSum, t

(* The sum without the first element.                                      *)
LEMMA SeqSumTail ==
  ASSUME NEW s \in Seq(Int), s # <<>>
  PROVE  SeqSum(s) = s[1] + SeqSum(Tail(s))
PROOF
  <1> DEFINE t == Tail(s)
             n == Len(s)
             f == [i \in 1 .. n - 1 |-> i + 1]
  <1>1. n \in Nat \ {0} /\ DOMAIN s = 1 .. n
    BY LenProperties, EmptySeq
  <1>2. t \in Seq(Int) /\ Len(t) = n - 1 /\ \A i \in 1 .. n - 1 : t[i] = s[i + 1]
    BY HeadTailProperties
  <1>3. DOMAIN t = 1 .. n - 1 /\ IsFiniteSet(1 .. n - 1) /\ IsFiniteSet(1 .. n)
    BY <1>1, <1>2, LenProperties, FS_Interval
  <1>4. \A i \in 1 .. n : s[i] \in Int
    BY ElementOfSeq
  <1>5. Image(f, 1 .. n - 1) = (1 .. n) \ {1}
    <2>1. \A k \in (1 .. n) \ {1} : k - 1 \in 1 .. n - 1 /\ f[k - 1] = k
      BY <1>1
    <2>2. \A k \in 1 .. n - 1 : f[k] \in (1 .. n) \ {1}
      BY <1>1
    <2> HIDE DEF f
    <2> QED
      BY <2>1, <2>2 DEF Image
  <1>6. \A i \in 1 .. n - 1 : s[f[i]] = t[i] /\ t[i] \in Int
    BY <1>1, <1>2, <1>4
  <1>7. \A i, j \in 1 .. n - 1 : f[i] = f[j] => i = j
    BY <1>1
  <1> HIDE DEF f, t, n
  <1>8. SumOver(s, Image(f, 1 .. n - 1)) = SumOver(t, 1 .. n - 1)
    <2> DEFINE D == 1 .. n - 1
    <2>1. IsFiniteSet(D) /\ \A x, y \in D : f[x] = f[y] => x = y
      BY <1>3, <1>7
    <2>2. \A x \in D : s[f[x]] = t[x] /\ t[x] \in Int
      BY <1>6
    <2> HIDE DEF D
    <2>3. SumOver(s, Image(f, D)) = SumOver(t, D)
      BY <2>1, <2>2, SumImage
    <2> QED
      BY <2>3 DEF D
  <1>9. SumOver(s, 1 .. n) = SumOver(s, (1 .. n) \ {1}) + s[1]
    BY <1>1, <1>3, <1>4, SumTakeOut
  <1>10. SumOver(s, (1 .. n) \ {1}) = SeqSum(t)
    BY <1>3, <1>5, <1>8 DEF SeqSum
  <1>11. SeqSum(t) \in Int
    BY <1>2, SeqSumInt
  <1>12. s[1] \in Int
    BY <1>1, <1>4
  <1> QED
    BY <1>1, <1>9, <1>10, <1>11, <1>12 DEF SeqSum, t

-----------------------------------------------------------------------------
(* What a filter keeps.                                                    *)

(* g filters s from its first element to its last one.                     *)
FiltersUp(g, s, K, D) ==
  g = [u \in SUBSET D |->
         IF u = {} THEN <<>>
         ELSE IF s[Max(u)] \in K THEN Append(g[u \ {Max(u)}], s[Max(u)])
         ELSE g[u \ {Max(u)}]]

(* There is such a function, of any finite set of numbers.                 *)
LEMMA FiltersExist ==
  ASSUME NEW s, NEW K, NEW D \in SUBSET Int, IsFiniteSet(D)
  PROVE  \E g : FiltersUp(g, s, K, D)
PROOF
  <1> DEFINE Bad == {d \in FiniteSubsetsOf(D) : ~ \E g : FiltersUp(g, s, K, d)}
  <1>1. SUFFICES ASSUME Bad # {} PROVE FALSE
    <2>1. D \in FiniteSubsetsOf(D)
      BY DEF FiniteSubsetsOf
    <2> QED
      BY <2>1
  <1>2. PICK d \in Bad : \A t \in Bad : t \subseteq d => t = d
    <2>1. Bad \subseteq FiniteSubsetsOf(D)
      OBVIOUS
    <2> HIDE DEF Bad
    <2> QED
      BY <1>1, <2>1, SmallestSet
  <1>3. d \in SUBSET D /\ IsFiniteSet(d) /\ ~ \E g : FiltersUp(g, s, K, d)
    BY DEF FiniteSubsetsOf
  <1> DEFINE m == Max(d)
             e == d \ {m}
  <1>4. ASSUME NEW u \in SUBSET d, u # {}
        PROVE  Max(u) \in u /\ Max(u) \in Int /\ \A y \in u : Max(u) >= y
    <2>1. u \in SUBSET Int /\ IsFiniteSet(u)
      BY <1>3, FS_Subset
    <2> QED
      BY <1>4, <2>1, LeastGreatest
  <1>5. ASSUME NEW u \in SUBSET d, m \in u
        PROVE  Max(u) = m
    <2>1. m \in Int /\ m >= Max(u)
      BY <1>4, <1>5
    <2>2. Max(u) \in Int /\ Max(u) >= m
      BY <1>4, <1>5
    <2> QED
      BY <2>1, <2>2
  <1>6. d = {} => FiltersUp([u \in SUBSET d |-> <<>>], s, K, d)
    BY DEF FiltersUp
  <1>7. m \in d
    BY <1>3, <1>4, <1>6
  <1>8. PICK h : FiltersUp(h, s, K, e)
    <2>1. e \in FiniteSubsetsOf(D) /\ e \subseteq d /\ e # d
      BY <1>3, <1>7, FS_Subset DEF FiniteSubsetsOf
    <2> QED
      BY <1>2, <2>1
  <1> DEFINE g == [u \in SUBSET d |->
                     IF m \notin u THEN h[u]
                     ELSE IF s[m] \in K THEN Append(h[u \ {m}], s[m])
                     ELSE h[u \ {m}]]
             Next(u) == IF u = {} THEN <<>>
                        ELSE IF s[Max(u)] \in K THEN Append(g[u \ {Max(u)}], s[Max(u)])
                        ELSE g[u \ {Max(u)}]
  <1>9. ASSUME NEW u \in SUBSET d
        PROVE  g[u] = Next(u)
    <2>1. CASE m \in u
      <3>1. u \ {m} \in SUBSET d /\ m \notin u \ {m} /\ u # {}
        BY <2>1
      <3>2. g[u \ {m}] = h[u \ {m}]
        BY <3>1
      <3>3. Max(u) = m
        BY <1>5, <2>1
      <3>4. g[u] = IF s[m] \in K THEN Append(h[u \ {m}], s[m]) ELSE h[u \ {m}]
        BY <2>1
      <3> HIDE DEF g, m
      <3> QED
        BY <3>1, <3>2, <3>3, <3>4
    <2>2. CASE m \notin u
      <3>1. u \in SUBSET e /\ g[u] = h[u]
        BY <2>2
      <3>2. h[u] = IF u = {} THEN <<>>
                   ELSE IF s[Max(u)] \in K THEN Append(h[u \ {Max(u)}], s[Max(u)])
                   ELSE h[u \ {Max(u)}]
        <4> HIDE DEF e
        <4> QED
          BY <1>8, <3>1 DEF FiltersUp
      <3>3. u # {} => u \ {Max(u)} \in SUBSET d /\ m \notin u \ {Max(u)}
        BY <2>2
      <3>4. u # {} => g[u \ {Max(u)}] = h[u \ {Max(u)}]
        BY <3>3
      <3> HIDE DEF g
      <3> QED
        BY <3>1, <3>2, <3>4
    <2> QED
      BY <2>1, <2>2
  <1>10. g = [u \in SUBSET d |-> Next(u)]
    <2>1. \A u \in SUBSET d : g[u] = Next(u)
      BY <1>9
    <2>2. g = [u \in SUBSET d |-> g[u]]
      OBVIOUS
    <2> HIDE DEF g, Next
    <2> QED
      BY <2>1, <2>2
  <1> QED
    BY <1>3, <1>10 DEF FiltersUp

(* Such a function keeps the elements in K, in any first part of s; if no  *)
(* two elements of s are equal, no two that are kept are.                  *)
LEMMA FiltersKeep ==
  ASSUME NEW S, NEW s \in Seq(S), NEW K, NEW g, FiltersUp(g, s, K, DOMAIN s)
  PROVE  LET t == g[DOMAIN s] IN
         /\ t \in Seq(S)
         /\ \A x : Contains(t, x) <=> x \in K /\ Contains(s, x)
         /\ IsInjective(s) => IsInjective(t)
PROOF
  <1> DEFINE n == Len(s)
             D == 1 .. n
             Upto(k) == 1 .. k
             Kept(k) == /\ g[Upto(k)] \in Seq(S)
                        /\ \A x : Contains(g[Upto(k)], x) <=> x \in K /\ \E i \in Upto(k) : s[i] = x
                        /\ IsInjective(s) => IsInjective(g[Upto(k)])
             Bad == {k \in 0 .. n : ~ Kept(k)}
  <1>1. n \in Nat /\ DOMAIN s = D /\ \A i \in D : s[i] \in S
    BY LenProperties, ElementOfSeq
  <1>2. SUFFICES ASSUME Bad # {} PROVE FALSE
    <2>1. n \in 0 .. n
      BY <1>1
    <2>2. Kept(n)
      <3> HIDE DEF Kept
      <3> QED
        BY <1>2, <2>1
    <2> QED
      BY <1>1, <2>2 DEF Contains
  <1>3. PICK k \in Bad : \A j \in Bad : k <= j
    <2>1. Bad \in SUBSET Int /\ IsFiniteSet(Bad)
      <3>1. IsFiniteSet(0 .. n) /\ Bad \subseteq 0 .. n /\ 0 .. n \subseteq Int
        BY <1>1, FS_Interval
      <3> HIDE DEF Bad
      <3> QED
        BY <3>1, FS_Subset
    <2> HIDE DEF Bad
    <2> QED
      BY <1>2, <2>1, LeastGreatest
  <1>4. k \in 0 .. n /\ ~ Kept(k)
    OBVIOUS
  <1>5. ASSUME NEW u \in SUBSET D
        PROVE  g[u] = IF u = {} THEN <<>>
                      ELSE IF s[Max(u)] \in K THEN Append(g[u \ {Max(u)}], s[Max(u)])
                      ELSE g[u \ {Max(u)}]
    BY <1>1 DEF FiltersUp
  <1>6. k # 0
    <2>1. SUFFICES ASSUME k = 0 PROVE FALSE
      OBVIOUS
    <2>2. Upto(k) = {} /\ g[{}] = <<>>
      <3>1. g[{}] = <<>>
        BY <1>5
      <3> QED
        BY <2>1, <3>1
    <2>3. /\ <<>> \in Seq(S) /\ Len(<<>>) = 0 /\ DOMAIN <<>> = {}
      OBVIOUS
    <2>4. Kept(k)
      <3> HIDE DEF Upto
      <3>1. g[Upto(k)] = <<>>
        BY <2>2
      <3>2. \A x : ~ Contains(<<>>, x)
        BY <2>3 DEF Contains
      <3>3. IsInjective(<<>>)
        BY <2>3 DEF IsInjective
      <3> QED
        BY <2>2, <2>3, <3>1, <3>2, <3>3
    <2> QED
      BY <1>4, <2>4
  <1>7. k - 1 \in 0 .. n /\ Kept(k - 1)
    <2>1. k - 1 \in 0 .. n /\ ~ k <= k - 1
      BY <1>1, <1>4, <1>6
    <2> HIDE DEF Kept
    <2> QED
      BY <1>3, <2>1
  <1>8. /\ Upto(k) \in SUBSET D /\ k \in Upto(k) /\ k \in D
        /\ Upto(k) \ {k} = Upto(k - 1)
    BY <1>1, <1>4, <1>6
  <1>9. Max(Upto(k)) = k
    <2>1. Upto(k) \in SUBSET Int /\ IsFiniteSet(Upto(k)) /\ Upto(k) # {}
      <3>1. IsFiniteSet(1 .. k) /\ 1 .. k \subseteq Int
        BY <1>1, <1>4, FS_Interval
      <3> QED
        BY <1>8, <3>1
    <2>2. Max(Upto(k)) \in Upto(k) /\ Max(Upto(k)) >= k
      <3> HIDE DEF Upto
      <3> QED
        BY <1>8, <2>1, LeastGreatest
    <2> QED
      BY <1>4, <2>2
  <1> DEFINE t == g[Upto(k - 1)]
             e == s[k]
  <1>10. g[Upto(k)] = IF e \in K THEN Append(t, e) ELSE t
    <2> HIDE DEF Upto, D
    <2> QED
      BY <1>5, <1>8, <1>9
  <1>11. t \in Seq(S) /\ e \in S /\ Len(t) \in Nat /\ DOMAIN t = 1 .. Len(t)
    <2>1. t \in Seq(S) /\ e \in S
      BY <1>1, <1>7, <1>8
    <2> HIDE DEF t, e
    <2> QED
      BY <2>1, LenProperties
  <1>12. \A x : Contains(t, x) <=> x \in K /\ \E i \in Upto(k - 1) : s[i] = x
    BY <1>7
  <1>13. \A x : (\E i \in Upto(k) : s[i] = x) <=> x = e \/ \E i \in Upto(k - 1) : s[i] = x
    <2> HIDE DEF Upto
    <2> QED
      BY <1>8
  <1>14. CASE e \notin K
    <2>1. \A x : Contains(t, x) <=> x \in K /\ \E i \in Upto(k) : s[i] = x
      <3> HIDE DEF t, e, Upto
      <3> QED
        BY <1>12, <1>13, <1>14
    <2>2. IsInjective(s) => IsInjective(t)
      BY <1>7
    <2> QED
      BY <1>4, <1>10, <1>11, <1>14, <2>1, <2>2
  <1>15. CASE e \in K
    <2> DEFINE a == Append(t, e)
    <2>1. /\ a \in Seq(S) /\ Len(a) = Len(t) + 1 /\ a[Len(t) + 1] = e
          /\ \A i \in 1 .. Len(t) : a[i] = t[i]
          /\ DOMAIN a = 1 .. Len(t) + 1
      <3> HIDE DEF t, e
      <3>1. a \in Seq(S) /\ Len(a) = Len(t) + 1
        BY <1>11, AppendProperties
      <3>2. DOMAIN a = 1 .. Len(a)
        BY <3>1, LenProperties
      <3> QED
        BY <1>11, <3>1, <3>2, AppendProperties
    <2>2. \A x : Contains(a, x) <=> x = e \/ Contains(t, x)
      <3> HIDE DEF a, t, e
      <3> QED
        BY <1>11, <2>1 DEF Contains
    <2>3. \A x : Contains(a, x) <=> x \in K /\ \E i \in Upto(k) : s[i] = x
      <3> HIDE DEF a, t, e, Upto
      <3> QED
        BY <1>12, <1>13, <1>15, <2>2
    <2>4. ASSUME IsInjective(s)
          PROVE  IsInjective(a)
      <3>1. IsInjective(t)
        BY <1>7, <2>4
      <3>2. ~ Contains(t, e)
        <4>1. \A i \in Upto(k - 1) : i \in D /\ i # k
          BY <1>1, <1>4
        <4>2. \A i \in Upto(k - 1) : s[i] # e
          BY <1>1, <1>8, <2>4, <4>1 DEF IsInjective
        <4> HIDE DEF t, e, Upto
        <4> QED
          BY <1>12, <4>2
      <3>3. \A i \in 1 .. Len(t) : t[i] # e
        BY <3>2 DEF Contains
      <3> HIDE DEF a, t, e
      <3> QED
        BY <1>11, <2>1, <3>1, <3>3 DEF IsInjective
    <2> QED
      BY <1>4, <1>10, <1>15, <2>1, <2>3, <2>4
  <1> QED
    BY <1>14, <1>15
-----------------------------------------------------------------------------
(* What the moves between two queues do to who is in them, and that nobody *)
(* gets into one twice.                                                    *)

(* push_back.                                                              *)
LEMMA PushBack ==
  ASSUME NEW S, NEW s \in Seq(S), NEW x \in S
  PROVE  LET t == Append(s, x) IN
         /\ t \in Seq(S) /\ Len(t) = Len(s) + 1 /\ t[Len(s) + 1] = x
         /\ DOMAIN t = 1 .. Len(s) + 1
         /\ \A i \in 1 .. Len(s) : t[i] = s[i]
         /\ \A y : Contains(t, y) <=> y = x \/ Contains(s, y)
         /\ IsInjective(s) /\ ~ Contains(s, x) => IsInjective(t)
PROOF
  <1> DEFINE t == Append(s, x)
  <1>1. /\ t \in Seq(S) /\ Len(t) = Len(s) + 1 /\ t[Len(s) + 1] = x
        /\ \A i \in 1 .. Len(s) : t[i] = s[i]
    BY AppendProperties
  <1> HIDE DEF t
  <1>2. Len(s) \in Nat /\ DOMAIN s = 1 .. Len(s) /\ DOMAIN t = 1 .. Len(s) + 1
    BY <1>1, LenProperties
  <1>3. \A y : Contains(t, y) <=> y = x \/ Contains(s, y)
    BY <1>1, <1>2 DEF Contains
  <1>4. ASSUME IsInjective(s), ~ Contains(s, x)
        PROVE  IsInjective(t)
    <2>1. \A i \in 1 .. Len(s) : t[i] # x
      BY <1>1, <1>4 DEF Contains
    <2> QED
      BY <1>1, <1>2, <1>4, <2>1 DEF IsInjective
  <1> QED
    BY <1>1, <1>2, <1>3, <1>4 DEF t

(* push_front.                                                             *)
LEMMA PushFront ==
  ASSUME NEW S, NEW s \in Seq(S), NEW x \in S
  PROVE  LET t == <<x>> \o s IN
         /\ t \in Seq(S) /\ Len(t) = Len(s) + 1 /\ t[1] = x
         /\ DOMAIN t = 1 .. Len(s) + 1
         /\ \A i \in 1 .. Len(s) : t[i + 1] = s[i]
         /\ \A y : Contains(t, y) <=> y = x \/ Contains(s, y)
         /\ IsInjective(s) /\ ~ Contains(s, x) => IsInjective(t)
PROOF
  <1> DEFINE t == <<x>> \o s
             n == Len(s)
  <1>1. <<x>> \in Seq(S) /\ Len(<<x>>) = 1 /\ <<x>>[1] = x /\ n \in Nat /\ DOMAIN s = 1 .. n
    BY LenProperties
  <1>2. /\ t \in Seq(S) /\ Len(t) = n + 1
        /\ \A i \in 1 .. n + 1 : t[i] = IF i <= 1 THEN <<x>>[i] ELSE s[i - 1]
    <2>1. /\ t \in Seq(S) /\ Len(t) = Len(<<x>>) + Len(s)
          /\ \A i \in 1 .. Len(<<x>>) + Len(s) :
               t[i] = IF i <= Len(<<x>>) THEN <<x>>[i] ELSE s[i - Len(<<x>>)]
      BY <1>1, ConcatProperties
    <2> QED
      BY <1>1, <2>1
  <1> HIDE DEF t, n
  <1>3. DOMAIN t = 1 .. n + 1
    BY <1>2, LenProperties
  <1>4. t[1] = x /\ \A i \in 1 .. n : t[i + 1] = s[i]
    BY <1>1, <1>2
  <1>5. \A i \in 1 .. n + 1 : i = 1 \/ (i - 1 \in 1 .. n /\ t[i] = s[i - 1])
    BY <1>1, <1>2
  <1>6. ASSUME NEW y
        PROVE  Contains(t, y) <=> y = x \/ Contains(s, y)
    <2>1. Contains(t, y) => y = x \/ \E i \in 1 .. n : s[i] = y
      BY <1>2, <1>4, <1>5 DEF Contains
    <2>2. y = x => Contains(t, y)
      BY <1>1, <1>2, <1>4 DEF Contains
    <2>3. \A i \in 1 .. n : s[i] = y => Contains(t, y)
      <3>1. \A i \in 1 .. n : i + 1 \in 1 .. n + 1
        BY <1>1
      <3> QED
        BY <1>2, <1>4, <3>1 DEF Contains
    <2> QED
      BY <2>1, <2>2, <2>3 DEF Contains, n
  <1>7. ASSUME IsInjective(s), ~ Contains(s, x)
        PROVE  IsInjective(t)
    <2>1. \A i \in 1 .. n : s[i] # x
      BY <1>7 DEF Contains, n
    <2>2. ASSUME NEW a \in 1 .. n + 1, NEW b \in 1 .. n + 1, t[a] = t[b]
          PROVE  a = b
      <3>1. a = 1 => b = 1
        BY <1>4, <1>5, <2>1, <2>2
      <3>2. b = 1 => a = 1
        BY <1>4, <1>5, <2>1, <2>2
      <3>3. ASSUME a # 1, b # 1
            PROVE  a = b
        <4>1. a - 1 \in 1 .. n /\ b - 1 \in 1 .. n /\ s[a - 1] = s[b - 1]
          BY <1>5, <2>2, <3>3
        <4>2. a - 1 = b - 1
          BY <1>1, <1>7, <4>1 DEF IsInjective
        <4> QED
          BY <1>1, <4>2
      <3> QED
        BY <3>1, <3>2, <3>3
    <2> QED
      BY <1>3, <2>2 DEF IsInjective
  <1> QED
    BY <1>2, <1>3, <1>4, <1>6, <1>7 DEF t, n

(* erase, of the element at a position.                                    *)
LEMMA Erase ==
  ASSUME NEW S, NEW s \in Seq(S), NEW j \in 1 .. Len(s), IsInjective(s)
  PROVE  LET t == RemoveAt(s, j) IN
         /\ t \in Seq(S) /\ Len(t) = Len(s) - 1
         /\ DOMAIN t = 1 .. Len(s) - 1
         /\ \A i \in 1 .. Len(s) - 1 : t[i] = IF i < j THEN s[i] ELSE s[i + 1]
         /\ \A y : Contains(t, y) <=> y # s[j] /\ Contains(s, y)
         /\ IsInjective(t)
PROOF
  <1> DEFINE t == RemoveAt(s, j)
             n == Len(s)
             a == SubSeq(s, 1, j - 1)
             b == SubSeq(s, j + 1, n)
  <1>1. n \in Nat /\ DOMAIN s = 1 .. n /\ \A i \in 1 .. n : s[i] \in S
    BY LenProperties, ElementOfSeq
  <1>2. /\ a \in Seq(S) /\ Len(a) = j - 1
        /\ \A i \in 1 .. j - 1 : a[i] = s[i]
    <2>1. \A i \in 1 .. j - 1 : s[i] \in S
      BY <1>1
    <2>2. /\ a \in Seq(S) /\ Len(a) = IF 1 <= j - 1 THEN j - 1 - 1 + 1 ELSE 0
          /\ \A i \in 1 .. j - 1 - 1 + 1 : a[i] = s[1 + i - 1]
      BY <1>1, <2>1, SubSeqProperties
    <2> QED
      BY <1>1, <2>2
  <1>3. /\ b \in Seq(S) /\ Len(b) = n - j
        /\ \A i \in 1 .. n - j : b[i] = s[j + i]
    <2>1. \A i \in j + 1 .. n : s[i] \in S
      BY <1>1
    <2>2. /\ b \in Seq(S) /\ Len(b) = IF j + 1 <= n THEN n - (j + 1) + 1 ELSE 0
          /\ \A i \in 1 .. n - (j + 1) + 1 : b[i] = s[j + 1 + i - 1]
      BY <1>1, <2>1, SubSeqProperties
    <2>3. j \in 1 .. n
      OBVIOUS
    <2> HIDE DEF b, n
    <2>4. Len(b) = n - j
      BY <1>1, <2>2, <2>3
    <2>5. \A i \in 1 .. n - j : i \in 1 .. n - (j + 1) + 1 /\ j + 1 + i - 1 = j + i
      BY <1>1, <2>3
    <2> QED
      BY <2>2, <2>4, <2>5
  <1>4. t = a \o b
    BY DEF RemoveAt
  <1> HIDE DEF t, a, b
  <1>5. /\ t \in Seq(S) /\ Len(t) = Len(a) + Len(b)
        /\ \A i \in 1 .. Len(a) + Len(b) : t[i] = IF i <= Len(a) THEN a[i] ELSE b[i - Len(a)]
    BY <1>2, <1>3, <1>4, ConcatProperties
  <1>6. Len(a) + Len(b) = n - 1
    BY <1>1, <1>2, <1>3
  <1>7. DOMAIN t = 1 .. n - 1
    BY <1>5, <1>6, LenProperties
  <1> HIDE DEF n
  <1>8. ASSUME NEW i \in 1 .. n - 1
        PROVE  t[i] = IF i < j THEN s[i] ELSE s[i + 1]
    <2>1. CASE i < j
      <3>1. i \in 1 .. j - 1 /\ i <= Len(a)
        BY <1>1, <1>2, <2>1
      <3> QED
        BY <1>2, <1>5, <1>6, <2>1, <3>1
    <2>2. CASE ~ i < j
      <3>1. i - (j - 1) \in 1 .. n - j /\ ~ i <= Len(a) /\ j + (i - (j - 1)) = i + 1
        BY <1>1, <1>2, <2>2 DEF n
      <3> QED
        BY <1>2, <1>3, <1>5, <1>6, <2>2, <3>1, SMTT(30)
    <2> QED
      BY <2>1, <2>2
  <1>9. j \in 1 .. n
    BY DEF n
  <1>10. ASSUME NEW y
         PROVE  Contains(t, y) <=> y # s[j] /\ Contains(s, y)
    <2>1. ASSUME NEW i \in 1 .. n - 1, t[i] = y
          PROVE  y # s[j] /\ Contains(s, y)
      <3>1. PICK k \in 1 .. n : k # j /\ s[k] = y
        <4>1. i \in 1 .. n /\ i + 1 \in 1 .. n /\ (i < j => i # j) /\ (~ i < j => i + 1 # j)
          BY <1>1, <1>9
        <4> QED
          BY <1>8, <2>1, <4>1
      <3> QED
        BY <1>1, <1>9, <3>1 DEF Contains, IsInjective, n
    <2>2. ASSUME NEW k \in 1 .. n, s[k] = y, y # s[j]
          PROVE  \E i \in 1 .. n - 1 : t[i] = y
      <3>1. CASE k < j
        <4>1. k \in 1 .. n - 1
          BY <1>1, <1>9, <3>1
        <4> QED
          BY <1>8, <2>2, <3>1, <4>1
      <3>2. CASE ~ k < j
        <4>1. k # j
          BY <2>2
        <4>2. k - 1 \in 1 .. n - 1 /\ ~ k - 1 < j /\ k - 1 + 1 = k
          BY <1>1, <1>9, <3>2, <4>1
        <4> QED
          BY <1>8, <2>2, <4>2
      <3> QED
        BY <3>1, <3>2
    <2> QED
      BY <1>5, <1>6, <2>1, <2>2 DEF Contains, n
  <1>11. IsInjective(t)
    <2>1. ASSUME NEW u \in 1 .. n - 1, NEW v \in 1 .. n - 1, t[u] = t[v]
          PROVE  u = v
      <3> DEFINE at(i) == IF i < j THEN i ELSE i + 1
      <3>1. at(u) \in 1 .. n /\ at(v) \in 1 .. n /\ s[at(u)] = s[at(v)]
        BY <1>1, <1>8, <1>9, <2>1
      <3>2. at(u) = at(v)
        <4> HIDE DEF at
        <4> QED
          BY <1>1, <3>1 DEF IsInjective
      <3> QED
        BY <1>1, <1>9, <3>2
    <2> QED
      BY <1>7, <2>1 DEF IsInjective
  <1> QED
    BY <1>5, <1>6, <1>7, <1>8, <1>10, <1>11 DEF t, n

(* pop_front.                                                              *)
LEMMA PopFront ==
  ASSUME NEW S, NEW s \in Seq(S), s # <<>>, IsInjective(s)
  PROVE  LET t == Tail(s) IN
         /\ t \in Seq(S) /\ Len(t) = Len(s) - 1 /\ DOMAIN t = 1 .. Len(s) - 1
         /\ Head(s) = s[1] /\ Head(s) \in S /\ Contains(s, Head(s))
         /\ \A i \in 1 .. Len(s) - 1 : t[i] = s[i + 1]
         /\ \A y : Contains(t, y) <=> y # Head(s) /\ Contains(s, y)
         /\ IsInjective(t)
PROOF
  <1> DEFINE t == Tail(s)
             n == Len(s)
  <1>1. n \in Nat \ {0} /\ DOMAIN s = 1 .. n /\ Head(s) = s[1] /\ Head(s) \in S
    BY LenProperties, EmptySeq, HeadTailProperties
  <1>2. t \in Seq(S) /\ Len(t) = n - 1 /\ \A i \in 1 .. n - 1 : t[i] = s[i + 1]
    <2>1. /\ t \in Seq(S) /\ Len(t) = Len(s) - 1
          /\ \A i \in 1 .. Len(t) : t[i] = s[i + 1]
      BY HeadTailProperties
    <2> QED
      BY <2>1
  <1> HIDE DEF t
  <1>3. DOMAIN t = 1 .. n - 1
    BY <1>2, LenProperties
  <1>4. Contains(s, Head(s))
    BY <1>1 DEF Contains
  <1> HIDE DEF n
  <1>5. ASSUME NEW y
        PROVE  Contains(t, y) <=> y # Head(s) /\ Contains(s, y)
    <2>1. ASSUME NEW i \in 1 .. n - 1, t[i] = y
          PROVE  y # Head(s) /\ Contains(s, y)
      <3>1. i + 1 \in 1 .. n /\ 1 \in 1 .. n /\ i + 1 # 1 /\ s[i + 1] = y
        BY <1>1, <1>2, <2>1
      <3> QED
        BY <1>1, <3>1 DEF Contains, IsInjective, n
    <2>2. ASSUME NEW k \in 1 .. n, s[k] = y, y # Head(s)
          PROVE  \E i \in 1 .. n - 1 : t[i] = y
      <3>1. k # 1
        BY <1>1, <2>2
      <3>2. k - 1 \in 1 .. n - 1 /\ k - 1 + 1 = k
        BY <1>1, <3>1
      <3> QED
        BY <1>2, <2>2, <3>2
    <2> QED
      BY <1>2, <2>1, <2>2 DEF Contains, n
  <1>6. IsInjective(t)
    <2>1. ASSUME NEW u \in 1 .. n - 1, NEW v \in 1 .. n - 1, t[u] = t[v]
          PROVE  u = v
      <3>1. u + 1 \in 1 .. n /\ v + 1 \in 1 .. n /\ s[u + 1] = s[v + 1]
        BY <1>1, <1>2, <2>1
      <3>2. u + 1 = v + 1
        BY <1>1, <3>1 DEF IsInjective
      <3> QED
        BY <1>1, <3>2
    <2> QED
      BY <1>3, <2>1 DEF IsInjective
  <1> QED
    BY <1>1, <1>2, <1>3, <1>4, <1>5, <1>6 DEF t, n

(* pop_back.                                                               *)
LEMMA PopBack ==
  ASSUME NEW S, NEW s \in Seq(S), s # <<>>, IsInjective(s)
  PROVE  LET t == Front(s) IN
         /\ t \in Seq(S) /\ Len(t) = Len(s) - 1 /\ DOMAIN t = 1 .. Len(s) - 1
         /\ Last(s) \in S /\ Contains(s, Last(s))
         /\ \A i \in 1 .. Len(s) - 1 : t[i] = s[i]
         /\ \A y : Contains(t, y) <=> y # Last(s) /\ Contains(s, y)
         /\ IsInjective(t)
PROOF
  <1> DEFINE t == Front(s)
             n == Len(s)
  <1>1. /\ n \in Nat \ {0} /\ DOMAIN s = 1 .. n /\ Last(s) = s[n]
        /\ \A i \in 1 .. n : s[i] \in S
    BY LenProperties, EmptySeq, ElementOfSeq DEF Last
  <1>2. t \in Seq(S) /\ Len(t) = n - 1 /\ \A i \in 1 .. n - 1 : t[i] = s[i]
    <2>1. \A i \in 1 .. n - 1 : s[i] \in S
      BY <1>1
    <2>2. n - 1 \in Int /\ 1 \in Int /\ t = SubSeq(s, 1, n - 1)
      BY <1>1 DEF Front
    <2> HIDE DEF t
    <2>3. /\ t \in Seq(S) /\ Len(t) = IF 1 <= n - 1 THEN n - 1 - 1 + 1 ELSE 0
          /\ \A i \in 1 .. n - 1 - 1 + 1 : t[i] = s[1 + i - 1]
      BY <2>1, <2>2, SubSeqProperties
    <2> HIDE DEF n
    <2>4. Len(t) = n - 1
      BY <1>1, <2>3
    <2>5. \A i \in 1 .. n - 1 : i \in 1 .. n - 1 - 1 + 1 /\ 1 + i - 1 = i
      BY <1>1
    <2> QED
      BY <2>3, <2>4, <2>5
  <1> HIDE DEF t
  <1>3. DOMAIN t = 1 .. n - 1
    BY <1>2, LenProperties
  <1>4. Contains(s, Last(s))
    BY <1>1 DEF Contains
  <1> HIDE DEF n
  <1>5. ASSUME NEW y
        PROVE  Contains(t, y) <=> y # Last(s) /\ Contains(s, y)
    <2>1. ASSUME NEW i \in 1 .. n - 1, t[i] = y
          PROVE  y # Last(s) /\ Contains(s, y)
      <3>1. i \in 1 .. n /\ n \in 1 .. n /\ i # n /\ s[i] = y
        BY <1>1, <1>2, <2>1
      <3> QED
        BY <1>1, <3>1 DEF Contains, IsInjective, n
    <2>2. ASSUME NEW k \in 1 .. n, s[k] = y, y # Last(s)
          PROVE  \E i \in 1 .. n - 1 : t[i] = y
      <3>1. k # n
        BY <1>1, <2>2
      <3>2. k \in 1 .. n - 1
        BY <1>1, <3>1
      <3> QED
        BY <1>2, <2>2, <3>2
    <2> QED
      BY <1>2, <2>1, <2>2, SMTT(30) DEF Contains, n
  <1>6. IsInjective(t)
    <2>1. \A i \in 1 .. n - 1 : i \in 1 .. n
      BY <1>1
    <2> QED
      BY <1>1, <1>2, <1>3, <2>1 DEF IsInjective
  <1> QED
    BY <1>1, <1>2, <1>3, <1>4, <1>5, <1>6 DEF t, n

(* Nobody is in an empty queue.                                            *)
LEMMA EmptyQueue ==
  /\ \A S : <<>> \in Seq(S)
  /\ Len(<<>>) = 0 /\ DOMAIN <<>> = {}
  /\ \A x : ~ Contains(<<>>, x)
  /\ IsInjective(<<>>)
PROOF
  <1>1. (\A S : <<>> \in Seq(S)) /\ Len(<<>>) = 0 /\ DOMAIN <<>> = {}
    OBVIOUS
  <1> QED
    BY <1>1 DEF Contains, IsInjective

-----------------------------------------------------------------------------
(* Numbers in a mixed radix.                                               *)

(* Division with a remainder.                                              *)
LEMMA DivMod ==
  ASSUME NEW n \in Nat, NEW q \in Nat \ {0}
  PROVE  n \div q \in Nat /\ n % q \in 0 .. q - 1 /\ n = (q * (n \div q)) + (n % q)
PROOF
  OBVIOUS

(* There is one way to divide.                                             *)
LEMMA DivUnique ==
  ASSUME NEW q \in Nat \ {0}, NEW d \in Nat, NEW r \in 0 .. q - 1
  PROVE  (q * d + r) \div q = d /\ (q * d + r) % q = r
PROOF
  <1>1. PICK n : n = q * d + r
    OBVIOUS
  <1>2. q * d \in Nat
    OBVIOUS
  <1>3. n \in Nat
    BY <1>1, <1>2
  <1>4. PICK e, s : e = n \div q /\ s = n % q
    OBVIOUS
  <1>5. e \in Nat /\ s \in 0 .. q - 1 /\ n = q * e + s
    BY <1>3, <1>4, DivMod
  <1>6. d = e
    <2>1. CASE d < e
      <3>1. q * e >= q * (d + 1)
        BY <1>5, <2>1
      <3>2. q * (d + 1) = q * d + q
        OBVIOUS
      <3> QED
        BY <1>1, <1>2, <1>5, <3>1, <3>2
    <2>2. CASE e < d
      <3>1. q * d >= q * (e + 1)
        BY <1>5, <2>2
      <3>2. q * (e + 1) = q * e + q
        BY <1>5
      <3>3. q * e \in Nat
        BY <1>5
      <3> QED
        BY <1>1, <1>2, <1>5, <3>1, <3>2, <3>3
    <2> QED
      BY <1>5, <2>1, <2>2
  <1>7. s = r
    BY <1>1, <1>2, <1>5, <1>6
  <1> QED
    BY <1>1, <1>4, <1>6, <1>7

(* Adding a multiple of the divisor.                                       *)
LEMMA DivAdd ==
  ASSUME NEW n \in Nat, NEW q \in Nat \ {0}, NEW e \in Nat
  PROVE  (n + e * q) \div q = (n \div q) + e /\ (n + e * q) % q = n % q
PROOF
  <1>1. PICK d, r : d = n \div q /\ r = n % q
    OBVIOUS
  <1>2. d \in Nat /\ r \in 0 .. q - 1 /\ n = q * d + r
    BY <1>1, DivMod
  <1>3. q * (d + e) = q * d + e * q
    BY <1>2
  <1>4. n + e * q = q * (d + e) + r
    <2>1. q * d \in Nat /\ e * q \in Nat
      BY <1>2
    <2> QED
      BY <1>2, <1>3, <2>1
  <1>5. d + e \in Nat
    BY <1>2
  <1>6. (q * (d + e) + r) \div q = d + e /\ (q * (d + e) + r) % q = r
    BY <1>2, <1>5, DivUnique
  <1> QED
    BY <1>1, <1>4, <1>6

(* The places below one divide the number of all.                          *)
LEMMA PlacesBelow ==
  ASSUME NEW w, NEW S \in SUBSET Nat, IsFiniteSet(S), \A x \in S : w[x] \in Nat \ {0}, NEW b \in S
  PROVE  \E r \in Nat \ {0} : ProductOver(w, S) = (ProductOver(w, {c \in S : c < b}) * w[b]) * r
PROOF
  <1> DEFINE Has(s) == \E r \in Nat \ {0} : ProductOver(w, s) = (ProductOver(w, {c \in s : c < b}) * w[b]) * r
             K == {s \in FiniteSubsetsOf(S) : b \in s /\ ~ Has(s)}
  <1>1. K = {}
    <2>1. SUFFICES ASSUME K # {} PROVE FALSE
      OBVIOUS
    <2>2. PICK s \in K : \A t \in K : t \subseteq s => t = s
      <3>1. K \subseteq FiniteSubsetsOf(S)
        OBVIOUS
      <3> HIDE DEF K
      <3> QED
        BY <2>1, <3>1, SmallestSet
    <2>3. s \in SUBSET S /\ IsFiniteSet(s) /\ ~ Has(s) /\ b \in s
      BY DEF FiniteSubsetsOf
    <2>4. PICK m \in s : \A y \in s : m >= y
      <3>1. s \in SUBSET Int /\ s # {}
        BY <2>3
      <3> HIDE DEF K
      <3> QED
        BY <2>3, <3>1, LeastGreatest
    <2> DEFINE t == s \ {m}
    <2>5. IsFiniteSet(t) /\ t \in SUBSET S /\ t # s /\ t \subseteq s
      BY <2>3, <2>4, FS_RemoveElement
    <2>6. ProductOver(w, s) = ProductOver(w, t) * w[m]
      BY <2>3, ProductTakeOut
    <2>7. ProductOver(w, t) \in Nat \ {0} /\ w[m] \in Nat \ {0}
      BY <2>3, <2>5, ProductPositive
    <2>8. CASE b = m
      <3>1. {c \in s : c < b} = t
        <4>1. \A c \in s : c \in Nat /\ c <= b
          BY <2>3, <2>4, <2>8
        <4>2. \A c \in s : c < b <=> c # b
          BY <2>8, <4>1
        <4> QED
          BY <2>8, <4>2
      <3>2. ProductOver(w, s) = (ProductOver(w, {c \in s : c < b}) * w[b]) * 1
        BY <2>6, <2>7, <2>8, <3>1
      <3> QED
        BY <2>3, <3>2
    <2>9. CASE b # m
      <3>1. b \in t /\ t \in FiniteSubsetsOf(S)
        BY <2>3, <2>5, <2>9 DEF FiniteSubsetsOf
      <3>2. Has(t)
        BY <2>2, <2>5, <3>1
      <3>3. {c \in s : c < b} = {c \in t : c < b}
        <4>1. ~ m < b
          BY <2>3, <2>4
        <4> QED
          BY <4>1
      <3>4. PICK r \in Nat \ {0} : ProductOver(w, t) = (ProductOver(w, {c \in t : c < b}) * w[b]) * r
        BY <3>2
      <3>5. PICK p, q : p = ProductOver(w, {c \in t : c < b}) * w[b] /\ q = w[m]
        OBVIOUS
      <3>6. p \in Nat \ {0} /\ q \in Nat \ {0}
        <4>1. ProductOver(w, {c \in t : c < b}) \in Nat \ {0} /\ w[b] \in Nat \ {0}
          BY <2>5, FS_Subset, ProductPositive
        <4> QED
          BY <2>7, <3>5, <4>1
      <3>7. \A x, y, z \in Nat \ {0} : (x * y) * z = x * (y * z) /\ y * z \in Nat \ {0}
        OBVIOUS
      <3>8. ProductOver(w, s) = p * (r * q) /\ r * q \in Nat \ {0}
        BY <2>6, <3>4, <3>5, <3>6, <3>7
      <3>9. Has(s)
        BY <3>3, <3>5, <3>8
      <3> QED
        BY <2>3, <3>9
    <2> QED
      BY <2>8, <2>9
  <1>2. S \in FiniteSubsetsOf(S)
    BY DEF FiniteSubsetsOf
  <1> QED
    BY <1>1, <1>2

(* Every combination of digits is counted.                                 *)
LEMMA AllCounted ==
  ASSUME NEW w, NEW S \in SUBSET Nat, IsFiniteSet(S), \A x \in S : w[x] \in Nat \ {0},
         NEW i, \A x \in S : i[x] \in 0 .. w[x] - 1
  PROVE  \E n \in 0 .. ProductOver(w, S) - 1 :
           \A b \in S : (n \div ProductOver(w, {c \in S : c < b})) % w[b] = i[b]
PROOF
  <1> DEFINE Has(s) == \E n \in 0 .. ProductOver(w, s) - 1 :
                         \A b \in s : (n \div ProductOver(w, {c \in s : c < b})) % w[b] = i[b]
             K == {s \in FiniteSubsetsOf(S) : ~ Has(s)}
  <1>1. K = {}
    <2>1. SUFFICES ASSUME K # {} PROVE FALSE
      OBVIOUS
    <2>2. PICK s \in K : \A t \in K : t \subseteq s => t = s
      <3>1. K \subseteq FiniteSubsetsOf(S)
        OBVIOUS
      <3> HIDE DEF K
      <3> QED
        BY <2>1, <3>1, SmallestSet
    <2>3. s \in SUBSET S /\ IsFiniteSet(s) /\ ~ Has(s)
      BY DEF FiniteSubsetsOf
    <2>4. s # {}
      <3> SUFFICES ASSUME s = {} PROVE FALSE
        OBVIOUS
      <3>1. 0 \in 0 .. ProductOver(w, s) - 1
        BY ProductEmpty
      <3> QED
        BY <2>3, <3>1
    <2>5. PICK m \in s : \A y \in s : m >= y
      <3>1. s \in SUBSET Int
        BY <2>3
      <3> HIDE DEF K
      <3> QED
        BY <2>3, <2>4, <3>1, LeastGreatest
    <2>6. PICK t : t = s \ {m}
      OBVIOUS
    <2>7. IsFiniteSet(t) /\ t \in SUBSET S /\ t # s /\ t \subseteq s
      BY <2>3, <2>5, <2>6, FS_RemoveElement
    <2>8. Has(t)
      BY <2>2, <2>7 DEF FiniteSubsetsOf
    <2>9. PICK P, v, e : P = ProductOver(w, t) /\ v = w[m] /\ e = i[m]
      OBVIOUS
    <2>10. P \in Nat \ {0} /\ v \in Nat \ {0} /\ e \in 0 .. v - 1 /\ ProductOver(w, s) = P * v
      <3>1. P \in Nat \ {0}
        BY <2>7, <2>9, ProductPositive
      <3>2. v \in Nat \ {0} /\ e \in 0 .. v - 1
        BY <2>3, <2>9
      <3>3. ProductOver(w, s) = P * v
        BY <2>3, <2>6, <2>9, ProductTakeOut
      <3> QED
        BY <3>1, <3>2, <3>3
    <2>11. PICK k0 \in 0 .. P - 1 : \A b \in t : (k0 \div ProductOver(w, {c \in t : c < b})) % w[b] = i[b]
      BY <2>8, <2>9
    <2>12. PICK n : n = k0 + e * P
      OBVIOUS
    <2>13. n \in 0 .. P * v - 1
      <3>1. e * P <= (v - 1) * P /\ e * P \in Nat
        BY <2>10
      <3>2. (v - 1) * P = P * v - P /\ P * v \in Nat
        BY <2>10
      <3> QED
        BY <2>10, <2>11, <2>12, <3>1, <3>2
    <2>14. ASSUME NEW b \in s
           PROVE  (n \div ProductOver(w, {c \in s : c < b})) % w[b] = i[b]
      <3>1. CASE b = m
        <4>1. {c \in s : c < b} = t
          <5>1. \A c \in s : c \in Nat /\ c <= b
            BY <2>3, <2>5, <3>1
          <5>2. \A c \in s : c < b <=> c # b
            BY <3>1, <5>1
          <5> QED
            BY <2>6, <3>1, <5>2
        <4>2. n = P * e + k0 /\ e \in Nat
          BY <2>10, <2>11, <2>12
        <4>3. n \div P = e
          BY <2>10, <2>11, <4>2, DivUnique
        <4>4. e % v = e
          <5>1. (v * 0 + e) % v = e
            BY <2>10, DivUnique
          <5> QED
            BY <2>10, <5>1
        <4> QED
          BY <2>9, <3>1, <4>1, <4>3, <4>4
      <3>2. CASE b # m
        <4>1. b \in t /\ {c \in s : c < b} = {c \in t : c < b}
          <5>1. ~ m < b
            BY <2>3, <2>5
          <5> QED
            BY <2>6, <3>2, <5>1
        <4>2. PICK Q, u : Q = ProductOver(w, {c \in t : c < b}) /\ u = w[b]
          OBVIOUS
        <4>3. Q \in Nat \ {0} /\ u \in Nat \ {0}
          <5>1. {c \in t : c < b} \subseteq S /\ IsFiniteSet({c \in t : c < b})
            BY <2>7, FS_Subset
          <5> QED
            BY <2>3, <4>2, <5>1, ProductPositive
        <4>4. PICK r \in Nat \ {0} : P = (Q * u) * r
          BY <2>7, <2>9, <4>1, <4>2, PlacesBelow
        <4>5. \A x, y, z, o \in Nat : x * y \in Nat /\ o * ((x * y) * z) = ((o * z) * y) * x
          OBVIOUS
        <4>6. PICK f : f = e * r
          OBVIOUS
        <4>7. f \in Nat /\ f * u \in Nat /\ e * P = (f * u) * Q /\ k0 \in Nat
          <5>1. e \in Nat /\ r \in Nat /\ u \in Nat /\ Q \in Nat
            BY <2>10, <4>3
          <5>2. f \in Nat /\ f * u \in Nat
            BY <4>5, <4>6, <5>1
          <5>3. e * P = (f * u) * Q
            BY <4>4, <4>5, <4>6, <5>1
          <5> QED
            BY <2>10, <2>11, <5>2, <5>3
        <4>8. PICK g, d : g = f * u /\ d = k0 \div Q
          OBVIOUS
        <4>9. n \div Q = d + f * u
          <5>1. n = k0 + g * Q /\ g \in Nat /\ k0 \in Nat /\ Q \in Nat \ {0}
            BY <2>12, <4>3, <4>7, <4>8
          <5>2. (k0 + g * Q) \div Q = (k0 \div Q) + g
            BY <5>1, DivAdd
          <5> QED
            BY <4>8, <5>1, <5>2
        <4>10. (n \div Q) % u = (k0 \div Q) % u
          <5>1. d \in Nat /\ f \in Nat /\ u \in Nat \ {0}
            BY <4>3, <4>7, <4>8, DivMod
          <5>2. (d + f * u) % u = d % u
            BY <5>1, DivAdd
          <5> QED
            BY <4>8, <4>9, <5>2
        <4> QED
          BY <2>11, <4>1, <4>2, <4>10
      <3> QED
        BY <3>1, <3>2
    <2>15. Has(s)
      BY <2>10, <2>13, <2>14
    <2> QED
      BY <2>3, <2>15
  <1>2. S \in FiniteSubsetsOf(S)
    BY DEF FiniteSubsetsOf
  <1> QED
    BY <1>1, <1>2

=============================================================================

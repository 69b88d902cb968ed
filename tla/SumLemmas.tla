----------------------------- MODULE SumLemmas -----------------------------
(***************************************************************************)
(* What a total over a finite set is.  The library's MapThenSumSet chooses *)
(* a recursive function over the subsets; here that function is shown to   *)
(* exist and to be the only one, and the total to be independent of the    *)
(* order in which the elements are taken.                                  *)
(*                                                                         *)
(* Induction over finite sets is the search for a smallest counterexample, *)
(* which exists because strict inclusion between finite sets is            *)
(* well-founded.                                                           *)
(***************************************************************************)
EXTENDS Sums, FiniteSets, FiniteSetTheorems, WellFoundedInduction, TLAPS

(***************************************************************************)
(* Any set of finite subsets of A has a smallest member.                   *)
(***************************************************************************)
LEMMA SmallestSet ==
    ASSUME NEW A, NEW Bad, Bad \subseteq FiniteSubsetsOf(A), Bad # {}
    PROVE  \E S \in Bad : \A T \in Bad : T \subseteq S => T = S
<1>1. IsWellFoundedOn(StrictSubsetOrdering(A), FiniteSubsetsOf(A))
  BY FS_StrictSubsetOrderingWellFounded
<1>2. PICK S \in Bad : \A T \in Bad : <<T, S>> \notin StrictSubsetOrdering(A)
  BY <1>1, WFMin
<1>. QED
  BY <1>2 DEF StrictSubsetOrdering, FiniteSubsetsOf

-----------------------------------------------------------------------------
(***************************************************************************)
(* The recursive function inside MapThenSumSet, over the subsets of T.     *)
(***************************************************************************)
First(s) == CHOOSE x \in s : TRUE

Adds(h, g, T) ==
    h = [s \in SUBSET T |-> IF s = {} THEN 0 ELSE g[First(s)] + h[s \ {First(s)}]]

Adder(g, T) == CHOOSE h : Adds(h, g, T)

(***************************************************************************)
(* SumOf is the value that function has at the whole set.                  *)
(***************************************************************************)
LEMMA SumIsSums == ASSUME NEW g, NEW S PROVE SumOf(g, S) = Adder(g, S)[S]
BY DEF SumOf, MapThenSumSet, MapThenFoldSet, Adds, Adder, First

\* The element taken first is one of the set.
LEMMA FirstIn == ASSUME NEW s, s # {} PROVE First(s) \in s
BY DEF First

(***************************************************************************)
(* Two such functions agree on every finite set both are defined for.      *)
(***************************************************************************)
LEMMA SumsAgree ==
    ASSUME NEW g, NEW T, NEW U, NEW h, NEW k, Adds(h, g, T), Adds(k, g, U),
           NEW s \in SUBSET (T \cap U), IsFiniteSet(s)
    PROVE  h[s] = k[s]
<1>. DEFINE Bad == {r \in FiniteSubsetsOf(s) : h[r] # k[r]}
<1>. SUFFICES ASSUME Bad # {} PROVE FALSE
  <2>1. s \in FiniteSubsetsOf(s)
    BY DEF FiniteSubsetsOf
  <2>. QED
    BY <2>1
<1>1. Bad \subseteq FiniteSubsetsOf(s)
  OBVIOUS
<1>. HIDE DEF Bad
<1>2. PICK r \in Bad : \A q \in Bad : q \subseteq r => q = r
  BY <1>1, SmallestSet
<1>3. r \subseteq s /\ IsFiniteSet(r) /\ h[r] # k[r]
  BY <1>2 DEF Bad, FiniteSubsetsOf
<1>4. r # {}
  BY <1>3 DEF Adds
<1>. DEFINE q == r \ {First(r)}
<1>5. q \in FiniteSubsetsOf(s) /\ q \subseteq r /\ q # r
  BY <1>3, <1>4, FirstIn, FS_Subset DEF FiniteSubsetsOf
<1>6. h[q] = k[q]
  BY <1>2, <1>5 DEF Bad
<1>7. h[r] = g[First(r)] + h[q] /\ k[r] = g[First(r)] + k[q]
  BY <1>3, <1>4 DEF Adds
<1>. QED
  BY <1>3, <1>6, <1>7

(***************************************************************************)
(* Such a function exists over the subsets of every finite set.            *)
(***************************************************************************)
LEMMA SumsExist ==
    ASSUME NEW g, NEW A, IsFiniteSet(A)
    PROVE  Adds(Adder(g, A), g, A)
<1>. DEFINE Bad == {T \in FiniteSubsetsOf(A) : ~ \E h : Adds(h, g, T)}
<1>. SUFFICES ASSUME Bad # {} PROVE FALSE
  <2>1. A \in FiniteSubsetsOf(A)
    BY DEF FiniteSubsetsOf
  <2>. QED
    BY <2>1 DEF Adder
<1>1. Bad \subseteq FiniteSubsetsOf(A)
  OBVIOUS
<1>. HIDE DEF Bad
<1>2. PICK T \in Bad : \A U \in Bad : U \subseteq T => U = T
  BY <1>1, SmallestSet
<1>3. T \subseteq A /\ IsFiniteSet(T) /\ ~ \E h : Adds(h, g, T)
  BY <1>2 DEF Bad, FiniteSubsetsOf
<1>. DEFINE Rest(s) == s \ {First(s)}
            Sum(s) == Adder(g, s)[s]
            h == [s \in SUBSET T |-> IF s = {} THEN 0 ELSE g[First(s)] + Sum(Rest(s))]
<1>4. ASSUME NEW U, U \subseteq T, U # T PROVE Adds(Adder(g, U), g, U) /\ IsFiniteSet(U)
  <2>1. IsFiniteSet(U)
    BY <1>3, <1>4, FS_Subset
  <2>2. U \in FiniteSubsetsOf(A) /\ U \notin Bad
    BY <1>2, <1>3, <1>4, <2>1 DEF FiniteSubsetsOf
  <2>. QED
    BY <2>1, <2>2 DEF Bad, Adder
<1>5. ASSUME NEW s \in SUBSET T, s # {} PROVE h[Rest(s)] = Sum(Rest(s))
  <2>. DEFINE u == Rest(s)
  <2>1. u \subseteq T /\ u # T /\ First(s) \in s
    BY <1>5, FirstIn
  <2>2. Adds(Adder(g, u), g, u) /\ IsFiniteSet(u)
    BY <1>4, <2>1
  <2>3. CASE u = {}
    <3>1. Adder(g, u)[u] = 0
      BY <2>2, <2>3 DEF Adds
    <3>. QED
      BY <2>1, <2>3, <3>1
  <2>4. CASE u # {}
    <3>1. Rest(u) \subseteq T /\ Rest(u) # T /\ Rest(u) \subseteq u
      BY <2>1
    <3>2. Adds(Adder(g, Rest(u)), g, Rest(u)) /\ IsFiniteSet(Rest(u))
      BY <1>4, <3>1
    <3>3. Adder(g, u)[u] = g[First(u)] + Adder(g, u)[Rest(u)]
      BY <2>2, <2>4 DEF Adds
    <3>4. Adder(g, u)[Rest(u)] = Adder(g, Rest(u))[Rest(u)]
      <4>1. Rest(u) \in SUBSET (u \cap Rest(u))
        BY <3>1
      <4>. QED
        BY <2>2, <3>2, <4>1, SumsAgree
    <3>5. h[u] = g[First(u)] + Sum(Rest(u))
      BY <2>1, <2>4
    <3>. QED
      BY <3>3, <3>4, <3>5
  <2>. QED
    BY <2>3, <2>4
<1>6. h = [s \in SUBSET T |-> IF s = {} THEN 0 ELSE g[First(s)] + h[Rest(s)]]
  <2>. DEFINE k == [s \in SUBSET T |-> IF s = {} THEN 0 ELSE g[First(s)] + h[Rest(s)]]
  <2>1. \A s \in SUBSET T : h[s] = k[s]
    BY <1>5
  <2>2. h = [s \in SUBSET T |-> h[s]] /\ k = [s \in SUBSET T |-> k[s]]
    OBVIOUS
  <2>. HIDE DEF h, k
  <2>3. h = k
    BY <2>1, <2>2
  <2>. QED
    BY <2>3 DEF k
<1>7. Adds(h, g, T)
  <2>. HIDE DEF h
  <2>. QED
    BY <1>6 DEF Adds
<1>. QED
  BY <1>3, <1>7

(***************************************************************************)
(* Nothing adds up to zero ...                                             *)
(***************************************************************************)
LEMMA SumEmpty == ASSUME NEW g PROVE SumOf(g, {}) = 0
<1>1. Adds(Adder(g, {}), g, {})
  BY SumsExist, FS_EmptySet
<1>. QED
  BY <1>1, SumIsSums DEF Adds

(***************************************************************************)
(* ... and a set to its first element and the rest.                        *)
(***************************************************************************)
LEMMA SumOne ==
    ASSUME NEW g, NEW S, IsFiniteSet(S), S # {}
    PROVE  SumOf(g, S) = g[First(S)] + SumOf(g, S \ {First(S)})
<1>. DEFINE R == S \ {First(S)}
<1>1. IsFiniteSet(R) /\ R \in SUBSET (S \cap R)
  BY FS_Subset
<1>2. Adds(Adder(g, S), g, S) /\ Adds(Adder(g, R), g, R)
  BY <1>1, SumsExist
<1>3. Adder(g, S)[S] = g[First(S)] + Adder(g, S)[R]
  BY <1>2 DEF Adds
<1>4. Adder(g, S)[R] = Adder(g, R)[R]
  BY <1>1, <1>2, SumsAgree
<1>. QED
  BY <1>3, <1>4, SumIsSums

(***************************************************************************)
(* The form in which the induction is used: of the subsets of a finite set *)
(* that are bad, one is not bad any more whichever element it loses.       *)
(***************************************************************************)
LEMMA SmallestSubset ==
    ASSUME NEW A, IsFiniteSet(A), NEW Bad, Bad \subseteq SUBSET A, Bad # {}
    PROVE  \E S \in Bad : IsFiniteSet(S) /\ \A x \in S : S \ {x} \notin Bad
<1>1. Bad \subseteq FiniteSubsetsOf(A)
  BY FS_Subset DEF FiniteSubsetsOf
<1>2. PICK S \in Bad : \A T \in Bad : T \subseteq S => T = S
  BY <1>1, SmallestSet
<1>. QED
  BY <1>1, <1>2 DEF FiniteSubsetsOf

(***************************************************************************)
(* Integers add up to an integer.                                          *)
(***************************************************************************)
LEMMA SumType ==
    ASSUME NEW g, NEW A, IsFiniteSet(A), \A x \in A : g[x] \in Int
    PROVE  SumOf(g, A) \in Int
<1>. DEFINE Bad == {S \in SUBSET A : SumOf(g, S) \notin Int}
<1>. SUFFICES ASSUME Bad # {} PROVE FALSE
  OBVIOUS
<1>1. PICK S \in Bad : IsFiniteSet(S) /\ \A x \in S : S \ {x} \notin Bad
  <2>. Bad \subseteq SUBSET A
    OBVIOUS
  <2>. HIDE DEF Bad
  <2>. QED
    BY SmallestSubset
<1>2. S # {}
  BY SumEmpty
<1>3. First(S) \in S /\ SumOf(g, S \ {First(S)}) \in Int
  BY <1>1, <1>2, FirstIn
<1>. QED
  BY <1>1, <1>2, <1>3, SumOne

(***************************************************************************)
(* ... and naturals to a natural.                                          *)
(***************************************************************************)
LEMMA SumNat ==
    ASSUME NEW g, NEW A, IsFiniteSet(A), \A x \in A : g[x] \in Nat
    PROVE  SumOf(g, A) \in Nat
<1>. DEFINE Bad == {S \in SUBSET A : SumOf(g, S) \notin Nat}
<1>. SUFFICES ASSUME Bad # {} PROVE FALSE
  OBVIOUS
<1>1. PICK S \in Bad : IsFiniteSet(S) /\ \A x \in S : S \ {x} \notin Bad
  <2>. Bad \subseteq SUBSET A
    OBVIOUS
  <2>. HIDE DEF Bad
  <2>. QED
    BY SmallestSubset
<1>2. S # {}
  BY SumEmpty
<1>3. First(S) \in S /\ SumOf(g, S \ {First(S)}) \in Nat
  BY <1>1, <1>2, FirstIn
<1>. QED
  BY <1>1, <1>2, <1>3, SumOne

(***************************************************************************)
(* Any element can be taken out of a sum first.                            *)
(***************************************************************************)
LEMMA SumRest ==
    ASSUME NEW g, NEW A, IsFiniteSet(A), \A x \in A : g[x] \in Int, NEW a \in A
    PROVE  SumOf(g, A) = g[a] + SumOf(g, A \ {a})
<1>. DEFINE Bad == {S \in SUBSET A : \E x \in S : SumOf(g, S) # g[x] + SumOf(g, S \ {x})}
<1>. SUFFICES ASSUME Bad # {} PROVE FALSE
  OBVIOUS
<1>1. PICK S \in Bad : IsFiniteSet(S) /\ \A x \in S : S \ {x} \notin Bad
  <2>. Bad \subseteq SUBSET A
    OBVIOUS
  <2>. HIDE DEF Bad
  <2>. QED
    BY SmallestSubset
<1>2. PICK x \in S : SumOf(g, S) # g[x] + SumOf(g, S \ {x})
  OBVIOUS
<1>. DEFINE c == First(S)
            B == S \ {c, x}
<1>3. c \in S /\ SumOf(g, S) = g[c] + SumOf(g, S \ {c})
  BY <1>1, FirstIn, SumOne
<1>4. x # c
  BY <1>2, <1>3
<1>5. SumOf(g, S \ {c}) = g[x] + SumOf(g, B)
  <2>1. x \in S \ {c} /\ S \ {c} \in SUBSET A /\ (S \ {c}) \ {x} = B
    BY <1>4
  <2>. QED
    BY <1>1, <1>3, <2>1
<1>6. SumOf(g, S \ {x}) = g[c] + SumOf(g, B)
  <2>1. c \in S \ {x} /\ S \ {x} \in SUBSET A /\ (S \ {x}) \ {c} = B
    BY <1>3, <1>4
  <2>2. \A y \in S \ {x} : SumOf(g, S \ {x}) = g[y] + SumOf(g, (S \ {x}) \ {y})
    BY <1>1, <2>1
  <2>. HIDE DEF c, B, Bad
  <2>. QED
    BY <2>1, <2>2
<1>7. SumOf(g, B) \in Int
  BY <1>1, FS_Subset, SumType
<1>8. g[c] \in Int /\ g[x] \in Int
  BY <1>3
<1>. HIDE DEF c, B
<1>. QED
  BY <1>2, <1>3, <1>5, <1>6, <1>7, <1>8

(***************************************************************************)
(* A sum depends on what is added up only.                                 *)
(***************************************************************************)
LEMMA SumSame ==
    ASSUME NEW g, NEW h, NEW A, IsFiniteSet(A), \A x \in A : g[x] = h[x]
    PROVE  SumOf(g, A) = SumOf(h, A)
<1>. DEFINE Bad == {S \in SUBSET A : SumOf(g, S) # SumOf(h, S)}
<1>. SUFFICES ASSUME Bad # {} PROVE FALSE
  OBVIOUS
<1>1. PICK S \in Bad : IsFiniteSet(S) /\ \A x \in S : S \ {x} \notin Bad
  <2>. Bad \subseteq SUBSET A
    OBVIOUS
  <2>. HIDE DEF Bad
  <2>. QED
    BY SmallestSubset
<1>2. S # {}
  BY SumEmpty
<1>3. First(S) \in S /\ SumOf(g, S \ {First(S)}) = SumOf(h, S \ {First(S)})
  BY <1>1, <1>2, FirstIn
<1>. QED
  BY <1>1, <1>2, <1>3, SumOne

(***************************************************************************)
(* Adding k times e to the elements of R adds k times their sum of e.      *)
(***************************************************************************)
LEMMA SumPosting ==
    ASSUME NEW g, NEW h, NEW e, NEW k \in Int, k = 1 \/ k = -1,
           NEW A, IsFiniteSet(A), NEW R \in SUBSET A,
           \A x \in A : g[x] \in Int /\ e[x] \in Int,
           \A x \in A : h[x] = IF x \in R THEN g[x] + k * e[x] ELSE g[x]
    PROVE  SumOf(h, A) = SumOf(g, A) + k * SumOf(e, R)
<1>. DEFINE Bad == {S \in SUBSET A :
                      SumOf(h, S) # SumOf(g, S) + k * SumOf(e, S \cap R)}
<1>. SUFFICES ASSUME Bad # {} PROVE FALSE
  <2>1. A \cap R = R
    OBVIOUS
  <2>. QED
    BY <2>1
<1>1. PICK S \in Bad : IsFiniteSet(S) /\ \A x \in S : S \ {x} \notin Bad
  <2>. Bad \subseteq SUBSET A
    OBVIOUS
  <2>. HIDE DEF Bad
  <2>. QED
    BY SmallestSubset
<1>2. S # {}
  <2>. SUFFICES ASSUME S = {} PROVE FALSE
    OBVIOUS
  <2>1. S \cap R = {}
    OBVIOUS
  <2>. QED
    BY <2>1, SumEmpty
<1>3. PICK x \in S : TRUE
  BY <1>2
<1>. DEFINE B == S \ {x}
<1>4. SumOf(h, B) = SumOf(g, B) + k * SumOf(e, B \cap R)
  BY <1>1, <1>3
<1>5. /\ SumOf(h, S) = h[x] + SumOf(h, B)
      /\ SumOf(g, S) = g[x] + SumOf(g, B)
  <2>1. \A y \in S : g[y] \in Int /\ h[y] \in Int
    OBVIOUS
  <2>. QED
    BY <1>1, <2>1, SumRest
<1>6. /\ IsFiniteSet(B) /\ IsFiniteSet(S \cap R) /\ IsFiniteSet(B \cap R)
      /\ B \cap R \subseteq A
  BY <1>1, FS_Subset
<1>7. SumOf(g, B) \in Int /\ SumOf(e, B \cap R) \in Int
  <2>1. \A y \in B : g[y] \in Int
    OBVIOUS
  <2>2. \A y \in B \cap R : e[y] \in Int
    OBVIOUS
  <2>. QED
    BY <1>6, <2>1, <2>2, SumType
<1>8. CASE x \in R
  <2>1. SumOf(e, S \cap R) = e[x] + SumOf(e, B \cap R)
    <3>1. (S \cap R) \ {x} = B \cap R /\ x \in S \cap R
      BY <1>8
    <3>2. \A y \in S \cap R : e[y] \in Int
      OBVIOUS
    <3>3. SumOf(e, S \cap R) = e[x] + SumOf(e, (S \cap R) \ {x})
      BY <1>6, <3>1, <3>2, SumRest
    <3>. QED
      BY <3>1, <3>3
  <2>2. h[x] = g[x] + k * e[x] /\ g[x] \in Int /\ e[x] \in Int
    BY <1>8
  <2>3. SumOf(h, S) # SumOf(g, S) + k * SumOf(e, S \cap R)
    OBVIOUS
  <2>. HIDE DEF B, Bad
  <2>. QED
    BY <1>4, <1>5, <1>7, <2>1, <2>2, <2>3
<1>9. CASE x \notin R
  <2>1. S \cap R = B \cap R
    BY <1>9
  <2>2. h[x] = g[x] /\ g[x] \in Int
    BY <1>9
  <2>3. SumOf(h, S) # SumOf(g, S) + k * SumOf(e, S \cap R)
    OBVIOUS
  <2>4. SumOf(e, S \cap R) = SumOf(e, B \cap R)
    BY <2>1
  <2>. HIDE DEF B, Bad
  <2>. QED
    BY <1>4, <1>5, <1>7, <2>2, <2>3, <2>4
<1>. QED
  BY <1>8, <1>9

(***************************************************************************)
(* What adds nothing can be left out.                                      *)
(***************************************************************************)
LEMMA SumWithout ==
    ASSUME NEW g, NEW A, IsFiniteSet(A), \A x \in A : g[x] \in Int, NEW a, g[a] = 0
    PROVE  SumOf(g, A) = SumOf(g, A \ {a})
<1>1. CASE a \in A
  <2>1. SumOf(g, A) = 0 + SumOf(g, A \ {a})
    BY <1>1, SumRest
  <2>2. SumOf(g, A \ {a}) \in Int
    <3>1. IsFiniteSet(A \ {a}) /\ \A x \in A \ {a} : g[x] \in Int
      BY FS_Subset
    <3>. QED
      BY <3>1, SumType
  <2>. QED
    BY <2>1, <2>2
<1>2. CASE a \notin A
  <2>1. A \ {a} = A
    BY <1>2
  <2>. QED
    BY <2>1
<1>. QED
  BY <1>1, <1>2

(***************************************************************************)
(* The total of the differences is the difference of the totals.           *)
(***************************************************************************)
LEMMA SumDifference ==
    ASSUME NEW g, NEW e, NEW h, NEW A, IsFiniteSet(A),
           \A x \in A : g[x] \in Int /\ e[x] \in Int /\ h[x] = g[x] - e[x]
    PROVE  SumOf(h, A) = SumOf(g, A) - SumOf(e, A)
<1>1. PICK k \in Int : k = -1
  OBVIOUS
<1>2. \A x \in A : g[x] \in Int /\ e[x] \in Int
  OBVIOUS
<1>3. \A x \in A : h[x] = IF x \in A THEN g[x] + k * e[x] ELSE g[x]
  BY <1>1
<1>4. SumOf(h, A) = SumOf(g, A) + k * SumOf(e, A)
  BY <1>1, <1>2, <1>3, SumPosting
<1>5. SumOf(g, A) \in Int /\ SumOf(e, A) \in Int
  BY <1>2, SumType
<1>. QED
  BY <1>1, <1>4, <1>5

(***************************************************************************)
(* Two sets without a common element add up to their union.                *)
(***************************************************************************)
LEMMA SumUnion ==
    ASSUME NEW g, NEW A, NEW B, IsFiniteSet(A), IsFiniteSet(B), A \cap B = {},
           \A x \in A \cup B : g[x] \in Int
    PROVE  SumOf(g, A \cup B) = SumOf(g, A) + SumOf(g, B)
<1>. DEFINE T == A \cup B
            left == [x \in T |-> IF x \in B THEN 0 ELSE g[x]]
            none == [x \in T |-> 0]
<1>1. IsFiniteSet(T)
  BY FS_Union
<1>2. \A x \in T : g[x] \in Int /\ left[x] \in Int /\ none[x] \in Int
  OBVIOUS
<1>3. SumOf(g, T) = SumOf(left, T) + 1 * SumOf(g, B)
  <2>1. \A x \in T : g[x] = IF x \in B THEN left[x] + 1 * g[x] ELSE left[x]
    BY <1>2
  <2>. B \in SUBSET T
    OBVIOUS
  <2>. HIDE DEF left, T
  <2>. QED
    BY <1>1, <1>2, <2>1, SumPosting
<1>4. SumOf(left, T) = SumOf(none, T) + 1 * SumOf(g, A)
  <2>1. \A x \in T : left[x] = IF x \in A THEN none[x] + 1 * g[x] ELSE none[x]
    BY <1>2
  <2>. A \in SUBSET T
    OBVIOUS
  <2>. HIDE DEF left, none, T
  <2>. QED
    BY <1>1, <1>2, <2>1, SumPosting
<1>5. SumOf(none, T) = SumOf(g, T) - SumOf(g, T)
  <2>1. \A x \in T : none[x] = g[x] - g[x]
    BY <1>2
  <2>. HIDE DEF none, T
  <2>. QED
    BY <1>1, <1>2, <2>1, SumDifference
<1>6. SumOf(g, A) \in Int /\ SumOf(g, B) \in Int /\ SumOf(g, T) \in Int
  BY <1>1, <1>2, SumType
<1>. HIDE DEF left, none, T
<1>. QED
  BY <1>3, <1>4, <1>5, <1>6 DEF T

(***************************************************************************)
(* A total is the total of the totals of its classes.                      *)
(***************************************************************************)
LEMMA SumByClass ==
    ASSUME NEW g, NEW A, IsFiniteSet(A), \A x \in A : g[x] \in Int,
           NEW C, IsFiniteSet(C), NEW class, \A x \in A : class[x] \in C,
           NEW s, \A c \in C : s[c] = SumOf(g, {x \in A : class[x] = c})
    PROVE  SumOf(g, A) = SumOf(s, C)
<1>. DEFINE Of(D) == {x \in A : class[x] \in D}
            One(c) == {x \in A : class[x] = c}
            Bad == {D \in SUBSET C : SumOf(g, Of(D)) # SumOf(s, D)}
<1>. SUFFICES ASSUME Bad # {} PROVE FALSE
  <2>1. Of(C) = A
    OBVIOUS
  <2>. QED
    BY <2>1
<1>1. PICK D \in Bad : IsFiniteSet(D) /\ \A c \in D : D \ {c} \notin Bad
  <2>. Bad \subseteq SUBSET C
    OBVIOUS
  <2>. HIDE DEF Bad
  <2>. QED
    BY SmallestSubset
<1>2. D # {}
  <2>. SUFFICES ASSUME D = {} PROVE FALSE
    OBVIOUS
  <2>1. Of(D) = {}
    OBVIOUS
  <2>. QED
    BY <2>1, SumEmpty
<1>3. PICK c \in D : TRUE
  BY <1>2
<1>. DEFINE E == D \ {c}
<1>4. SumOf(g, Of(E)) = SumOf(s, E)
  BY <1>1, <1>3
<1>5. \A d \in C : s[d] = SumOf(g, One(d)) /\ s[d] \in Int
  <2>. SUFFICES ASSUME NEW d \in C PROVE SumOf(g, One(d)) \in Int
    OBVIOUS
  <2>1. IsFiniteSet(One(d)) /\ \A x \in One(d) : g[x] \in Int
    BY FS_Subset
  <2>. HIDE DEF One
  <2>. QED
    BY <2>1, SumType
<1>6. SumOf(s, D) = s[c] + SumOf(s, E)
  <2>1. \A d \in D : s[d] \in Int
    BY <1>5
  <2>. HIDE DEF Bad
  <2>. QED
    BY <1>1, <1>3, <2>1, SumRest
<1>7. SumOf(g, Of(D)) = SumOf(g, One(c)) + SumOf(g, Of(E))
  <2>1. /\ Of(D) = One(c) \cup Of(E) /\ One(c) \cap Of(E) = {}
        /\ One(c) \subseteq A /\ Of(E) \subseteq A
    BY <1>3
  <2>2. IsFiniteSet(One(c)) /\ IsFiniteSet(Of(E))
    BY <2>1, FS_Subset
  <2>3. \A x \in One(c) \cup Of(E) : g[x] \in Int
    BY <2>1
  <2>. HIDE DEF One, Of, E
  <2>. QED
    BY <2>1, <2>2, <2>3, SumUnion
<1>8. c \in C /\ SumOf(g, Of(D)) # SumOf(s, D)
  BY <1>3
<1>. HIDE DEF One, Of, E, Bad
<1>. QED
  BY <1>4, <1>5, <1>6, <1>7, <1>8
=============================================================================

---------------------------- MODULE MatchProofs ----------------------------
(***************************************************************************)
(* Proofs about the matching, for every statement and every list of app    *)
(* transactions: the loops over days and candidates are folds, and what a  *)
(* fold computes is shown by following it step by step.                    *)
(***************************************************************************)
EXTENDS MCReconMatch, SumLemmas, SequenceTheorems

(***************************************************************************)
(* A nonempty set of naturals has a smallest one, a finite nonempty set of *)
(* integers a largest.                                                     *)
(***************************************************************************)
LEMMA SmallestNumber ==
    ASSUME NEW n \in Nat, NEW Bad \in SUBSET (0 .. n), Bad # {}
    PROVE  \E k \in Bad : \A j \in Bad : k <= j
<1>. DEFINE Above == {S \in SUBSET (0 .. n) : \E k \in Bad : S = 0 .. k}
<1>1. IsFiniteSet(0 .. n)
  BY FS_Interval
<1>2. Above \subseteq FiniteSubsetsOf(0 .. n) /\ Above # {}
  <2>1. \A k \in Bad : 0 .. k \in Above
    OBVIOUS
  <2>2. Above \subseteq FiniteSubsetsOf(0 .. n)
    BY <1>1, FS_Subset DEF FiniteSubsetsOf
  <2>. QED
    BY <2>1, <2>2
<1>3. PICK S \in Above : \A T \in Above : T \subseteq S => T = S
  <2>. HIDE DEF Above
  <2>. QED
    BY <1>2, SmallestSet
<1>4. PICK k \in Bad : S = 0 .. k
  BY <1>3
<1>5. ASSUME NEW j \in Bad, j < k PROVE FALSE
  <2>1. 0 .. j \in Above /\ 0 .. j \subseteq S
    BY <1>4, <1>5
  <2>2. 0 .. j = 0 .. k
    BY <1>3, <1>4, <2>1
  <2>3. k \in 0 .. k
    OBVIOUS
  <2>. QED
    BY <1>5, <2>2, <2>3
<1>. QED
  BY <1>5

LEMMA MaxIn ==
    ASSUME NEW A \in SUBSET Int, IsFiniteSet(A), A # {}
    PROVE  Max(A) \in A /\ \A x \in A : x <= Max(A)
<1>. DEFINE Bad == {T \in SUBSET A : T # {} /\ ~\E m \in T : \A x \in T : m >= x}
<1>1. Bad = {}
  <2>. SUFFICES ASSUME Bad # {} PROVE FALSE
    OBVIOUS
  <2>1. PICK S \in Bad : IsFiniteSet(S) /\ \A x \in S : S \ {x} \notin Bad
    <3>. Bad \subseteq SUBSET A
      OBVIOUS
    <3>. HIDE DEF Bad
    <3>. QED
      BY SmallestSubset
  <2>2. PICK y \in S : TRUE
    OBVIOUS
  <2>3. CASE S \ {y} = {}
    <3>1. \A x \in S : y >= x
      BY <2>3
    <3>. QED
      BY <3>1
  <2>4. CASE S \ {y} # {}
    <3>1. PICK m \in S \ {y} : \A x \in S \ {y} : m >= x
      BY <2>1, <2>4
    <3>2. m \in Int /\ y \in Int /\ S \subseteq Int
      OBVIOUS
    <3>3. (\A x \in S : m >= x) \/ (\A x \in S : y >= x)
      BY <3>1, <3>2
    <3>. QED
      BY <3>1, <3>3
  <2>. QED
    BY <2>3, <2>4
<1>2. A \notin Bad
  BY <1>1
<1>3. PICK m \in A : \A x \in A : m >= x
  BY <1>2
<1>4. Max(A) \in A /\ \A x \in A : Max(A) >= x
  BY <1>3 DEF Max
<1>. QED
  BY <1>4

LEMMA MaxOfPart ==
    ASSUME NEW A \in SUBSET Int, IsFiniteSet(A), NEW S \in SUBSET A, Max(A) \in S
    PROVE  Max(S) = Max(A)
<1>1. IsFiniteSet(S) /\ S \in SUBSET Int /\ S # {} /\ A # {}
  BY FS_Subset
<1>2. Max(S) \in S /\ \A x \in S : x <= Max(S)
  BY <1>1, MaxIn
<1>3. \A x \in A : x <= Max(A)
  BY <1>1, MaxIn
<1>4. Max(S) <= Max(A) /\ Max(A) <= Max(S) /\ Max(S) \in Int /\ Max(A) \in Int
  BY <1>1, <1>2, <1>3
<1>. QED
  BY <1>4

-----------------------------------------------------------------------------
(***************************************************************************)
(* Lists in order.                                                         *)
(***************************************************************************)
(***************************************************************************)
(* Every rank up to the size of a finite set of numbers is taken.          *)
(***************************************************************************)
Upto(S, i) == {x \in S : x <= i}

LEMMA RankTaken ==
    ASSUME NEW A \in SUBSET Int, IsFiniteSet(A), NEW k \in 1 .. Cardinality(A)
    PROVE  \E i \in A : Cardinality(Upto(A, i)) = k
<1>. DEFINE Bad == {T \in FiniteSubsetsOf(A) :
                      \E n \in 1 .. Cardinality(T) : \A i \in T : Cardinality(Upto(T, i)) # n}
<1>. SUFFICES ASSUME Bad # {} PROVE FALSE
  <2>1. A \in FiniteSubsetsOf(A)
    BY DEF FiniteSubsetsOf
  <2>. QED
    BY <2>1
<1>. HIDE DEF Bad
<1>1. PICK S \in Bad : \A T \in Bad : T \subseteq S => T = S
  <2>1. Bad \subseteq FiniteSubsetsOf(A)
    BY DEF Bad
  <2>. QED
    BY <2>1, SmallestSet
<1>2. S \subseteq Int /\ S \subseteq A /\ IsFiniteSet(S)
  BY DEF Bad, FiniteSubsetsOf
<1>3. PICK n \in 1 .. Cardinality(S) : \A i \in S : Cardinality(Upto(S, i)) # n
  BY DEF Bad
<1>4. S # {}
  BY <1>3, FS_EmptySet
<1>5. PICK m \in S : \A x \in S : x <= m
  BY <1>2, <1>4, MaxIn
<1>6. /\ IsFiniteSet(S \ {m}) /\ Cardinality(S \ {m}) = Cardinality(S) - 1
      /\ Cardinality(S) \in Nat
  BY <1>2, <1>5, FS_RemoveElement, FS_CardinalityType
<1>7. Upto(S, m) = S
  BY <1>5 DEF Upto
<1>8. n \in 1 .. Cardinality(S \ {m})
  BY <1>3, <1>5, <1>6, <1>7
<1>9. S \ {m} \in FiniteSubsetsOf(A) /\ S \ {m} \notin Bad
  BY <1>1, <1>2, <1>5, <1>6 DEF FiniteSubsetsOf
<1>10. PICK i \in S \ {m} : Cardinality(Upto(S \ {m}, i)) = n
  BY <1>8, <1>9 DEF Bad
<1>11. Upto(S \ {m}, i) = Upto(S, i)
  BY <1>2, <1>5 DEF Upto
<1>. QED
  BY <1>3, <1>10, <1>11

(***************************************************************************)
(* A finite set of positions in order is a list of its members.            *)
(***************************************************************************)
LEMMA InOrderMembers ==
    ASSUME NEW A \in SUBSET Int, IsFiniteSet(A)
    PROVE  /\ Cardinality(A) \in Nat
           /\ InOrder(A) \in [1 .. Cardinality(A) -> A]
<1>1. Cardinality(A) \in Nat
  BY FS_CardinalityType
<1>2. ASSUME NEW k \in 1 .. Cardinality(A)
      PROVE  (CHOOSE i \in A : Cardinality(Upto(A, i)) = k) \in A
  BY RankTaken
<1>. QED
  BY <1>1, <1>2 DEF InOrder, Upto

(***************************************************************************)
(* ... each of them once, and ascending.                                   *)
(***************************************************************************)
LEMMA RankGrows ==
    ASSUME NEW A \in SUBSET Int, IsFiniteSet(A), NEW i \in A, NEW j \in A, i < j
    PROVE  /\ Cardinality(Upto(A, i)) < Cardinality(Upto(A, j))
           /\ Cardinality(Upto(A, i)) \in 1 .. Cardinality(A)
           /\ Cardinality(Upto(A, j)) \in 1 .. Cardinality(A)
<1>1. /\ Upto(A, i) \subseteq Upto(A, j) /\ Upto(A, j) \subseteq A
      /\ i \in Upto(A, i) /\ j \in Upto(A, j) /\ j \notin Upto(A, i)
  <2>1. i \in Int /\ j \in Int /\ i <= i /\ j <= j /\ ~(j <= i)
    OBVIOUS
  <2>2. \A x \in A : x <= i => x <= j
    BY <2>1
  <2>. QED
    BY <2>1, <2>2 DEF Upto
<1>2. IsFiniteSet(Upto(A, i)) /\ IsFiniteSet(Upto(A, j))
  BY <1>1, FS_Subset
<1>3. /\ Cardinality(Upto(A, i)) \in Nat /\ Cardinality(Upto(A, j)) \in Nat
      /\ Cardinality(A) \in Nat
  BY <1>2, FS_CardinalityType
<1>4. Cardinality(Upto(A, i)) <= Cardinality(Upto(A, j)) - 1
  <2>1. Upto(A, i) \subseteq Upto(A, j) \ {j} /\ IsFiniteSet(Upto(A, j) \ {j})
    BY <1>1, <1>2, FS_RemoveElement
  <2>2. Cardinality(Upto(A, j) \ {j}) = Cardinality(Upto(A, j)) - 1
    BY <1>1, <1>2, FS_RemoveElement
  <2>. QED
    BY <2>1, <2>2, FS_Subset
<1>5. Cardinality(Upto(A, j)) <= Cardinality(A)
  BY <1>1, FS_Subset
<1>6. Cardinality(Upto(A, i)) # 0
  BY <1>1, <1>2, FS_EmptySet
<1>. QED
  BY <1>3, <1>4, <1>5, <1>6

LEMMA InOrderAscends ==
    ASSUME NEW A \in SUBSET Int, IsFiniteSet(A)
    PROVE  /\ InOrder(A) \in Seq(A) /\ Len(InOrder(A)) = Cardinality(A)
           /\ Cardinality(A) \in Nat
           /\ \A j, k \in 1 .. Len(InOrder(A)) : j < k => InOrder(A)[j] < InOrder(A)[k]
           /\ \A i \in A : \E k \in 1 .. Len(InOrder(A)) : InOrder(A)[k] = i
<1>. DEFINE n == Cardinality(A)
            f == InOrder(A)
<1>1. n \in Nat /\ f \in [1 .. n -> A]
  BY InOrderMembers
<1>2. f \in Seq(A) /\ Len(f) = n
  BY <1>1
<1>3. \A k \in 1 .. n : f[k] \in A /\ Cardinality(Upto(A, f[k])) = k
  <2>. SUFFICES ASSUME NEW k \in 1 .. n
                PROVE  f[k] \in A /\ Cardinality(Upto(A, f[k])) = k
    OBVIOUS
  <2>1. \E i \in A : Cardinality(Upto(A, i)) = k
    BY RankTaken
  <2>2. f[k] = CHOOSE i \in A : Cardinality(Upto(A, i)) = k
    BY DEF InOrder, Upto
  <2>. QED
    BY <2>1, <2>2
<1>. HIDE DEF f, n
<1>4. ASSUME NEW j \in 1 .. n, NEW k \in 1 .. n, j < k PROVE f[j] < f[k]
  <2>1. f[j] \in Int /\ f[k] \in Int /\ f[j] # f[k]
    <3>1. f[j] \in A /\ f[k] \in A
      BY <1>3
    <3>2. Cardinality(Upto(A, f[j])) = j /\ Cardinality(Upto(A, f[k])) = k /\ j # k
      BY <1>1, <1>3, <1>4
    <3>3. f[j] # f[k]
      BY <3>2
    <3>. QED
      BY <3>1, <3>3
  <2>2. ~(f[k] < f[j])
    <3>. SUFFICES ASSUME f[k] < f[j] PROVE FALSE
      OBVIOUS
    <3>1. Cardinality(Upto(A, f[k])) < Cardinality(Upto(A, f[j]))
      BY <1>3, RankGrows
    <3>. QED
      BY <1>1, <1>3, <1>4, <3>1
  <2>. QED
    BY <2>1, <2>2
<1>5. ASSUME NEW i \in A PROVE \E k \in 1 .. n : f[k] = i
  <2>. DEFINE k == Cardinality(Upto(A, i))
  <2>1. k \in 1 .. n
    <3>1. i \in Upto(A, i) /\ Upto(A, i) \subseteq A
      BY DEF Upto
    <3>2. IsFiniteSet(Upto(A, i)) /\ k <= n /\ k \in Nat
      BY <3>1, FS_Subset, FS_CardinalityType DEF n
    <3>3. k # 0
      BY <3>1, <3>2, FS_EmptySet
    <3>. QED
      BY <1>1, <3>2, <3>3
  <2>2. f[k] \in A /\ Cardinality(Upto(A, f[k])) = k
    BY <1>3, <2>1
  <2>3. ~(f[k] < i) /\ ~(i < f[k])
    <3>1. f[k] < i => Cardinality(Upto(A, f[k])) < Cardinality(Upto(A, i))
      BY <2>2, RankGrows
    <3>2. i < f[k] => Cardinality(Upto(A, i)) < Cardinality(Upto(A, f[k]))
      BY <2>2, RankGrows
    <3>. QED
      BY <1>1, <2>1, <2>2, <3>1, <3>2
  <2>4. f[k] \in Int /\ i \in Int
    BY <2>2
  <2>5. f[k] = i
    BY <2>3, <2>4
  <2>. QED
    BY <2>1, <2>5
<1>. QED
  BY <1>1, <1>2, <1>4, <1>5 DEF f, n

LEMMA RowsAtType ==
    ASSUME NEW T, NEW rows \in Seq(T), NEW S \in SUBSET DOMAIN rows
    PROVE  /\ IsFiniteSet(S) /\ Cardinality(S) \in Nat
           /\ RowsAt(rows, S) \in Seq(T) /\ Len(RowsAt(rows, S)) = Cardinality(S)
<1>1. DOMAIN rows = 1 .. Len(rows) /\ Len(rows) \in Nat
  BY LenProperties
<1>2. IsFiniteSet(S) /\ S \in SUBSET Int
  <2>1. IsFiniteSet(1 .. Len(rows))
    BY <1>1, FS_Interval
  <2>. QED
    BY <1>1, <2>1, FS_Subset
<1>3. Cardinality(S) \in Nat /\ InOrder(S) \in [1 .. Cardinality(S) -> S]
  BY <1>2, InOrderMembers
<1>4. \A k \in 1 .. Cardinality(S) : rows[InOrder(S)[k]] \in T
  BY <1>1, <1>3, LenProperties
<1>. QED
  BY <1>2, <1>3, <1>4 DEF RowsAt

-----------------------------------------------------------------------------
(***************************************************************************)
(* The positions of a list and of its beginnings.                          *)
(***************************************************************************)
LEMMA Positions ==
    ASSUME NEW T, NEW seq \in Seq(T)
    PROVE  /\ Len(seq) \in Nat /\ DOMAIN seq = 1 .. Len(seq)
           /\ IsFiniteSet(DOMAIN seq) /\ DOMAIN seq \in SUBSET Int
           /\ \A k \in 1 .. Len(seq) :
                 /\ Max(1 .. k) = k /\ (1 .. k) \ {k} = 1 .. (k - 1)
                 /\ 1 .. k \in SUBSET DOMAIN seq /\ 1 .. k # {}
                 /\ k - 1 \in 0 .. Len(seq) /\ k \in 0 .. Len(seq)
<1>1. Len(seq) \in Nat /\ DOMAIN seq = 1 .. Len(seq)
  BY LenProperties
<1>2. IsFiniteSet(1 .. Len(seq))
  BY <1>1, FS_Interval
<1>3. ASSUME NEW k \in 1 .. Len(seq) PROVE Max(1 .. k) = k /\ (1 .. k) \ {k} = 1 .. (k - 1)
  <2>1. k \in Nat /\ k >= 1
    BY <1>1
  <2>2. IsFiniteSet(1 .. k) /\ 1 .. k \in SUBSET Int /\ 1 .. k # {}
    <3>1. IsFiniteSet(1 .. k)
      BY FS_Interval
    <3>2. 1 \in 1 .. k /\ 1 .. k \in SUBSET Int
      BY <2>1
    <3>. QED
      BY <3>1, <3>2
  <2>3. Max(1 .. k) \in 1 .. k /\ \A x \in 1 .. k : x <= Max(1 .. k)
    BY <2>2, MaxIn
  <2>4. k \in 1 .. k
    BY <2>1
  <2>5. Max(1 .. k) = k
    BY <2>3, <2>4
  <2>. QED
    BY <2>1, <2>5
<1>4. ASSUME NEW k \in 1 .. Len(seq)
      PROVE  /\ 1 .. k \in SUBSET DOMAIN seq /\ 1 .. k # {}
             /\ k - 1 \in 0 .. Len(seq) /\ k \in 0 .. Len(seq)
  <2>1. k \in Nat /\ k >= 1 /\ k <= Len(seq)
    BY <1>1
  <2>2. 1 \in 1 .. k
    BY <2>1
  <2>3. \A x \in 1 .. k : x \in 1 .. Len(seq)
    BY <2>1, <1>1
  <2>4. k - 1 \in 0 .. Len(seq) /\ k \in 0 .. Len(seq)
    BY <2>1, <1>1
  <2>. QED
    BY <2>2, <2>3, <2>4, <1>1
<1>5. IsFiniteSet(DOMAIN seq) /\ DOMAIN seq \in SUBSET Int
  BY <1>1, <1>2
<1>. QED
  BY <1>1, <1>3, <1>4, <1>5, Zenon

(***************************************************************************)
(* The candidates of one day, one after the other.                         *)
(***************************************************************************)
WalkCandidates(s, apps, best, seq) ==
    FoldLeft(LAMBDA b, i : Better(s, apps, b, i), best, seq)

BetterSteps(acc, s, apps, best, seq) ==
    /\ acc[0] = best
    /\ \A k \in 1 .. Len(seq) : acc[k] = Better(s, apps, acc[k - 1], seq[k])

LEMMA BetterFold ==
    ASSUME NEW s, NEW apps, NEW best, NEW T, NEW seq \in Seq(T)
    PROVE  \E acc : /\ BetterSteps(acc, s, apps, best, seq)
                    /\ WalkCandidates(s, apps, best, seq) = acc[Len(seq)]
<1>. DEFINE Is(h, D) == h = [S \in SUBSET D |->
                                IF S = {} THEN best
                                ELSE Better(s, apps, h[S \ {Max(S)}], seq[Max(S)])]
            Bad == {D \in SUBSET DOMAIN seq : ~\E h : Is(h, D)}
            iter == CHOOSE h : Is(h, DOMAIN seq)
<1>1. WalkCandidates(s, apps, best, seq) = iter[DOMAIN seq]
  BY DEF WalkCandidates, FoldLeft, MapThenFoldSet
<1>2. Bad = {}
  <2>. SUFFICES ASSUME Bad # {} PROVE FALSE
    OBVIOUS
  <2>1. PICK D \in Bad : IsFiniteSet(D) /\ \A x \in D : D \ {x} \notin Bad
    <3>1. Bad \subseteq SUBSET DOMAIN seq /\ IsFiniteSet(DOMAIN seq)
      BY Positions
    <3>. HIDE DEF Bad
    <3>. QED
      BY <3>1, SmallestSubset
  <2>2. D # {}
    <3>1. Is([S \in SUBSET {} |-> best], {})
      OBVIOUS
    <3>. QED
      BY <3>1
  <2>. DEFINE m == Max(D)
  <2>3. D \subseteq Int
    BY Positions
  <2>4. m \in D /\ \A x \in D : x <= m
    BY <2>1, <2>2, <2>3, MaxIn
  <2>5. PICK h : Is(h, D \ {m})
    BY <2>1, <2>4
  <2>6. \A S \in SUBSET D : m \in S => Max(S) = m
    BY <2>1, <2>3, MaxOfPart
  <2>. DEFINE g == [S \in SUBSET D |-> IF m \in S
                        THEN Better(s, apps, h[S \ {m}], seq[m]) ELSE h[S]]
  <2>7. \A S \in SUBSET D : g[S] = IF S = {} THEN best
                                   ELSE Better(s, apps, g[S \ {Max(S)}], seq[Max(S)])
    <3>. SUFFICES ASSUME NEW S \in SUBSET D
                  PROVE  g[S] = IF S = {} THEN best
                                ELSE Better(s, apps, g[S \ {Max(S)}], seq[Max(S)])
      OBVIOUS
    <3>1. CASE m \in S
      <4>1. Max(S) = m /\ S \ {m} \in SUBSET D /\ m \notin S \ {m} /\ S # {}
        BY <2>6, <3>1
      <4>2. g[S \ {m}] = h[S \ {m}]
        BY <4>1
      <4>. QED
        BY <3>1, <4>1, <4>2
    <3>2. CASE m \notin S
      <4>1. S \in SUBSET (D \ {m}) /\ S \ {Max(S)} \in SUBSET D /\ m \notin S \ {Max(S)}
        BY <3>2
      <4>2. g[S] = h[S] /\ g[S \ {Max(S)}] = h[S \ {Max(S)}]
        BY <3>2, <4>1
      <4>3. h[S] = IF S = {} THEN best
                   ELSE Better(s, apps, h[S \ {Max(S)}], seq[Max(S)])
        BY <2>5, <4>1
      <4>. QED
        BY <4>2, <4>3
    <3>. QED
      BY <3>1, <3>2
  <2>8. Is(g, D)
    <3>1. g = [S \in SUBSET D |-> g[S]]
      OBVIOUS
    <3>. HIDE DEF g
    <3>. QED
      BY <2>7, <3>1
  <2>. QED
    BY <2>8
<1>3. Is(iter, DOMAIN seq)
  <2>1. \E h : Is(h, DOMAIN seq)
    BY <1>2
  <2>. QED
    BY <2>1
<1>. DEFINE acc == [k \in 0 .. Len(seq) |-> iter[1 .. k]]
<1>4. Len(seq) \in Nat /\ DOMAIN seq = 1 .. Len(seq)
  BY Positions
<1>5. acc[0] = best
  <2>1. 1 .. 0 = {} /\ {} \in SUBSET DOMAIN seq
    OBVIOUS
  <2>. HIDE DEF iter
  <2>. QED
    BY <1>3, <1>4, <2>1
<1>6. ASSUME NEW k \in 1 .. Len(seq) PROVE acc[k] = Better(s, apps, acc[k - 1], seq[k])
  <2>. HIDE DEF iter, acc, Bad
  <2>1. /\ 1 .. k \in SUBSET DOMAIN seq /\ 1 .. k # {} /\ k - 1 \in 0 .. Len(seq)
        /\ k \in 0 .. Len(seq)
    BY Positions
  <2>2. Max(1 .. k) = k /\ (1 .. k) \ {k} = 1 .. (k - 1)
    BY Positions
  <2>3. iter[1 .. k] = Better(s, apps, iter[(1 .. k) \ {k}], seq[k])
    BY <1>3, <2>1, <2>2
  <2>. QED
    BY <2>1, <2>2, <2>3 DEF acc
<1>7. acc[Len(seq)] = iter[DOMAIN seq]
  BY <1>4
<1>. HIDE DEF acc, iter
<1>. QED
  BY <1>1, <1>5, <1>6, <1>7 DEF BetterSteps

(***************************************************************************)
(* The days, one after the other.                                          *)
(***************************************************************************)
WalkDays(s, apps, best, seq) ==
    FoldLeft(LAMBDA b, d : OfDay(s, apps, b, d), best, seq)

DaySteps(acc, s, apps, best, seq) ==
    /\ acc[0] = best
    /\ \A k \in 1 .. Len(seq) : acc[k] = OfDay(s, apps, acc[k - 1], seq[k])

LEMMA DayFold ==
    ASSUME NEW s, NEW apps, NEW best, NEW T, NEW seq \in Seq(T)
    PROVE  \E acc : /\ DaySteps(acc, s, apps, best, seq)
                    /\ WalkDays(s, apps, best, seq) = acc[Len(seq)]
<1>. DEFINE Is(h, D) == h = [S \in SUBSET D |->
                                IF S = {} THEN best
                                ELSE OfDay(s, apps, h[S \ {Max(S)}], seq[Max(S)])]
            Bad == {D \in SUBSET DOMAIN seq : ~\E h : Is(h, D)}
            iter == CHOOSE h : Is(h, DOMAIN seq)
<1>1. WalkDays(s, apps, best, seq) = iter[DOMAIN seq]
  BY DEF WalkDays, FoldLeft, MapThenFoldSet
<1>2. Bad = {}
  <2>. SUFFICES ASSUME Bad # {} PROVE FALSE
    OBVIOUS
  <2>1. PICK D \in Bad : IsFiniteSet(D) /\ \A x \in D : D \ {x} \notin Bad
    <3>1. Bad \subseteq SUBSET DOMAIN seq /\ IsFiniteSet(DOMAIN seq)
      BY Positions
    <3>. HIDE DEF Bad
    <3>. QED
      BY <3>1, SmallestSubset
  <2>2. D # {}
    <3>1. Is([S \in SUBSET {} |-> best], {})
      OBVIOUS
    <3>. QED
      BY <3>1
  <2>. DEFINE m == Max(D)
  <2>3. D \subseteq Int
    BY Positions
  <2>4. m \in D /\ \A x \in D : x <= m
    BY <2>1, <2>2, <2>3, MaxIn
  <2>5. PICK h : Is(h, D \ {m})
    BY <2>1, <2>4
  <2>6. \A S \in SUBSET D : m \in S => Max(S) = m
    BY <2>1, <2>3, MaxOfPart
  <2>. DEFINE g == [S \in SUBSET D |-> IF m \in S
                        THEN OfDay(s, apps, h[S \ {m}], seq[m]) ELSE h[S]]
  <2>7. \A S \in SUBSET D : g[S] = IF S = {} THEN best
                                   ELSE OfDay(s, apps, g[S \ {Max(S)}], seq[Max(S)])
    <3>. SUFFICES ASSUME NEW S \in SUBSET D
                  PROVE  g[S] = IF S = {} THEN best
                                ELSE OfDay(s, apps, g[S \ {Max(S)}], seq[Max(S)])
      OBVIOUS
    <3>1. CASE m \in S
      <4>1. Max(S) = m /\ S \ {m} \in SUBSET D /\ m \notin S \ {m} /\ S # {}
        BY <2>6, <3>1
      <4>2. g[S \ {m}] = h[S \ {m}]
        BY <4>1
      <4>. QED
        BY <3>1, <4>1, <4>2
    <3>2. CASE m \notin S
      <4>1. S \in SUBSET (D \ {m}) /\ S \ {Max(S)} \in SUBSET D /\ m \notin S \ {Max(S)}
        BY <3>2
      <4>2. g[S] = h[S] /\ g[S \ {Max(S)}] = h[S \ {Max(S)}]
        BY <3>2, <4>1
      <4>3. h[S] = IF S = {} THEN best
                   ELSE OfDay(s, apps, h[S \ {Max(S)}], seq[Max(S)])
        BY <2>5, <4>1
      <4>. QED
        BY <4>2, <4>3
    <3>. QED
      BY <3>1, <3>2
  <2>8. Is(g, D)
    <3>1. g = [S \in SUBSET D |-> g[S]]
      OBVIOUS
    <3>. HIDE DEF g
    <3>. QED
      BY <2>7, <3>1
  <2>. QED
    BY <2>8
<1>3. Is(iter, DOMAIN seq)
  <2>1. \E h : Is(h, DOMAIN seq)
    BY <1>2
  <2>. QED
    BY <2>1
<1>. DEFINE acc == [k \in 0 .. Len(seq) |-> iter[1 .. k]]
<1>4. Len(seq) \in Nat /\ DOMAIN seq = 1 .. Len(seq)
  BY Positions
<1>5. acc[0] = best
  <2>1. 1 .. 0 = {} /\ {} \in SUBSET DOMAIN seq
    OBVIOUS
  <2>. HIDE DEF iter
  <2>. QED
    BY <1>3, <1>4, <2>1
<1>6. ASSUME NEW k \in 1 .. Len(seq) PROVE acc[k] = OfDay(s, apps, acc[k - 1], seq[k])
  <2>. HIDE DEF iter, acc, Bad
  <2>1. /\ 1 .. k \in SUBSET DOMAIN seq /\ 1 .. k # {} /\ k - 1 \in 0 .. Len(seq)
        /\ k \in 0 .. Len(seq)
    BY Positions
  <2>2. Max(1 .. k) = k /\ (1 .. k) \ {k} = 1 .. (k - 1)
    BY Positions
  <2>3. iter[1 .. k] = OfDay(s, apps, iter[(1 .. k) \ {k}], seq[k])
    BY <1>3, <2>1, <2>2
  <2>. QED
    BY <2>1, <2>2, <2>3 DEF acc
<1>7. acc[Len(seq)] = iter[DOMAIN seq]
  BY <1>4
<1>. HIDE DEF acc, iter
<1>. QED
  BY <1>1, <1>5, <1>6, <1>7 DEF DaySteps

(***************************************************************************)
(* The rows of the overlap, one after the other.                           *)
(***************************************************************************)
WalkRows(apps, start, seq) ==
    FoldLeft(LAMBDA a, s : MatchRow(apps, a, s), start, seq)

RowSteps(acc, apps, start, seq) ==
    /\ acc[0] = start
    /\ \A k \in 1 .. Len(seq) : acc[k] = MatchRow(apps, acc[k - 1], seq[k])

LEMMA RowFold ==
    ASSUME NEW apps, NEW start, NEW T, NEW seq \in Seq(T)
    PROVE  \E acc : /\ RowSteps(acc, apps, start, seq)
                    /\ WalkRows(apps, start, seq) = acc[Len(seq)]
<1>. DEFINE Is(h, D) == h = [S \in SUBSET D |->
                                IF S = {} THEN start
                                ELSE MatchRow(apps, h[S \ {Max(S)}], seq[Max(S)])]
            Bad == {D \in SUBSET DOMAIN seq : ~\E h : Is(h, D)}
            iter == CHOOSE h : Is(h, DOMAIN seq)
<1>1. WalkRows(apps, start, seq) = iter[DOMAIN seq]
  BY DEF WalkRows, FoldLeft, MapThenFoldSet
<1>2. Bad = {}
  <2>. SUFFICES ASSUME Bad # {} PROVE FALSE
    OBVIOUS
  <2>1. PICK D \in Bad : IsFiniteSet(D) /\ \A x \in D : D \ {x} \notin Bad
    <3>1. Bad \subseteq SUBSET DOMAIN seq /\ IsFiniteSet(DOMAIN seq)
      BY Positions
    <3>. HIDE DEF Bad
    <3>. QED
      BY <3>1, SmallestSubset
  <2>2. D # {}
    <3>1. Is([S \in SUBSET {} |-> start], {})
      OBVIOUS
    <3>. QED
      BY <3>1
  <2>. DEFINE m == Max(D)
  <2>3. D \subseteq Int
    BY Positions
  <2>4. m \in D /\ \A x \in D : x <= m
    BY <2>1, <2>2, <2>3, MaxIn
  <2>5. PICK h : Is(h, D \ {m})
    BY <2>1, <2>4
  <2>6. \A S \in SUBSET D : m \in S => Max(S) = m
    BY <2>1, <2>3, MaxOfPart
  <2>. DEFINE g == [S \in SUBSET D |-> IF m \in S
                        THEN MatchRow(apps, h[S \ {m}], seq[m]) ELSE h[S]]
  <2>7. \A S \in SUBSET D : g[S] = IF S = {} THEN start
                                   ELSE MatchRow(apps, g[S \ {Max(S)}], seq[Max(S)])
    <3>. SUFFICES ASSUME NEW S \in SUBSET D
                  PROVE  g[S] = IF S = {} THEN start
                                ELSE MatchRow(apps, g[S \ {Max(S)}], seq[Max(S)])
      OBVIOUS
    <3>1. CASE m \in S
      <4>1. Max(S) = m /\ S \ {m} \in SUBSET D /\ m \notin S \ {m} /\ S # {}
        BY <2>6, <3>1
      <4>2. g[S \ {m}] = h[S \ {m}]
        BY <4>1
      <4>. QED
        BY <3>1, <4>1, <4>2
    <3>2. CASE m \notin S
      <4>1. S \in SUBSET (D \ {m}) /\ S \ {Max(S)} \in SUBSET D /\ m \notin S \ {Max(S)}
        BY <3>2
      <4>2. g[S] = h[S] /\ g[S \ {Max(S)}] = h[S \ {Max(S)}]
        BY <3>2, <4>1
      <4>3. h[S] = IF S = {} THEN start
                   ELSE MatchRow(apps, h[S \ {Max(S)}], seq[Max(S)])
        BY <2>5, <4>1
      <4>. QED
        BY <4>2, <4>3
    <3>. QED
      BY <3>1, <3>2
  <2>8. Is(g, D)
    <3>1. g = [S \in SUBSET D |-> g[S]]
      OBVIOUS
    <3>. HIDE DEF g
    <3>. QED
      BY <2>7, <3>1
  <2>. QED
    BY <2>8
<1>3. Is(iter, DOMAIN seq)
  <2>1. \E h : Is(h, DOMAIN seq)
    BY <1>2
  <2>. QED
    BY <2>1
<1>. DEFINE acc == [k \in 0 .. Len(seq) |-> iter[1 .. k]]
<1>4. Len(seq) \in Nat /\ DOMAIN seq = 1 .. Len(seq)
  BY Positions
<1>5. acc[0] = start
  <2>1. 1 .. 0 = {} /\ {} \in SUBSET DOMAIN seq
    OBVIOUS
  <2>. HIDE DEF iter
  <2>. QED
    BY <1>3, <1>4, <2>1
<1>6. ASSUME NEW k \in 1 .. Len(seq) PROVE acc[k] = MatchRow(apps, acc[k - 1], seq[k])
  <2>. HIDE DEF iter, acc, Bad
  <2>1. /\ 1 .. k \in SUBSET DOMAIN seq /\ 1 .. k # {} /\ k - 1 \in 0 .. Len(seq)
        /\ k \in 0 .. Len(seq)
    BY Positions
  <2>2. Max(1 .. k) = k /\ (1 .. k) \ {k} = 1 .. (k - 1)
    BY Positions
  <2>3. iter[1 .. k] = MatchRow(apps, iter[(1 .. k) \ {k}], seq[k])
    BY <1>3, <2>1, <2>2
  <2>. QED
    BY <2>1, <2>2, <2>3 DEF acc
<1>7. acc[Len(seq)] = iter[DOMAIN seq]
  BY <1>4
<1>. HIDE DEF acc, iter
<1>. QED
  BY <1>1, <1>5, <1>6, <1>7 DEF RowSteps

-----------------------------------------------------------------------------
(***************************************************************************)
(* What the matching is given: rows and transactions with a time and an    *)
(* amount.                                                                 *)
(***************************************************************************)
IsItem(x) == x.at \in Nat /\ x.amount \in Int

LEMMA DayIsNat ==
    ASSUME NEW x, IsItem(x)
    PROVE  /\ Day(x) \in Nat
           /\ DayTicks * Day(x) <= x.at /\ x.at < DayTicks * Day(x) + DayTicks
<1>1. DayTicks \in Nat /\ DayTicks > 0 /\ x.at \in Nat
  BY DayTicksAssumption DEF IsItem
<1>. QED
  BY <1>1 DEF Day

LEMMA ScoreParts ==
    ASSUME NEW s, NEW t
    PROVE  /\ DateScore(s, t) \in {0, 20, 30, 40}
           /\ AmountScore(s, t) \in {0, 15, 25, 35}
           /\ DescriptionScore(s, t) \in {0, 5, 10, 15}
           /\ ReferenceScore(s, t) \in {0, 10}
<1>1. DateScore(s, t) \in {0, 20, 30, 40}
  BY DEF DateScore
<1>2. AmountScore(s, t) \in {0, 15, 25, 35}
  BY DEF AmountScore
<1>3. DescriptionScore(s, t) \in {0, 5, 10, 15}
  BY DEF DescriptionScore
<1>4. ReferenceScore(s, t) \in {0, 10}
  BY DEF ReferenceScore
<1>. QED
  BY <1>1, <1>2, <1>3, <1>4

(***************************************************************************)
(* Inside the window of calendar days the times are less than three days   *)
(* apart, so the date alone scores.                                        *)
(***************************************************************************)
LEMMA NearScores ==
    ASSUME NEW s, NEW t, IsItem(s), IsItem(t), Dist(Day(t), Day(s)) <= 2
    PROVE  Score(s, t) \in Nat /\ Score(s, t) >= 20
<1>. DEFINE D == DayTicks
            a == Dist(s.at, t.at)
            q == a \div D
<1>1. D \in Nat /\ D > 0 /\ s.at \in Nat /\ t.at \in Nat /\ a \in Nat
  BY DayTicksAssumption DEF IsItem, Dist
<1>2. /\ Day(s) \in Nat /\ D * Day(s) <= s.at /\ s.at < D * Day(s) + D
      /\ Day(t) \in Nat /\ D * Day(t) <= t.at /\ t.at < D * Day(t) + D
  BY DayIsNat
<1>3. Day(t) <= Day(s) + 2 /\ Day(s) <= Day(t) + 2
  BY <1>2 DEF Dist
<1>4. D * Day(t) <= D * Day(s) + 2 * D /\ D * Day(s) <= D * Day(t) + 2 * D
  BY <1>1, <1>2, <1>3
<1>5. a < 3 * D
  <2>1. t.at < s.at + 3 * D /\ s.at < t.at + 3 * D
    BY <1>1, <1>2, <1>4
  <2>. QED
    BY <1>1, <2>1 DEF Dist
<1>6. q \in 0 .. 2
  BY <1>1, <1>5
<1>7. DateScore(s, t) >= 20
  <2>. HIDE DEF q
  <2>. QED
    BY <1>6 DEF DateScore, q
<1>. QED
  BY <1>7, ScoreParts DEF Score

-----------------------------------------------------------------------------
(***************************************************************************)
(* The candidates of a day, in the order of the list.                      *)
(***************************************************************************)
OnDay(apps, day, type) == {i \in DOMAIN apps : Day(apps[i]) = day /\ apps[i].type = type}

LEMMA DateMapLists ==
    ASSUME NEW T, NEW apps \in Seq(T), NEW day, NEW type
    PROVE  LET seq == DateMap(apps, day, type)
           IN  /\ seq \in Seq(OnDay(apps, day, type)) /\ Len(seq) \in Nat
               /\ \A j, k \in 1 .. Len(seq) : j < k => seq[j] < seq[k]
               /\ \A i \in OnDay(apps, day, type) : \E k \in 1 .. Len(seq) : seq[k] = i
<1>1. DateMap(apps, day, type) = InOrder(OnDay(apps, day, type))
  BY DEF DateMap, OnDay
<1>2. OnDay(apps, day, type) \in SUBSET Int /\ IsFiniteSet(OnDay(apps, day, type))
  <2>1. OnDay(apps, day, type) \subseteq DOMAIN apps
    BY DEF OnDay
  <2>. QED
    BY <2>1, Positions, FS_Subset
<1>. QED
  BY <1>1, <1>2, InOrderAscends

(***************************************************************************)
(* What the loop holds of the transactions W it has looked at: none that   *)
(* scores, or the best of them, the first of equals.                       *)
(***************************************************************************)
Earlier(apps, i, j) ==
    \/ Day(apps[i]) < Day(apps[j])
    \/ Day(apps[i]) = Day(apps[j]) /\ i < j

Beats(s, apps, i, j) ==
    \/ Score(s, apps[i]) > Score(s, apps[j])
    \/ Score(s, apps[i]) = Score(s, apps[j]) /\ Earlier(apps, i, j)

Leads(b, s, apps, W) ==
    \/ b = NoneYet /\ \A j \in W : Score(s, apps[j]) <= 0
    \/ \E i \in W : /\ b = [txn |-> i, score |-> Score(s, apps[i])]
                    /\ Score(s, apps[i]) > 0
                    /\ \A j \in W \ {i} : Beats(s, apps, i, j)

LEMMA ScoreIsNat == ASSUME NEW s, NEW t PROVE Score(s, t) \in Nat
BY ScoreParts DEF Score

LEMMA BetterLeads ==
    ASSUME NEW s, NEW apps, NEW W, NEW b, Leads(b, s, apps, W),
           NEW i, i \notin W, \A j \in W : Earlier(apps, j, i)
    PROVE  Leads(Better(s, apps, b, i), s, apps, W \cup {i})
<1>1. \A j \in W \cup {i} : Score(s, apps[j]) \in Nat
  BY ScoreIsNat
<1>2. CASE b = NoneYet /\ \A j \in W : Score(s, apps[j]) <= 0
  <2>1. CASE Score(s, apps[i]) > 0
    <3>1. Better(s, apps, b, i) = [txn |-> i, score |-> Score(s, apps[i])]
      BY <1>2, <2>1 DEF Better, NoneYet
    <3>2. \A j \in (W \cup {i}) \ {i} : Beats(s, apps, i, j)
      BY <1>1, <1>2, <2>1 DEF Beats
    <3>. QED
      BY <2>1, <3>1, <3>2 DEF Leads
  <2>2. CASE ~(Score(s, apps[i]) > 0)
    <3>1. Better(s, apps, b, i) = NoneYet
      BY <1>2, <2>2 DEF Better, NoneYet
    <3>. QED
      BY <1>1, <1>2, <2>2, <3>1 DEF Leads
  <2>. QED
    BY <2>1, <2>2
<1>3. ASSUME NEW k \in W, b = [txn |-> k, score |-> Score(s, apps[k])],
             Score(s, apps[k]) > 0, \A j \in W \ {k} : Beats(s, apps, k, j)
      PROVE  Leads(Better(s, apps, b, i), s, apps, W \cup {i})
  <2>1. CASE Score(s, apps[i]) > Score(s, apps[k])
    <3>1. Better(s, apps, b, i) = [txn |-> i, score |-> Score(s, apps[i])]
      BY <1>3, <2>1 DEF Better
    <3>2. \A j \in (W \cup {i}) \ {i} : Beats(s, apps, i, j)
      BY <1>1, <1>3, <2>1 DEF Beats
    <3>3. Score(s, apps[i]) > 0
      BY <1>1, <1>3, <2>1
    <3>. QED
      BY <3>1, <3>2, <3>3 DEF Leads
  <2>2. CASE ~(Score(s, apps[i]) > Score(s, apps[k]))
    <3>1. Better(s, apps, b, i) = b
      BY <1>3, <2>2 DEF Better
    <3>2. Beats(s, apps, k, i)
      BY <1>1, <2>2 DEF Beats
    <3>3. \A j \in (W \cup {i}) \ {k} : Beats(s, apps, k, j)
      BY <1>3, <3>2
    <3>. QED
      BY <1>3, <3>1, <3>3 DEF Leads
  <2>. QED
    BY <2>1, <2>2
<1>. QED
  BY <1>2, <1>3 DEF Leads

LEMMA DayLeads ==
    ASSUME NEW s, NEW T, NEW apps \in Seq(T), NEW W, NEW b, Leads(b, s, apps, W),
           NEW day \in Int, NEW type,
           \A j \in W : Day(apps[j]) < day
    PROVE  Leads(WalkCandidates(s, apps, b, DateMap(apps, day, type)),
                 s, apps, W \cup OnDay(apps, day, type))
<1>. DEFINE seq == DateMap(apps, day, type)
            n == Len(seq)
            Seen(k) == W \cup {seq[m] : m \in 1 .. k}
<1>1. /\ seq \in Seq(OnDay(apps, day, type)) /\ n \in Nat
      /\ \A l, k \in 1 .. n : l < k => seq[l] < seq[k]
      /\ \A i \in OnDay(apps, day, type) : \E k \in 1 .. n : seq[k] = i
  BY DateMapLists
<1>. HIDE DEF seq
<1>2. PICK acc : /\ BetterSteps(acc, s, apps, b, seq)
                 /\ WalkCandidates(s, apps, b, seq) = acc[n]
  BY <1>1, BetterFold
<1>3. \A k \in 1 .. n : seq[k] \in OnDay(apps, day, type)
  BY <1>1, LenProperties
<1>4. OnDay(apps, day, type) \subseteq Int /\ \A i \in OnDay(apps, day, type) : Day(apps[i]) = day
  BY Positions DEF OnDay
<1>. DEFINE Bad == {k \in 0 .. n : ~Leads(acc[k], s, apps, Seen(k))}
<1>5. Bad = {}
  <2>. SUFFICES ASSUME Bad # {} PROVE FALSE
    OBVIOUS
  <2>1. PICK k \in Bad : \A l \in Bad : k <= l
    <3>. HIDE DEF Bad
    <3>1. Bad \in SUBSET (0 .. n)
      BY DEF Bad
    <3>. QED
      BY <1>1, <3>1, SmallestNumber
  <2>2. k \in 0 .. n /\ ~Leads(acc[k], s, apps, Seen(k))
    OBVIOUS
  <2>3. k # 0
    <3>1. Seen(0) = W
      OBVIOUS
    <3>2. acc[0] = b
      BY <1>2 DEF BetterSteps
    <3>. QED
      BY <2>2, <3>1, <3>2
  <2>4. k \in 1 .. n /\ k - 1 \in 0 .. n /\ k - 1 \notin Bad
    <3>. HIDE DEF Bad
    <3>1. k \in 1 .. n /\ k - 1 \in 0 .. n /\ ~(k <= k - 1)
      BY <1>1, <2>2, <2>3
    <3>. QED
      BY <2>1, <3>1
  <2>5. Leads(acc[k - 1], s, apps, Seen(k - 1))
    BY <2>4
  <2>. HIDE DEF Bad
  <2>6. \A x \in Seen(k - 1) : x # seq[k] /\ Earlier(apps, x, seq[k])
    <3>1. seq[k] \in Int /\ Day(apps[seq[k]]) = day
      BY <1>3, <1>4, <2>4
    <3>2. \A x \in W : x # seq[k] /\ Earlier(apps, x, seq[k])
      BY <3>1 DEF Earlier
    <3>3. ASSUME NEW m \in 1 .. (k - 1)
          PROVE  seq[m] # seq[k] /\ Earlier(apps, seq[m], seq[k])
      <4>1. m \in 1 .. n /\ m < k
        BY <1>1, <2>4
      <4>2. seq[m] \in Int /\ Day(apps[seq[m]]) = day /\ seq[m] < seq[k]
        BY <1>1, <1>3, <1>4, <2>4, <4>1
      <4>. QED
        BY <3>1, <4>2 DEF Earlier
    <3>. QED
      BY <3>2, <3>3
  <2>7. Seen(k) = Seen(k - 1) \cup {seq[k]}
    <3>1. 1 .. k = 1 .. (k - 1) \cup {k}
      BY <1>1, <2>4
    <3>. QED
      BY <3>1
  <2>8. acc[k] = Better(s, apps, acc[k - 1], seq[k])
    BY <1>2, <2>4 DEF BetterSteps
  <2>. HIDE DEF Seen
  <2>. QED
    BY <2>2, <2>5, <2>6, <2>7, <2>8, BetterLeads
<1>6. Leads(acc[n], s, apps, Seen(n))
  <2>1. n \in 0 .. n
    <3>1. n \in Nat
      BY <1>1
    <3>. HIDE DEF n
    <3>. QED
      BY <3>1
  <2>2. n \notin Bad
    BY <1>5
  <2>. QED
    BY <2>1, <2>2
<1>7. Seen(n) = W \cup OnDay(apps, day, type)
  BY <1>1, <1>3
<1>. QED
  BY <1>2, <1>6, <1>7 DEF seq

(***************************************************************************)
(* The best match is the first of the highest score among the transactions *)
(* of the row's type in the five days around it.                           *)
(***************************************************************************)
Near(s, apps) == {i \in DOMAIN apps : /\ apps[i].type = s.type
                                      /\ Dist(Day(apps[i]), Day(s)) <= 2}

LEMMA BestLeads ==
    ASSUME NEW s, IsItem(s), NEW T, NEW apps \in Seq(T),
           \A i \in DOMAIN apps : IsItem(apps[i])
    PROVE  Leads(BestMatch(s, apps), s, apps, Near(s, apps))
<1>. DEFINE days == <<-2, -1, 0, 1, 2>>
            On(d) == OnDay(apps, Day(s) + d, s.type)
            Upto2(d) == {i \in DOMAIN apps : /\ apps[i].type = s.type
                                             /\ Day(apps[i]) >= Day(s) - 2
                                             /\ Day(apps[i]) <= Day(s) + d}
<1>1. PICK acc : /\ DaySteps(acc, s, apps, NoneYet, days)
                 /\ BestMatch(s, apps) = acc[Len(days)]
  <2>1. days \in Seq(Int)
    OBVIOUS
  <2>. HIDE DEF days
  <2>2. \E acc : /\ DaySteps(acc, s, apps, NoneYet, days)
                 /\ WalkDays(s, apps, NoneYet, days) = acc[Len(days)]
    BY <2>1, DayFold
  <2>3. BestMatch(s, apps) = WalkDays(s, apps, NoneYet, days)
    BY DEF BestMatch, WalkDays, FoldLeft, MapThenFoldSet, days
  <2>. QED
    BY <2>2, <2>3
<1>2. /\ acc[0] = NoneYet
      /\ acc[1] = OfDay(s, apps, acc[0], -2) /\ acc[2] = OfDay(s, apps, acc[1], -1)
      /\ acc[3] = OfDay(s, apps, acc[2], 0) /\ acc[4] = OfDay(s, apps, acc[3], 1)
      /\ acc[5] = OfDay(s, apps, acc[4], 2) /\ BestMatch(s, apps) = acc[5]
  <2>1. Len(days) = 5 /\ days[1] = -2 /\ days[2] = -1 /\ days[3] = 0 /\ days[4] = 1 /\ days[5] = 2
    OBVIOUS
  <2>. HIDE DEF days
  <2>2. \A k \in 1 .. 5 : acc[k] = OfDay(s, apps, acc[k - 1], days[k])
    BY <1>1, <2>1 DEF DaySteps
  <2>3. acc[0] = NoneYet
    BY <1>1 DEF DaySteps
  <2>4. /\ acc[1] = OfDay(s, apps, acc[1 - 1], days[1])
        /\ acc[2] = OfDay(s, apps, acc[2 - 1], days[2])
        /\ acc[3] = OfDay(s, apps, acc[3 - 1], days[3])
        /\ acc[4] = OfDay(s, apps, acc[4 - 1], days[4])
        /\ acc[5] = OfDay(s, apps, acc[5 - 1], days[5])
    BY <2>2
  <2>5. 1 - 1 = 0 /\ 2 - 1 = 1 /\ 3 - 1 = 2 /\ 4 - 1 = 3 /\ 5 - 1 = 4
    OBVIOUS
  <2>. QED
    BY <1>1, <2>1, <2>3, <2>4, <2>5
<1>3. Day(s) \in Nat /\ \A i \in DOMAIN apps : Day(apps[i]) \in Nat
  BY DayIsNat
<1>4. ASSUME NEW d \in -2 .. 2, NEW b, Leads(b, s, apps, Upto2(d - 1))
      PROVE  Leads(OfDay(s, apps, b, d), s, apps, Upto2(d))
  <2>1. Day(s) + d \in Int /\ \A j \in Upto2(d - 1) : Day(apps[j]) < Day(s) + d
    BY <1>3
  <2>2. Upto2(d) = Upto2(d - 1) \cup On(d)
    BY <1>3 DEF OnDay
  <2>. HIDE DEF Upto2
  <2>3. Leads(WalkCandidates(s, apps, b, DateMap(apps, Day(s) + d, s.type)),
              s, apps, Upto2(d - 1) \cup On(d))
    BY <1>4, <2>1, DayLeads
  <2>4. OfDay(s, apps, b, d) = WalkCandidates(s, apps, b, DateMap(apps, Day(s) + d, s.type))
    BY DEF OfDay, WalkCandidates, FoldLeft, MapThenFoldSet
  <2>. QED
    BY <2>2, <2>3, <2>4
<1>5. Leads(acc[0], s, apps, Upto2(-3))
  <2>1. Upto2(-3) = {}
    BY <1>3
  <2>. QED
    BY <1>2, <2>1 DEF Leads
<1>6. Near(s, apps) = Upto2(2)
  BY <1>3 DEF Near, Dist
<1>. HIDE DEF Upto2
<1>7. Leads(acc[1], s, apps, Upto2(-2))
  BY <1>2, <1>4, <1>5
<1>8. Leads(acc[2], s, apps, Upto2(-1))
  BY <1>2, <1>4, <1>7
<1>9. Leads(acc[3], s, apps, Upto2(0))
  BY <1>2, <1>4, <1>8
<1>10. Leads(acc[4], s, apps, Upto2(1))
  BY <1>2, <1>4, <1>9
<1>11. Leads(acc[5], s, apps, Upto2(2))
  BY <1>2, <1>4, <1>10
<1>. QED
  BY <1>2, <1>6, <1>11

(***************************************************************************)
(* Whatever is near scores, so only a row with nothing near it stays       *)
(* without a match.                                                        *)
(***************************************************************************)
IsBest(s, apps, i) ==
    /\ i \in Near(s, apps)
    /\ \A j \in Near(s, apps) \ {i} : Beats(s, apps, i, j)

LEMMA BestMatchIs ==
    ASSUME NEW s, IsItem(s), NEW T, NEW apps \in Seq(T),
           \A i \in DOMAIN apps : IsItem(apps[i])
    PROVE  \/ Near(s, apps) = {} /\ BestMatch(s, apps) = NoneYet
           \/ \E i \in Near(s, apps) :
                 /\ IsBest(s, apps, i)
                 /\ BestMatch(s, apps) = [txn |-> i, score |-> Score(s, apps[i])]
<1>1. Leads(BestMatch(s, apps), s, apps, Near(s, apps))
  BY BestLeads
<1>2. \A i \in Near(s, apps) : Score(s, apps[i]) \in Nat /\ Score(s, apps[i]) >= 20
  <2>. SUFFICES ASSUME NEW i \in Near(s, apps)
                PROVE  Score(s, apps[i]) \in Nat /\ Score(s, apps[i]) >= 20
    OBVIOUS
  <2>1. i \in DOMAIN apps /\ Dist(Day(apps[i]), Day(s)) <= 2
    BY DEF Near
  <2>. QED
    BY <2>1, NearScores
<1>. QED
  BY <1>1, <1>2 DEF Leads, IsBest

(***************************************************************************)
(* A row goes by score: it is missing when nothing is near, else it has    *)
(* the best of what is.                                                    *)
(***************************************************************************)
LEMMA ScoredIs ==
    ASSUME NEW s, IsItem(s), NEW T, NEW apps \in Seq(T),
           \A i \in DOMAIN apps : IsItem(apps[i])
    PROVE  \/ Near(s, apps) = {} /\ Scored(s, apps) = Found(NoTxn, "MISSING", 0)
           \/ \E i \in Near(s, apps) :
                 /\ IsBest(s, apps, i)
                 /\ Scored(s, apps) = Found(i, IF Score(s, apps[i]) >= Threshold
                                               THEN "HIGH" ELSE "LOW",
                                            Score(s, apps[i]))
<1>1. CASE Near(s, apps) = {} /\ BestMatch(s, apps) = NoneYet
  BY <1>1 DEF Scored, NoneYet
<1>2. ASSUME NEW i \in Near(s, apps), IsBest(s, apps, i),
             BestMatch(s, apps) = [txn |-> i, score |-> Score(s, apps[i])]
      PROVE  Scored(s, apps) = Found(i, IF Score(s, apps[i]) >= Threshold
                                        THEN "HIGH" ELSE "LOW", Score(s, apps[i]))
  <2>1. i # NoTxn
    <3>1. i \in DOMAIN apps
      BY DEF Near
    <3>. QED
      BY <3>1, Positions DEF NoTxn
  <2>. QED
    BY <1>2, <2>1 DEF Scored
<1>. QED
  BY <1>1, <1>2, BestMatchIs

-----------------------------------------------------------------------------
(***************************************************************************)
(* The index by amount, type and day holds the last transaction of each.   *)
(***************************************************************************)
OfKey(apps, k) == {i \in DOMAIN apps : Key(apps[i]) = k}

LEMMA ExactMapIs ==
    ASSUME NEW T, NEW apps \in Seq(T)
    PROVE  /\ \A k : k \in DOMAIN ExactMap(apps) <=> OfKey(apps, k) # {}
           /\ \A k \in DOMAIN ExactMap(apps) :
                 /\ ExactMap(apps)[k] \in OfKey(apps, k)
                 /\ \A j \in OfKey(apps, k) : j <= ExactMap(apps)[k]
<1>1. DOMAIN ExactMap(apps) = {Key(apps[i]) : i \in DOMAIN apps}
  BY DEF ExactMap
<1>2. ASSUME NEW k \in DOMAIN ExactMap(apps)
      PROVE  /\ ExactMap(apps)[k] \in OfKey(apps, k)
             /\ \A j \in OfKey(apps, k) : j <= ExactMap(apps)[k]
  <2>1. OfKey(apps, k) # {}
    BY <1>1, <1>2 DEF OfKey
  <2>2. OfKey(apps, k) = {i \in 1 .. Len(apps) : Key(apps[i]) = k}
    BY Positions DEF OfKey
  <2>3. ExactMap(apps)[k] = Max(OfKey(apps, k))
    BY <1>1, <2>1, <2>2 DEF ExactMap, SelectLastInSeq
  <2>4. OfKey(apps, k) \in SUBSET Int /\ IsFiniteSet(OfKey(apps, k))
    <3>1. OfKey(apps, k) \subseteq DOMAIN apps
      BY DEF OfKey
    <3>. QED
      BY <3>1, Positions, FS_Subset
  <2>. QED
    BY <2>1, <2>3, <2>4, MaxIn
<1>. QED
  BY <1>1, <1>2 DEF OfKey

(***************************************************************************)
(* The loop over the rows: what a row gets depends on whether an earlier   *)
(* one has its key.                                                        *)
(***************************************************************************)
IsExact(rows, apps, m) ==
    /\ OfKey(apps, Key(rows[m])) # {}
    /\ ~\E l \in 1 .. (m - 1) : Key(rows[l]) = Key(rows[m])

RowResult(rows, apps, m) ==
    IF IsExact(rows, apps, m)
    THEN Found(ExactMap(apps)[Key(rows[m])], "HIGH", 95)
    ELSE Scored(rows[m], apps)

AfterRows(rows, apps, k) ==
    [results |-> [m \in 1 .. k |-> RowResult(rows, apps, m)],
     exact   |-> [x \in DOMAIN ExactMap(apps) \ {Key(rows[l]) : l \in 1 .. k} |->
                     ExactMap(apps)[x]]]

LEMMA AppendOne ==
    ASSUME NEW n \in Nat, NEW f, NEW k \in 1 .. n
    PROVE  Append([m \in 1 .. (k - 1) |-> f[m]], f[k]) = [m \in 1 .. k |-> f[m]]
<1>. DEFINE g == [m \in 1 .. (k - 1) |-> f[m]]
            V == {f[m] : m \in 1 .. n}
<1>1. k \in Nat /\ k - 1 \in Nat
  OBVIOUS
<1>2. g \in Seq(V) /\ Len(g) = k - 1
  <2>1. g \in [1 .. (k - 1) -> V]
    OBVIOUS
  <2>. HIDE DEF g, V
  <2>. QED
    BY <1>1, <2>1
<1>3. \A m \in 1 .. (k - 1) : g[m] = f[m]
  OBVIOUS
<1>4. f[k] \in V
  OBVIOUS
<1>. HIDE DEF g, V
<1>. QED
  BY <1>1, <1>2, <1>3, <1>4, AppendProperties

LEMMA ReplaceResults ==
    ASSUME NEW r, NEW e, NEW b, b = [results |-> r, exact |-> e], NEW v
    PROVE  [b EXCEPT !.results = v] = [results |-> v, exact |-> e]
OBVIOUS

LEMMA RowStep ==
    ASSUME NEW T, NEW apps \in Seq(T), NEW rows \in Seq(T), NEW k \in 1 .. Len(rows)
    PROVE  MatchRow(apps, AfterRows(rows, apps, k - 1), rows[k]) = AfterRows(rows, apps, k)
<1>. DEFINE before == AfterRows(rows, apps, k - 1)
            f == [m \in 1 .. Len(rows) |-> RowResult(rows, apps, m)]
<1>. SUFFICES MatchRow(apps, before, rows[k]) = AfterRows(rows, apps, k)
  OBVIOUS
<1>1. Len(rows) \in Nat /\ k \in Nat /\ k - 1 \in Nat
  BY Positions
<1>2. /\ before.results = [m \in 1 .. (k - 1) |-> f[m]] /\ f[k] = RowResult(rows, apps, k)
      /\ [m \in 1 .. k |-> RowResult(rows, apps, m)] = [m \in 1 .. k |-> f[m]]
  <2>1. \A m \in 1 .. k : m \in 1 .. Len(rows)
    BY <1>1
  <2>2. \A m \in 1 .. (k - 1) : m \in 1 .. Len(rows)
    BY <1>1
  <2>. QED
    BY <2>1, <2>2 DEF AfterRows
<1>3. Append(before.results, RowResult(rows, apps, k))
          = [m \in 1 .. k |-> RowResult(rows, apps, m)]
  <2>. HIDE DEF f, before
  <2>. QED
    BY <1>1, <1>2, AppendOne
<1>4. Key(rows[k]) \in DOMAIN before.exact <=> IsExact(rows, apps, k)
  <2>1. Key(rows[k]) \in DOMAIN ExactMap(apps) <=> OfKey(apps, Key(rows[k])) # {}
    BY ExactMapIs
  <2>. QED
    BY <2>1 DEF AfterRows, IsExact
<1>5. 1 .. k = 1 .. (k - 1) \cup {k}
  BY <1>1
<1>6. CASE IsExact(rows, apps, k)
  <2>1. before.exact[Key(rows[k])] = ExactMap(apps)[Key(rows[k])]
    BY <1>4, <1>6 DEF AfterRows
  <2>2. [x \in DOMAIN before.exact \ {Key(rows[k])} |-> before.exact[x]]
            = AfterRows(rows, apps, k).exact
    BY <1>5 DEF AfterRows
  <2>3. RowResult(rows, apps, k) = Found(ExactMap(apps)[Key(rows[k])], "HIGH", 95)
    BY <1>6 DEF RowResult
  <2>4. AfterRows(rows, apps, k) = [results |-> [m \in 1 .. k |-> RowResult(rows, apps, m)],
                                    exact |-> AfterRows(rows, apps, k).exact]
    BY DEF AfterRows
  <2>. HIDE DEF before, f
  <2>. QED
    BY <1>3, <1>4, <1>6, <2>1, <2>2, <2>3, <2>4 DEF MatchRow
<1>7. CASE ~IsExact(rows, apps, k)
  <2>1. RowResult(rows, apps, k) = Scored(rows[k], apps)
    BY <1>7 DEF RowResult
  <2>2. before = [results |-> before.results, exact |-> before.exact]
    BY DEF AfterRows
  <2>3. before.exact = AfterRows(rows, apps, k).exact
    <3>1. Key(rows[k]) \notin DOMAIN before.exact
      BY <1>4, <1>7
    <3>2. DOMAIN ExactMap(apps) \ {Key(rows[l]) : l \in 1 .. (k - 1)}
              = DOMAIN ExactMap(apps) \ {Key(rows[l]) : l \in 1 .. k}
      BY <1>5, <3>1 DEF AfterRows
    <3>. QED
      BY <3>2 DEF AfterRows
  <2>4. AfterRows(rows, apps, k) = [results |-> [m \in 1 .. k |-> RowResult(rows, apps, m)],
                                    exact |-> AfterRows(rows, apps, k).exact]
    BY DEF AfterRows
  <2>. HIDE DEF before, f
  <2>5. MatchRow(apps, before, rows[k])
            = [before EXCEPT !.results = Append(before.results, Scored(rows[k], apps))]
    BY <1>4, <1>7 DEF MatchRow
  <2>6. @ = [results |-> Append(before.results, Scored(rows[k], apps)),
             exact   |-> before.exact]
    BY <2>2, ReplaceResults
  <2>. QED
    BY <1>3, <2>1, <2>3, <2>4, <2>5, <2>6
<1>. QED
  BY <1>6, <1>7

LEMMA MatchAllIs ==
    ASSUME NEW T, NEW apps \in Seq(T), NEW rows \in Seq(T)
    PROVE  MatchAll(rows, apps) = [m \in 1 .. Len(rows) |-> RowResult(rows, apps, m)]
<1>. DEFINE n == Len(rows)
            start == [results |-> <<>>, exact |-> ExactMap(apps)]
<1>1. PICK acc : RowSteps(acc, apps, start, rows) /\ WalkRows(apps, start, rows) = acc[n]
  <2>. HIDE DEF start
  <2>. QED
    BY RowFold
<1>2. MatchAll(rows, apps) = acc[n].results
  <2>1. MatchAll(rows, apps) = WalkRows(apps, start, rows).results
    BY DEF MatchAll, WalkRows, FoldLeft, MapThenFoldSet
  <2>. QED
    BY <1>1, <2>1
<1>3. n \in Nat
  BY Positions
<1>. DEFINE Bad == {k \in 0 .. n : acc[k] # AfterRows(rows, apps, k)}
<1>4. Bad = {}
  <2>. SUFFICES ASSUME Bad # {} PROVE FALSE
    OBVIOUS
  <2>1. PICK k \in Bad : \A l \in Bad : k <= l
    <3>. HIDE DEF Bad
    <3>1. Bad \in SUBSET (0 .. n)
      BY DEF Bad
    <3>. QED
      BY <1>3, <3>1, SmallestNumber
  <2>2. k \in 0 .. n /\ acc[k] # AfterRows(rows, apps, k)
    OBVIOUS
  <2>3. k # 0
    <3>1. AfterRows(rows, apps, 0) = start
      <4>1. 1 .. 0 = {}
        OBVIOUS
      <4>2. [m \in {} |-> RowResult(rows, apps, m)] = << >>
        OBVIOUS
      <4>3. ExactMap(apps) = [x \in DOMAIN ExactMap(apps) |-> ExactMap(apps)[x]]
        BY DEF ExactMap
      <4>4. DOMAIN ExactMap(apps) \ {Key(rows[l]) : l \in {}} = DOMAIN ExactMap(apps)
        OBVIOUS
      <4>. QED
        BY <4>1, <4>2, <4>3, <4>4 DEF AfterRows
    <3>2. acc[0] = start
      BY <1>1 DEF RowSteps
    <3>. QED
      BY <2>2, <3>1, <3>2
  <2>4. k \in 1 .. n /\ k - 1 \in 0 .. n /\ k - 1 \notin Bad
    <3>. HIDE DEF Bad
    <3>1. k \in 1 .. n /\ k - 1 \in 0 .. n /\ ~(k <= k - 1)
      BY <1>3, <2>2, <2>3
    <3>. QED
      BY <2>1, <3>1
  <2>5. acc[k - 1] = AfterRows(rows, apps, k - 1)
    BY <2>4
  <2>6. acc[k] = MatchRow(apps, acc[k - 1], rows[k])
    BY <1>1, <2>4 DEF RowSteps
  <2>. HIDE DEF Bad
  <2>. QED
    BY <2>2, <2>4, <2>5, <2>6, RowStep
<1>5. acc[n] = AfterRows(rows, apps, n)
  <2>1. n \in 0 .. n
    <3>. HIDE DEF n
    <3>. QED
      BY <1>3
  <2>2. n \notin Bad
    BY <1>4
  <2>. QED
    BY <2>1, <2>2
<1>. QED
  BY <1>2, <1>5 DEF AfterRows

-----------------------------------------------------------------------------
(***************************************************************************)
(* The results of a statement: of the overlap by the loop, then the tail.  *)
(***************************************************************************)
LEMMA AsSeq ==
    ASSUME NEW S, NEW n \in Nat, NEW f \in [1 .. n -> S]
    PROVE  f \in Seq(S) /\ Len(f) = n
OBVIOUS

LEMMA PartOf ==
    ASSUME NEW T, NEW rows \in Seq(T), NEW S \in SUBSET DOMAIN rows
    PROVE  /\ RowsAt(rows, S) \in Seq(T) /\ Len(RowsAt(rows, S)) \in Nat
           /\ \A k \in 1 .. Len(RowsAt(rows, S)) : \E i \in S : RowsAt(rows, S)[k] = rows[i]
           /\ \A i \in S : \E k \in 1 .. Len(RowsAt(rows, S)) : RowsAt(rows, S)[k] = rows[i]
<1>1. /\ IsFiniteSet(S) /\ Cardinality(S) \in Nat
      /\ RowsAt(rows, S) \in Seq(T) /\ Len(RowsAt(rows, S)) = Cardinality(S)
  BY RowsAtType
<1>2. S \in SUBSET Int
  BY Positions
<1>3. /\ InOrder(S) \in [1 .. Cardinality(S) -> S] /\ Len(InOrder(S)) = Cardinality(S)
      /\ \A i \in S : \E k \in 1 .. Cardinality(S) : InOrder(S)[k] = i
  BY <1>1, <1>2, InOrderMembers, InOrderAscends
<1>4. \A k \in 1 .. Cardinality(S) : RowsAt(rows, S)[k] = rows[InOrder(S)[k]]
  BY DEF RowsAt
<1>. QED
  BY <1>1, <1>3, <1>4

LEMMA PlanIs ==
    ASSUME NEW T, NEW rows \in Seq(T), NEW apps \in Seq(T), NEW last
    PROVE  LET p == Plan(rows, apps, last)
               n == Len(OverlapRows(rows, last))
           IN  /\ p = [rows |-> p.rows, results |-> p.results]
               /\ p.rows \in Seq(T) /\ DOMAIN p.results = DOMAIN p.rows
               /\ \A i \in DOMAIN p.rows : \E k \in DOMAIN rows : p.rows[i] = rows[k]
               /\ n \in Nat /\ 1 .. n \subseteq DOMAIN p.rows
               /\ \A i \in 1 .. n : /\ ~InTail(p.rows[i], last)
                                    /\ p.results[i] = RowResult(p.rows, apps, i)
               /\ \A i \in DOMAIN p.rows \ (1 .. n) :
                     InTail(p.rows[i], last) /\ p.results[i] = Found(NoTxn, "MISSING", 100)
<1>. DEFINE p == Plan(rows, apps, last)
            over == OverlapRows(rows, last)
            tail == TailRows(rows, last)
            matched == MatchAll(over, apps)
            rest == [i \in DOMAIN tail |-> Found(NoTxn, "MISSING", 100)]
            V == {RowResult(over, apps, m) : m \in 1 .. Len(over)}
                    \cup {Found(NoTxn, "MISSING", 100)}
<1>1. /\ over \in Seq(T) /\ Len(over) \in Nat
      /\ \A k \in 1 .. Len(over) : /\ ~InTail(over[k], last)
                                   /\ \E i \in DOMAIN rows : over[k] = rows[i]
  <2>. DEFINE S == {i \in DOMAIN rows : ~InTail(rows[i], last)}
  <2>1. over = RowsAt(rows, S) /\ S \in SUBSET DOMAIN rows
    BY DEF OverlapRows
  <2>2. \A i \in S : ~InTail(rows[i], last) /\ i \in DOMAIN rows
    OBVIOUS
  <2>. HIDE DEF S, over
  <2>. QED
    BY <2>1, <2>2, PartOf
<1>2. /\ tail \in Seq(T) /\ Len(tail) \in Nat
      /\ \A k \in 1 .. Len(tail) : /\ InTail(tail[k], last)
                                   /\ \E i \in DOMAIN rows : tail[k] = rows[i]
  <2>. DEFINE S == {i \in DOMAIN rows : InTail(rows[i], last)}
  <2>1. tail = RowsAt(rows, S) /\ S \in SUBSET DOMAIN rows
    BY DEF TailRows
  <2>2. \A i \in S : InTail(rows[i], last) /\ i \in DOMAIN rows
    OBVIOUS
  <2>. HIDE DEF S, tail
  <2>. QED
    BY <2>1, <2>2, PartOf
<1>3. p = [rows |-> over \o tail, results |-> matched \o rest]
  BY DEF Plan
<1>. HIDE DEF over, tail
<1>4. matched = [m \in 1 .. Len(over) |-> RowResult(over, apps, m)]
  BY <1>1, MatchAllIs
<1>5. matched \in Seq(V) /\ Len(matched) = Len(over)
  <2>1. matched \in [1 .. Len(over) -> V]
    BY <1>4
  <2>. HIDE DEF matched, V
  <2>. QED
    BY <1>1, <2>1, AsSeq
<1>6. rest \in Seq(V) /\ Len(rest) = Len(tail)
  <2>1. DOMAIN tail = 1 .. Len(tail)
    BY <1>2, Positions
  <2>2. rest \in [1 .. Len(tail) -> V]
    BY <2>1
  <2>. HIDE DEF rest, V
  <2>. QED
    BY <1>2, <2>2, AsSeq
<1>7. \A i \in DOMAIN tail : rest[i] = Found(NoTxn, "MISSING", 100)
  OBVIOUS
<1>. HIDE DEF matched, rest, V
<1>8. /\ p.rows \in Seq(T) /\ Len(p.rows) = Len(over) + Len(tail)
      /\ \A i \in 1 .. (Len(over) + Len(tail)) :
            p.rows[i] = IF i <= Len(over) THEN over[i] ELSE tail[i - Len(over)]
  BY <1>1, <1>2, <1>3, ConcatProperties
<1>9. /\ p.results \in Seq(V) /\ Len(p.results) = Len(over) + Len(tail)
      /\ \A i \in 1 .. (Len(over) + Len(tail)) :
            p.results[i] = IF i <= Len(over) THEN matched[i] ELSE rest[i - Len(over)]
  <2>1. p.results = matched \o rest
    BY <1>3
  <2>. HIDE DEF p
  <2>2. /\ matched \o rest \in Seq(V)
        /\ Len(matched \o rest) = Len(matched) + Len(rest)
        /\ \A i \in 1 .. (Len(matched) + Len(rest)) : (matched \o rest)[i] =
              IF i <= Len(matched) THEN matched[i] ELSE rest[i - Len(matched)]
    BY <1>5, <1>6, ConcatProperties
  <2>. QED
    BY <1>5, <1>6, <2>1, <2>2
<1>10. p = [rows |-> p.rows, results |-> p.results]
  BY <1>3
<1>. HIDE DEF p
<1>11. /\ DOMAIN p.rows = 1 .. (Len(over) + Len(tail)) /\ DOMAIN p.results = DOMAIN p.rows
  BY <1>8, <1>9, Positions
<1>12. 1 .. Len(over) \subseteq DOMAIN p.rows
  BY <1>1, <1>2, <1>11
<1>13. ASSUME NEW i \in 1 .. Len(over)
       PROVE  /\ ~InTail(p.rows[i], last) /\ p.results[i] = RowResult(p.rows, apps, i)
              /\ \E k \in DOMAIN rows : p.rows[i] = rows[k]
  <2>1. i \in 1 .. (Len(over) + Len(tail)) /\ i <= Len(over)
    BY <1>1, <1>2
  <2>2. p.rows[i] = over[i] /\ p.results[i] = RowResult(over, apps, i)
    BY <1>4, <1>8, <1>9, <2>1
  <2>3. \A l \in 1 .. (i - 1) : p.rows[l] = over[l]
    <3>1. \A l \in 1 .. (i - 1) : l \in 1 .. (Len(over) + Len(tail)) /\ l <= Len(over)
      BY <1>1, <1>2, <2>1
    <3>. QED
      BY <1>8, <3>1
  <2>4. IsExact(p.rows, apps, i) <=> IsExact(over, apps, i)
    BY <2>2, <2>3 DEF IsExact
  <2>5. RowResult(p.rows, apps, i) = RowResult(over, apps, i)
    BY <2>2, <2>4 DEF RowResult
  <2>. QED
    BY <1>1, <2>2, <2>5
<1>14. ASSUME NEW i \in DOMAIN p.rows \ (1 .. Len(over))
       PROVE  /\ InTail(p.rows[i], last) /\ p.results[i] = Found(NoTxn, "MISSING", 100)
              /\ \E k \in DOMAIN rows : p.rows[i] = rows[k]
  <2>1. /\ i \in 1 .. (Len(over) + Len(tail)) /\ ~(i <= Len(over))
        /\ i - Len(over) \in 1 .. Len(tail)
    BY <1>1, <1>2, <1>11
  <2>2. i - Len(over) \in DOMAIN tail
    BY <1>2, <2>1, Positions
  <2>3. p.rows[i] = tail[i - Len(over)] /\ p.results[i] = Found(NoTxn, "MISSING", 100)
    BY <1>7, <1>8, <1>9, <2>1, <2>2
  <2>. QED
    BY <1>2, <2>1, <2>3
<1>. QED
  BY <1>1, <1>8, <1>10, <1>11, <1>12, <1>13, <1>14 DEF over, p

-----------------------------------------------------------------------------
(***************************************************************************)
(* Every statement with every list of transactions.                        *)
(***************************************************************************)
Inputs == UNION {g.items : g \in Grids}

PairingInv ==
    /\ statement \in Seq(Inputs) /\ fetched \in Seq(Inputs)
    /\ outside \in Seq(Inputs)
    /\ \A i \in DOMAIN fetched : InRange(fetched[i], statement)
    /\ \A i \in DOMAIN outside : ~InRange(outside[i], statement)
    /\ pairing = NoPairing \/ pairing = Plan(statement, fetched, newest)

LEMMA InputsAreItems == \A T \in SUBSET Inputs : \A s \in Seq(T) : \A i \in DOMAIN s : IsItem(s[i])
BY GridsAssumption, LenProperties DEF Inputs, IsItem

LEMMA PairingInvariant == MatchSpec => []PairingInv
<1>1. MatchInit => PairingInv
  <2>. SUFFICES ASSUME MatchInit PROVE PairingInv
    OBVIOUS
  <2>1. PICK g \in Grids : /\ statement \in SeqOf(g.items, g.len)
                           /\ fetched \in SeqOf(g.items, g.len) /\ pairing = NoPairing
                           /\ outside \in SeqOf(g.far, 1)
                           /\ \A i \in DOMAIN fetched : InRange(fetched[i], statement)
                           /\ \A i \in DOMAIN outside : ~InRange(outside[i], statement)
    BY DEF MatchInit
  <2>2. ASSUME NEW n \in {g.len, 1}, NEW S \in {g.items, g.far}, NEW s \in SeqOf(S, n)
        PROVE  s \in Seq(Inputs)
    <3>1. PICK m \in 0 .. n : s \in [1 .. m -> S]
      BY DEF SeqOf
    <3>2. m \in Nat /\ S \subseteq Inputs
      BY GridsAssumption DEF Inputs
    <3>3. s \in [1 .. m -> Inputs]
      BY <3>1, <3>2
    <3>. QED
      BY <3>2, <3>3, AsSeq
  <2>. QED
    BY <2>1, <2>2 DEF PairingInv
<1>2. PairingInv /\ [Match]_matchVars => PairingInv'
  BY DEF PairingInv, Match, matchVars
<1>. QED
  BY <1>1, <1>2, PTL DEF MatchSpec

(***************************************************************************)
(* The rows of the overlap come first, and each has what the loop gave it. *)
(***************************************************************************)
LEMMA OverlapResults ==
    ASSUME PairingInv
    PROVE  \E n \in Nat :
              /\ OverlapAt = 1 .. n
              /\ \A i \in 1 .. n : /\ IsItem(Row(i))
                                   /\ Res(i) = RowResult(pairing.rows, fetched, i)
<1>1. CASE pairing = NoPairing
  <2>1. OverlapAt = 1 .. 0
    BY <1>1 DEF OverlapAt, Rows, NoPairing
  <2>. QED
    BY <2>1
<1>2. CASE pairing = Plan(statement, fetched, newest)
  <2>. DEFINE n == Len(OverlapRows(statement, newest))
              p == Plan(statement, fetched, newest)
  <2>1. statement \in Seq(Inputs) /\ fetched \in Seq(Inputs)
    BY DEF PairingInv
  <2>2. /\ p.rows \in Seq(Inputs) /\ n \in Nat /\ 1 .. n \subseteq DOMAIN p.rows
        /\ \A k \in 1 .. n : /\ ~InTail(p.rows[k], newest)
                             /\ p.results[k] = RowResult(p.rows, fetched, k)
        /\ \A k \in DOMAIN p.rows \ (1 .. n) : InTail(p.rows[k], newest)
    BY <2>1, PlanIs
  <2>. HIDE DEF n, p
  <2>3. pairing = p
    BY <1>2 DEF p
  <2>4. OverlapAt = 1 .. n
    BY <2>2, <2>3 DEF OverlapAt, Rows, Row
  <2>5. \A i \in 1 .. n : IsItem(Row(i))
    BY <2>2, <2>3, InputsAreItems DEF Row
  <2>6. \A i \in 1 .. n : Res(i) = RowResult(pairing.rows, fetched, i)
    BY <2>2, <2>3 DEF Res
  <2>. QED
    BY <2>2, <2>4, <2>5, <2>6
<1>. QED
  BY <1>1, <1>2 DEF PairingInv

(***************************************************************************)
(* Of two different transactions near a row one beats the other.           *)
(***************************************************************************)
LEMMA OneBeats ==
    ASSUME NEW s, NEW T, NEW apps \in Seq(T), \A i \in DOMAIN apps : IsItem(apps[i]),
           NEW i \in DOMAIN apps, NEW j \in DOMAIN apps, i # j
    PROVE  ~(Beats(s, apps, i, j) /\ Beats(s, apps, j, i))
<1>1. i \in Int /\ j \in Int /\ Day(apps[i]) \in Nat /\ Day(apps[j]) \in Nat
  BY Positions, DayIsNat
<1>2. Score(s, apps[i]) \in Nat /\ Score(s, apps[j]) \in Nat
  BY ScoreIsNat
<1>. QED
  BY <1>1, <1>2 DEF Beats, Earlier

LEMMA FetchedAreItems == PairingInv => \A k \in DOMAIN fetched : IsItem(fetched[k])
BY InputsAreItems DEF PairingInv

LEMMA ResultIsReference ==
    ASSUME PairingInv, NEW i \in OverlapAt
    PROVE  Res(i) = Reference(i)
<1>. DEFINE s == Row(i)
            best == {k \in Candidates(s) : \A j \in Candidates(s) \ {k} :
                     \/ Score(s, fetched[k]) > Score(s, fetched[j])
                     \/ Score(s, fetched[k]) = Score(s, fetched[j]) /\ Before(k, j)}
<1>0. PICK n \in Nat :
         /\ OverlapAt = 1 .. n
         /\ \A k \in 1 .. n : /\ IsItem(Row(k))
                              /\ Res(k) = RowResult(pairing.rows, fetched, k)
  BY OverlapResults
<1>1. i \in 1 .. n /\ IsItem(s) /\ Res(i) = RowResult(pairing.rows, fetched, i)
  BY <1>0
<1>2. fetched \in Seq(Inputs) /\ \A k \in DOMAIN fetched : IsItem(fetched[k])
  BY FetchedAreItems DEF PairingInv
<1>3. IsExact(pairing.rows, fetched, i) <=> SameKey(s) # {} /\ FirstOfKey(i)
  <2>1. SameKey(s) = OfKey(fetched, Key(s))
    BY DEF SameKey, OfKey
  <2>2. (\E j \in OverlapAt : j < i /\ Key(Row(j)) = Key(s))
            <=> \E l \in 1 .. (i - 1) : Key(pairing.rows[l]) = Key(s)
    <3>1. \A j : j \in 1 .. n /\ j < i <=> j \in 1 .. (i - 1)
      BY <1>0, <1>1
    <3>. QED
      BY <1>0, <3>1 DEF Row
  <2>. QED
    BY <2>1, <2>2 DEF IsExact, FirstOfKey, Row
<1>4. CASE IsExact(pairing.rows, fetched, i)
  <2>. DEFINE e == ExactMap(fetched)[Key(s)]
  <2>1. OfKey(fetched, Key(s)) # {} /\ SameKey(s) = OfKey(fetched, Key(s))
    BY <1>4 DEF IsExact, SameKey, OfKey, Row
  <2>2. e \in SameKey(s) /\ \A j \in SameKey(s) : j <= e
    BY <1>2, <2>1, ExactMapIs
  <2>3. SameKey(s) \subseteq Int
    BY <1>2, Positions DEF SameKey
  <2>. HIDE DEF e
  <2>4. (CHOOSE k \in SameKey(s) : \A j \in SameKey(s) : j <= k) = e
    <3>. DEFINE c == CHOOSE k \in SameKey(s) : \A j \in SameKey(s) : j <= k
    <3>1. c \in SameKey(s) /\ \A j \in SameKey(s) : j <= c
      BY <2>2
    <3>. HIDE DEF c
    <3>2. c <= e /\ e <= c /\ c \in Int /\ e \in Int
      BY <2>2, <2>3, <3>1
    <3>3. c = e
      BY <3>2
    <3>. QED
      BY <3>3 DEF c
  <2>5. Res(i) = Found(e, "HIGH", 95)
    BY <1>1, <1>4 DEF RowResult, Row, e
  <2>. QED
    BY <1>3, <1>4, <2>4, <2>5 DEF Reference, Found
<1>5. CASE ~IsExact(pairing.rows, fetched, i)
  <2>1. Res(i) = Scored(s, fetched)
    BY <1>1, <1>5 DEF RowResult, Row
  <2>2. Candidates(s) = Near(s, fetched)
    BY DEF Candidates, Near
  <2>3. \A k : k \in best <=> IsBest(s, fetched, k)
    BY <2>2 DEF IsBest, Beats, Before, Earlier
  <2>4. CASE Near(s, fetched) = {} /\ Scored(s, fetched) = Found(NoTxn, "MISSING", 0)
    <3>1. best = {}
      BY <2>2, <2>4
    <3>. QED
      BY <1>3, <1>5, <2>1, <2>4, <3>1 DEF Reference, Found
  <2>5. ASSUME NEW k \in Near(s, fetched), IsBest(s, fetched, k),
               Scored(s, fetched) = Found(k, IF Score(s, fetched[k]) >= Threshold
                                             THEN "HIGH" ELSE "LOW", Score(s, fetched[k]))
        PROVE  Res(i) = Reference(i)
    <3>1. k \in best
      BY <2>3, <2>5
    <3>2. ASSUME NEW j \in best PROVE j = k
      <4>. SUFFICES ASSUME j # k PROVE FALSE
        OBVIOUS
      <4>1. IsBest(s, fetched, j)
        BY <2>3, <3>2
      <4>2. j \in Near(s, fetched) /\ Beats(s, fetched, j, k) /\ Beats(s, fetched, k, j)
        BY <2>5, <4>1 DEF IsBest
      <4>3. j \in DOMAIN fetched /\ k \in DOMAIN fetched
        BY <4>2 DEF Near
      <4>. QED
        BY <1>2, <4>2, <4>3, OneBeats
    <3>. HIDE DEF best
    <3>3. (CHOOSE c \in best : TRUE) = k
      BY <3>1, <3>2
    <3>4. best # {}
      BY <3>1
    <3>. QED
      BY <1>3, <1>5, <2>1, <2>5, <3>3, <3>4 DEF Reference, Found, best
  <2>. QED
    BY <1>1, <1>2, <2>4, <2>5, ScoredIs
<1>. QED
  BY <1>4, <1>5

(***************************************************************************)
(* The loops find what the definition of a best match says.                *)
(***************************************************************************)
THEOREM LoopsFindTheBest == MatchSpec => []AgreesWithReference
<1>1. PairingInv => AgreesWithReference
  BY ResultIsReference DEF AgreesWithReference
<1>. QED
  BY <1>1, PairingInvariant, PTL

(***************************************************************************)
(* What a row of the overlap has been given: by its key or by its score.   *)
(***************************************************************************)
LEMMA ResultCases ==
    ASSUME PairingInv, NEW i \in OverlapAt
    PROVE  /\ IsItem(Row(i))
           /\ \/ /\ Res(i).txn \in OfKey(fetched, Key(Row(i)))
                 /\ Res(i).kind = "HIGH" /\ Res(i).score = 95 /\ FirstOfKey(i)
              \/ /\ Near(Row(i), fetched) = {}
                 /\ Res(i) = Found(NoTxn, "MISSING", 0)
              \/ /\ Res(i).txn \in Near(Row(i), fetched) /\ Res(i).txn # NoTxn
                 /\ Res(i).score = Score(Row(i), Match4(i))
                 /\ Res(i).kind = IF Res(i).score >= Threshold THEN "HIGH" ELSE "LOW"
<1>1. PICK n \in Nat :
         /\ OverlapAt = 1 .. n
         /\ \A k \in 1 .. n : /\ IsItem(Row(k))
                              /\ Res(k) = RowResult(pairing.rows, fetched, k)
  BY OverlapResults
<1>2. i \in 1 .. n /\ IsItem(Row(i)) /\ Res(i) = RowResult(pairing.rows, fetched, i)
  BY <1>1
<1>3. fetched \in Seq(Inputs) /\ \A k \in DOMAIN fetched : IsItem(fetched[k])
  BY FetchedAreItems DEF PairingInv
<1>4. CASE IsExact(pairing.rows, fetched, i)
  <2>1. OfKey(fetched, Key(Row(i))) # {}
    BY <1>4 DEF IsExact, Row
  <2>2. ExactMap(fetched)[Key(Row(i))] \in OfKey(fetched, Key(Row(i)))
    BY <1>3, <2>1, ExactMapIs
  <2>3. Res(i) = Found(ExactMap(fetched)[Key(Row(i))], "HIGH", 95)
    BY <1>2, <1>4 DEF RowResult, Row
  <2>4. FirstOfKey(i)
    <3>1. \A j \in 1 .. n : j < i => j \in 1 .. (i - 1)
      BY <1>1, <1>2
    <3>. QED
      BY <1>1, <1>4, <3>1 DEF IsExact, FirstOfKey, Row
  <2>. QED
    BY <1>2, <2>2, <2>3, <2>4 DEF Found
<1>5. CASE ~IsExact(pairing.rows, fetched, i)
  <2>1. Res(i) = Scored(Row(i), fetched)
    BY <1>2, <1>5 DEF RowResult, Row
  <2>2. ASSUME NEW k \in Near(Row(i), fetched),
               Res(i) = Found(k, IF Score(Row(i), fetched[k]) >= Threshold
                                 THEN "HIGH" ELSE "LOW", Score(Row(i), fetched[k]))
        PROVE  /\ Res(i).txn \in Near(Row(i), fetched) /\ Res(i).txn # NoTxn
               /\ Res(i).score = Score(Row(i), Match4(i))
               /\ Res(i).kind = IF Res(i).score >= Threshold THEN "HIGH" ELSE "LOW"
    <3>1. k # NoTxn
      <4>1. k \in DOMAIN fetched
        BY DEF Near
      <4>. QED
        BY <1>3, <4>1, Positions DEF NoTxn
    <3>2. Res(i).txn = k /\ Res(i).score = Score(Row(i), fetched[k])
      BY <2>2 DEF Found
    <3>. QED
      BY <2>2, <3>1, <3>2 DEF Found, Match4
  <2>. QED
    BY <1>2, <1>3, <2>1, <2>2, ScoredIs
<1>. QED
  BY <1>4, <1>5

(***************************************************************************)
(* An exact match is spent on the first row of its key.                    *)
(***************************************************************************)
THEOREM ExactMatchesAreSpent == MatchSpec => []ExactIsSpent
<1>1. ASSUME PairingInv PROVE ExactIsSpent
  <2>. SUFFICES ASSUME NEW i \in OverlapAt, NEW j \in OverlapAt, i < j,
                       Key(Row(i)) = Key(Row(j))
                PROVE  Res(j).score = IF Res(j).txn = NoTxn THEN 0
                                      ELSE Score(Row(j), Match4(j))
    BY DEF ExactIsSpent
  <2>1. ~FirstOfKey(j)
    BY DEF FirstOfKey
  <2>2. \/ Res(j) = Found(NoTxn, "MISSING", 0)
        \/ Res(j).txn # NoTxn /\ Res(j).score = Score(Row(j), Match4(j))
    BY <1>1, <2>1, ResultCases
  <2>. QED
    BY <2>2 DEF Found
<1>. QED
  BY <1>1, PairingInvariant, PTL

(***************************************************************************)
(* Date, description and reference together give 65: a match accepted      *)
(* above that has an amount that fits.                                     *)
(***************************************************************************)
LEMMA HighNeedsAmount ==
    ASSUME NEW s, NEW t, IsItem(s), IsItem(t), s.amount > 0, Score(s, t) > 65
    PROVE  100 * Dist(s.amount, t.amount) <= 3 * s.amount
<1>1. AmountScore(s, t) # 0
  BY ScoreParts DEF Score
<1>2. s.amount \in Int /\ t.amount \in Int
  BY DEF IsItem
<1>3. s.amount = t.amount \/ WithinPct(s, t, 1) \/ WithinPct(s, t, 3)
  BY <1>1 DEF AmountScore
<1>. QED
  BY <1>2, <1>3 DEF WithinPct, Dist

(***************************************************************************)
(* Two times at most 48 hours apart are at most two calendar days apart,   *)
(* and what is within 48 hours of a row is within the query's bounds.      *)
(***************************************************************************)
LEMMA AroundIsNear ==
    ASSUME NEW s, NEW t, IsItem(s), IsItem(t), Around(s, t)
    PROVE  t.type = s.type /\ Dist(Day(t), Day(s)) <= 2
<1>. DEFINE D == DayTicks
            a == Day(s)
            b == Day(t)
<1>1. D \in Nat /\ D > 0 /\ s.at \in Nat /\ t.at \in Nat
  BY DayTicksAssumption DEF IsItem
<1>2. /\ a \in Nat /\ D * a <= s.at /\ s.at < D * a + D
      /\ b \in Nat /\ D * b <= t.at /\ t.at < D * b + D
  BY DayIsNat
<1>3. t.at <= s.at + 2 * D /\ s.at <= t.at + 2 * D
  BY <1>1 DEF Around, Dist
<1>. HIDE DEF a, b
<1>4. ~(b >= a + 3)
  <2>. SUFFICES ASSUME b >= a + 3 PROVE FALSE
    OBVIOUS
  <2>1. D * b >= D * (a + 3) /\ D * (a + 3) = D * a + 3 * D
    BY <1>1, <1>2
  <2>. QED
    BY <1>1, <1>2, <1>3, <2>1
<1>5. ~(a >= b + 3)
  <2>. SUFFICES ASSUME a >= b + 3 PROVE FALSE
    OBVIOUS
  <2>1. D * a >= D * (b + 3) /\ D * (b + 3) = D * b + 3 * D
    BY <1>1, <1>2
  <2>. QED
    BY <1>1, <1>2, <1>3, <2>1
<1>6. Dist(b, a) <= 2
  BY <1>2, <1>4, <1>5 DEF Dist
<1>. QED
  BY <1>6 DEF Around, a, b

LEMMA AroundIsInRange ==
    ASSUME NEW rows, NEW k \in DOMAIN rows, NEW t, IsItem(rows[k]), IsItem(t),
           Around(rows[k], t)
    PROVE  InRange(t, rows)
<1>1. rows[k].at \in Nat /\ t.at \in Nat /\ 2 * DayTicks \in Nat
  BY DayTicksAssumption DEF IsItem
<1>2. t.at >= rows[k].at - 2 * DayTicks /\ t.at <= rows[k].at + 2 * DayTicks
  BY <1>1 DEF Around, Dist
<1>. QED
  BY <1>2 DEF InRange

LEMMA RowsOfStatement ==
    ASSUME PairingInv, NEW i \in Rows
    PROVE  \E k \in DOMAIN statement : Row(i) = statement[k]
<1>1. CASE pairing = NoPairing
  BY <1>1 DEF Rows, NoPairing
<1>2. CASE pairing = Plan(statement, fetched, newest)
  <2>. DEFINE p == Plan(statement, fetched, newest)
  <2>1. \A j \in DOMAIN p.rows : \E k \in DOMAIN statement : p.rows[j] = statement[k]
    BY PlanIs DEF PairingInv
  <2>. HIDE DEF p
  <2>. QED
    BY <1>2, <2>1 DEF Rows, Row, p
<1>. QED
  BY <1>1, <1>2 DEF PairingInv

(***************************************************************************)
(* At any threshold above that (it is 70 unless the user changes it), for  *)
(* every account: a row is created only when no unverified transaction of  *)
(* its type, fetched or not, is within 48 hours of it, and a match is      *)
(* accepted only when the amount fits.                                     *)
(***************************************************************************)
THEOREM DecisionsRestOnAmounts ==
    ASSUME Threshold > 65
    PROVE  MatchSpec => []DecidedOnAmounts
<1>1. ASSUME PairingInv, NEW i \in OverlapAt, Res(i).kind = "HIGH", Row(i).amount > 0
      PROVE  100 * Dist(Row(i).amount, Match4(i).amount) <= 3 * Row(i).amount
  <2>1. IsItem(Row(i))
    BY <1>1, ResultCases
  <2>2. CASE Res(i).txn \in OfKey(fetched, Key(Row(i)))
    <3>1. Match4(i).amount = Row(i).amount
      BY <2>2 DEF OfKey, Key, Match4
    <3>. QED
      BY <1>1, <2>1, <3>1 DEF IsItem, Dist
  <2>3. CASE /\ Res(i).txn \in Near(Row(i), fetched)
             /\ Res(i).score = Score(Row(i), Match4(i)) /\ Res(i).score >= Threshold
    <3>1. IsItem(Match4(i))
      BY <1>1, <2>3, FetchedAreItems DEF Near, Match4
    <3>2. Score(Row(i), Match4(i)) > 65
      BY <2>3, ScoreIsNat, ThresholdAssumption
    <3>. QED
      BY <1>1, <2>1, <3>1, <3>2, HighNeedsAmount
  <2>. QED
    BY <1>1, <2>2, <2>3, ResultCases DEF Found
<1>2. ASSUME PairingInv, NEW i \in Creates(pairing) \cap OverlapAt
      PROVE  /\ Candidates(Row(i)) = {}
             /\ \A j \in DOMAIN fetched : ~Around(Row(i), fetched[j])
             /\ \A j \in DOMAIN outside : ~Around(Row(i), outside[j])
  <2>1. Res(i).kind = "MISSING"
    BY <1>2 DEF Creates, Res
  <2>2. Near(Row(i), fetched) = {}
    BY <1>2, <2>1, ResultCases
  <2>3. PICK k \in DOMAIN statement : Row(i) = statement[k]
    BY <1>2, RowsOfStatement DEF OverlapAt
  <2>4. IsItem(Row(i))
    BY <1>2, ResultCases
  <2>5. ASSUME NEW j \in DOMAIN outside PROVE ~Around(Row(i), outside[j])
    <3>1. IsItem(outside[j]) /\ ~InRange(outside[j], statement)
      BY <1>2, InputsAreItems DEF PairingInv
    <3>. QED
      BY <2>3, <2>4, <3>1, AroundIsInRange
  <2>6. ASSUME NEW j \in DOMAIN fetched PROVE ~Around(Row(i), fetched[j])
    <3>1. IsItem(fetched[j])
      BY <1>2, InputsAreItems DEF PairingInv
    <3>. QED
      BY <2>2, <2>4, <3>1, AroundIsNear DEF Near
  <2>. QED
    BY <2>2, <2>5, <2>6 DEF Near, Candidates
<1>3. PairingInv => DecidedOnAmounts
  BY <1>1, <1>2 DEF DecidedOnAmounts, CreatedOnlyIfAlone, AutoAcceptNeedsAmount
<1>. QED
  BY <1>3, PairingInvariant, PTL
=============================================================================

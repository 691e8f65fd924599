------------------------ MODULE BatchTransactionProofs ------------------------
(***************************************************************************)
(* Proofs about BatchTransaction: what the fold Effect computes, that the  *)
(* optimized operations have the effect of all of them, and the invariant  *)
(* of Execute.                                                             *)
(***************************************************************************)
EXTENDS BatchTransaction, FiniteSetTheorems, WellFoundedInduction, TLAPS

-----------------------------------------------------------------------------
(* Natural numbers: induction as the principle of the least element.       *)

\* A set of natural numbers that is not empty has a least element.
LEMMA LeastElement ==
    ASSUME NEW T \in SUBSET Nat, T # {}
    PROVE  \E n \in T : \A m \in T : n <= m
<1>1. PICK n \in T : \A m \in T : ~ (<<m, n>> \in OpToRel(<, Nat))
  BY NatLessThanWellFounded, WFMin
<1>2. \A m \in T : ~ (m < n)
  BY <1>1 DEF OpToRel
<1>. QED BY <1>2

\* What holds of 0 and of every successor holds of every natural number.
LEMMA Induction ==
    ASSUME NEW T, 0 \in T, \A n \in Nat : n \in T => n + 1 \in T
    PROVE  Nat \subseteq T
<1>. SUFFICES ASSUME Nat \ T # {} PROVE FALSE
  OBVIOUS
<1>1. PICK n \in Nat \ T : \A m \in Nat \ T : n <= m
  BY LeastElement
<1>2. n # 0 /\ n - 1 \in Nat /\ ~ (n <= n - 1)
  BY <1>1
<1>3. n - 1 \in T
  BY <1>1, <1>2
<1>. QED BY <1>1, <1>2, <1>3

\* A bounded set of natural numbers that is not empty has a greatest element.
LEMMA GreatestElement ==
    ASSUME NEW n \in Nat, NEW T \in SUBSET (0 .. n), T # {}
    PROVE  \E m \in T : \A x \in T : x <= m
<1>. DEFINE Above == {m \in Nat : \A x \in T : x <= m}
<1>1. n \in Above
  OBVIOUS
<1>2. PICK m \in Above : \A y \in Above : m <= y
  <2>1. Above \in SUBSET Nat /\ Above # {}
    BY <1>1
  <2>. QED BY <2>1, LeastElement
<1>3. m \in T
  <2>1. CASE m = 0
    <3>1. PICK x \in T : TRUE
      OBVIOUS
    <3>2. x \in Nat /\ x <= 0
      BY <1>2, <2>1
    <3>. QED BY <3>2, <2>1
  <2>2. CASE m # 0
    <3>1. m - 1 \in Nat /\ m - 1 \notin Above
      BY <1>2, <2>2
    <3>2. PICK x \in T : ~ (x <= m - 1)
      BY <3>1
    <3>3. x <= m /\ x \in Nat /\ m \in Nat
      BY <1>2
    <3>. QED BY <3>2, <3>3
  <2>. QED BY <2>1, <2>2
<1>. QED BY <1>2, <1>3

-----------------------------------------------------------------------------
(* What a sequence of operations does.                                     *)

\* Of the operations of s at the positions S, the one at i is the last of key k.
IsLast(s, S, k, i) ==
    /\ i \in S /\ s[i].key = k
    /\ \A j \in S : s[j].key = k => j <= i

\* Contents with the last value the operations at positions S give each key.
LastWrites(c, s, S) ==
    [k \in Keys |-> IF \E i \in S : s[i].key = k
                    THEN s[CHOOSE i \in S : IsLast(s, S, k, i)].value
                    ELSE c[k]]

\* Contents after one operation.
Write(c, op) == [c EXCEPT ![op.key] = op.value]

\* A key that occurs in a sequence of operations has a last one.
LEMMA LastExists ==
    ASSUME NEW s \in Seq(Op), NEW S \in SUBSET DOMAIN s, NEW k, NEW j \in S, s[j].key = k
    PROVE  \E i \in S : IsLast(s, S, k, i)
<1>. DEFINE T == {i \in S : s[i].key = k}
<1>1. T \in SUBSET (0 .. Len(s)) /\ T # {} /\ Len(s) \in Nat
  OBVIOUS
<1>2. PICK i \in T : \A x \in T : x <= i
  BY <1>1, GreatestElement
<1>. QED BY <1>2 DEF IsLast

\* The last operation of a key gives its value.
LEMMA LastValue ==
    ASSUME NEW c, NEW s, NEW S \in SUBSET Nat, NEW k \in Keys, NEW i \in S, IsLast(s, S, k, i)
    PROVE  LastWrites(c, s, S)[k] = s[i].value
<1>. DEFINE n == CHOOSE m \in S : IsLast(s, S, k, m)
<1>1. n \in S /\ IsLast(s, S, k, n)
  BY DEF IsLast
<1>2. n = i
  <2>1. n <= i /\ i <= n /\ n \in Nat /\ i \in Nat
    BY <1>1 DEF IsLast
  <2>. QED BY <2>1
<1>. QED BY <1>2 DEF LastWrites, IsLast

\* A key without operations keeps its value.
LEMMA LastNone ==
    ASSUME NEW s, NEW S, NEW c, NEW k \in Keys, \A i \in S : s[i].key # k
    PROVE  LastWrites(c, s, S)[k] = c[k]
BY DEF LastWrites

\* The operation at the greatest position comes after all the others.
LEMMA LastStep ==
    ASSUME NEW s \in Seq(Op), NEW S \in SUBSET DOMAIN s, NEW R \in SUBSET DOMAIN s,
           NEW c \in Contents, NEW m \in S, \A i \in S : i <= m, R = S \ {m}
    PROVE  LastWrites(c, s, S) = Write(LastWrites(c, s, R), s[m])
<1>0. S \in SUBSET Nat /\ R \in SUBSET Nat
  OBVIOUS
<1>1. PICK key \in Keys : key = s[m].key
  <2>1. s[m] \in Op
    OBVIOUS
  <2>. QED BY <2>1 DEF Op
<1>2. LastWrites(c, s, S)[key] = s[m].value
  <2>1. IsLast(s, S, key, m)
    BY <1>1 DEF IsLast
  <2>. QED BY <1>0, <2>1, LastValue
<1>3. ASSUME NEW k \in Keys, k # key
      PROVE  LastWrites(c, s, S)[k] = LastWrites(c, s, R)[k]
  <2>1. CASE \A i \in R : s[i].key # k
    <3>1. \A i \in S : s[i].key # k
      BY <1>1, <1>3, <2>1
    <3>. QED BY <2>1, <3>1, LastNone
  <2>2. CASE ~ \A i \in R : s[i].key # k
    <3>1. PICK i \in R : IsLast(s, R, k, i)
      BY <2>2, LastExists
    <3>2. IsLast(s, S, k, i)
      BY <1>1, <1>3, <3>1 DEF IsLast
    <3>3. LastWrites(c, s, S)[k] = s[i].value
      <4>1. i \in S
        BY <3>1
      <4>. QED BY <1>0, <3>2, <4>1, LastValue
    <3>4. LastWrites(c, s, R)[k] = s[i].value
      BY <1>0, <3>1, LastValue
    <3>. QED BY <3>3, <3>4
  <2>. QED BY <2>1, <2>2
<1>4. /\ LastWrites(c, s, S) = [k \in Keys |-> LastWrites(c, s, S)[k]]
      /\ LastWrites(c, s, R) = [k \in Keys |-> LastWrites(c, s, R)[k]]
  BY DEF LastWrites
<1>. QED BY <1>1, <1>2, <1>3, <1>4 DEF Write

-----------------------------------------------------------------------------
(* The fold Effect.                                                        *)

\* A set of positions that is not empty has a maximum.
LEMMA MaxOfPositions ==
    ASSUME NEW s \in Seq(Op), NEW S \in SUBSET DOMAIN s, S # {}
    PROVE  Max(S) \in S /\ \A i \in S : i <= Max(S)
<1>1. S \in SUBSET (0 .. Len(s)) /\ Len(s) \in Nat
  OBVIOUS
<1>2. \E m \in S : \A i \in S : i <= m
  BY <1>1, GreatestElement
<1>3. \E m \in S : \A i \in S : m >= i
  BY <1>2
<1>4. Max(S) \in S /\ \A i \in S : Max(S) >= i
  BY <1>3 DEF Max
<1>. QED BY <1>4

\* The recursion of the fold that defines Effect, over sets of positions.
IsFold(f, c, s) ==
    f = [S \in SUBSET DOMAIN s |->
            IF S = {} THEN c
            ELSE Write(f[S \ {Max(S)}], s[Max(S)])]

\* Effect is the value of the function the fold chooses.
LEMMA EffectIsFold ==
    ASSUME NEW c, NEW s
    PROVE  Effect(c, s) = (CHOOSE f : IsFold(f, c, s))[DOMAIN s]
BY DEF Effect, FoldLeft, MapThenFoldSet, IsFold, Write

\* The fold is defined: the last writes satisfy its recursion.
LEMMA FoldExists ==
    ASSUME NEW c \in Contents, NEW s \in Seq(Op)
    PROVE  \E f : IsFold(f, c, s)
<1>. DEFINE D == SUBSET DOMAIN s
            f == [S \in D |-> LastWrites(c, s, S)]
            body(S) == IF S = {} THEN c
                       ELSE Write(f[S \ {Max(S)}], s[Max(S)])
<1>1. ASSUME NEW S \in D PROVE f[S] = body(S)
  <2>1. CASE S = {}
    <3>1. LastWrites(c, s, {}) = c
      BY DEF LastWrites, Contents
    <3>. QED BY <2>1, <3>1
  <2>2. CASE S # {}
    <3>1. PICK m \in S : m = Max(S) /\ \A i \in S : i <= m
      BY <2>2, MaxOfPositions
    <3>2. PICK R \in SUBSET DOMAIN s : R = S \ {m}
      OBVIOUS
    <3>3. LastWrites(c, s, S) = Write(LastWrites(c, s, R), s[m])
      BY <3>1, <3>2, LastStep
    <3>. QED BY <2>2, <3>1, <3>2, <3>3
  <2>. QED BY <2>1, <2>2
<1>2. f = [S \in D |-> body(S)]
  BY <1>1
<1>3. IsFold(f, c, s)
  BY <1>2 DEF IsFold
<1>. QED BY <1>3

\* Effect gives every key the value of its last operation.
LEMMA EffectIsLastWrites ==
    ASSUME NEW c \in Contents, NEW s \in Seq(Op)
    PROVE  Effect(c, s) = LastWrites(c, s, DOMAIN s)
<1>. DEFINE f == CHOOSE g : IsFold(g, c, s)
<1>1. IsFold(f, c, s)
  BY FoldExists
<1>2. Effect(c, s) = f[DOMAIN s]
  BY EffectIsFold
<1>. HIDE DEF f
<1>3. /\ f[{}] = c
      /\ \A S \in SUBSET DOMAIN s : S # {} =>
           f[S] = Write(f[S \ {Max(S)}], s[Max(S)])
  BY <1>1 DEF IsFold
<1>. DEFINE T == {n \in Nat : n <= Len(s) => f[1 .. n] = LastWrites(c, s, 1 .. n)}
<1>4. 0 \in T
  <2>1. 1 .. 0 = {} /\ LastWrites(c, s, {}) = c
    BY DEF LastWrites, Contents
  <2>. QED BY <1>3, <2>1
<1>5. ASSUME NEW n \in Nat, n \in T PROVE n + 1 \in T
  <2>. SUFFICES ASSUME n + 1 <= Len(s)
                PROVE  f[1 .. (n + 1)] = LastWrites(c, s, 1 .. (n + 1))
    OBVIOUS
  <2>. DEFINE S == 1 .. (n + 1)
  <2>1. S \in SUBSET DOMAIN s /\ S # {} /\ n + 1 \in S /\ \A i \in S : i <= n + 1
    OBVIOUS
  <2>2. Max(S) \in S /\ \A i \in S : i <= Max(S)
    BY <2>1, MaxOfPositions
  <2>3. Max(S) = n + 1
    BY <2>1, <2>2
  <2>4. S \ {n + 1} = 1 .. n
    OBVIOUS
  <2>5. f[1 .. n] = LastWrites(c, s, 1 .. n)
    BY <1>5
  <2>. HIDE DEF S
  <2>6. f[S] = Write(f[1 .. n], s[n + 1])
    BY <1>3, <2>1, <2>3, <2>4
  <2>7. LastWrites(c, s, S) =
          Write(LastWrites(c, s, 1 .. n), s[n + 1])
    <3>1. 1 .. n \in SUBSET DOMAIN s
      OBVIOUS
    <3>. QED BY <2>1, <2>4, <3>1, LastStep
  <2>. QED BY <2>4, <2>5, <2>6, <2>7 DEF S
<1>6. Len(s) \in T
  <2>1. Nat \subseteq T
    BY <1>4, <1>5, Induction
  <2>. QED BY <2>1
<1>. QED BY <1>2, <1>6

-----------------------------------------------------------------------------
(* The elements of a sequence at some of its positions.                    *)

\* How many positions of I there are up to i.
Rank(I, i) == Cardinality({m \in I : m <= i})

\* Ranks are between 1 and the number of positions, and grow.
LEMMA RankGrows ==
    ASSUME NEW I \in SUBSET Nat, IsFiniteSet(I)
    PROVE  /\ Cardinality(I) \in Nat
           /\ \A i \in I : Rank(I, i) \in 1 .. Cardinality(I)
           /\ \A i, j \in I : i < j => Rank(I, i) < Rank(I, j)
<1>. DEFINE Upto(i) == {m \in I : m <= i}
<1>1. \A i \in I : Upto(i) \in SUBSET I /\ i \in Upto(i)
  OBVIOUS
<1>2. Cardinality(I) \in Nat
  BY FS_CardinalityType
<1>3. ASSUME NEW i \in I
      PROVE  IsFiniteSet(Upto(i)) /\ Cardinality(Upto(i)) \in 1 .. Cardinality(I)
  <2>1. IsFiniteSet(Upto(i)) /\ Cardinality(Upto(i)) <= Cardinality(I)
    BY <1>1, FS_Subset
  <2>2. Cardinality(Upto(i)) \in Nat
    BY <2>1, FS_CardinalityType
  <2>3. Upto(i) # {}
    BY <1>1
  <2>4. Cardinality(Upto(i)) # 0
    BY <2>1, <2>3, FS_EmptySet
  <2>. QED BY <1>2, <2>1, <2>2, <2>4
<1>4. ASSUME NEW i \in I, NEW j \in I, i < j
      PROVE  Cardinality(Upto(i)) < Cardinality(Upto(j))
  <2>1. Upto(i) \in SUBSET Upto(j)
    <3>1. \A m \in I : m <= i => m <= j
      BY <1>4
    <3>. QED BY <3>1
  <2>2. Upto(i) # Upto(j)
    BY <1>1, <1>4
  <2>. HIDE DEF Upto
  <2>3. /\ Cardinality(Upto(i)) <= Cardinality(Upto(j))
        /\ Cardinality(Upto(j)) = Cardinality(Upto(i)) => Upto(j) = Upto(i)
    <3>1. IsFiniteSet(Upto(j))
      BY <1>3
    <3>. QED BY <2>1, <3>1, FS_Subset
  <2>4. Cardinality(Upto(i)) \in Nat /\ Cardinality(Upto(j)) \in Nat
    BY <1>2, <1>3
  <2>. QED BY <2>2, <2>3, <2>4
<1>. QED BY <1>2, <1>3, <1>4 DEF Rank

\* Every number up to the count of positions is the rank of one of them.
LEMMA PositionOfRank ==
    ASSUME NEW I \in SUBSET Nat, IsFiniteSet(I)
    PROVE  /\ \A j \in 1 .. Cardinality(I) :
                Position(I, j) \in I /\ Rank(I, Position(I, j)) = j
           /\ \A i \in I : Position(I, Rank(I, i)) = i
<1>. DEFINE n == Cardinality(I)
            f == [i \in I |-> Rank(I, i)]
<1>1. /\ n \in Nat
      /\ \A i \in I : Rank(I, i) \in 1 .. n
      /\ \A i, j \in I : i < j => Rank(I, i) < Rank(I, j)
  BY RankGrows
<1>2. \A i, j \in I : Rank(I, i) = Rank(I, j) => i = j
  <2>. SUFFICES ASSUME NEW i \in I, NEW j \in I, i # j PROVE Rank(I, i) # Rank(I, j)
    OBVIOUS
  <2>1. i < j \/ j < i
    OBVIOUS
  <2>2. Rank(I, i) \in Nat /\ Rank(I, j) \in Nat
    BY <1>1
  <2>. QED BY <1>1, <2>1, <2>2
<1>3. f \in Injection(I, 1 .. n)
  BY <1>1, <1>2 DEF Injection, IsInjective
<1>4. IsFiniteSet(1 .. n) /\ Cardinality(1 .. n) = n
  BY <1>1, FS_Interval
<1>5. f \in Surjection(I, 1 .. n)
  BY <1>3, <1>4, FS_Injection
<1>6. \A j \in 1 .. n : \E i \in I : Rank(I, i) = j
  BY <1>5 DEF Surjection
<1>7. ASSUME NEW j \in 1 .. n
      PROVE  Position(I, j) \in I /\ Rank(I, Position(I, j)) = j
  BY <1>6 DEF Position, Rank
<1>8. ASSUME NEW i \in I PROVE Position(I, Rank(I, i)) = i
  BY <1>1, <1>2, <1>7
<1>. QED BY <1>7, <1>8

\* Positions of a sequence are finitely many.
LEMMA PositionsFinite ==
    ASSUME NEW S, NEW s \in Seq(S), NEW I \in SUBSET DOMAIN s
    PROVE  IsFiniteSet(I)
<1>1. I \in SUBSET (1 .. Len(s)) /\ Len(s) \in Int
  OBVIOUS
<1>2. IsFiniteSet(1 .. Len(s))
  BY <1>1, FS_Interval
<1>. QED BY <1>1, <1>2, FS_Subset

\* At takes each element at one of the positions, once.
LEMMA AtElements ==
    ASSUME NEW S, NEW s \in Seq(S), NEW I \in SUBSET DOMAIN s
    PROVE  /\ Cardinality(I) \in Nat
           /\ At(s, I) \in Seq(S) /\ Len(At(s, I)) = Cardinality(I)
           /\ \A j \in 1 .. Cardinality(I) :
                /\ Position(I, j) \in I
                /\ Rank(I, Position(I, j)) = j
                /\ At(s, I)[j] = s[Position(I, j)]
           /\ \A i \in I : \E j \in 1 .. Cardinality(I) : Position(I, j) = i
<1>1. I \in SUBSET Nat /\ I \in SUBSET (1 .. Len(s)) /\ Len(s) \in Nat
  OBVIOUS
<1>2. IsFiniteSet(I)
  BY PositionsFinite
<1>3. Cardinality(I) \in Nat /\ \A i \in I : Rank(I, i) \in 1 .. Cardinality(I)
  BY <1>1, <1>2, RankGrows
<1>4. /\ \A j \in 1 .. Cardinality(I) : Position(I, j) \in I /\ Rank(I, Position(I, j)) = j
      /\ \A i \in I : Position(I, Rank(I, i)) = i
  BY <1>1, <1>2, PositionOfRank
<1>5. \A i \in I : s[i] \in S
  OBVIOUS
<1>6. /\ DOMAIN At(s, I) = 1 .. Cardinality(I)
      /\ At(s, I) = [j \in 1 .. Cardinality(I) |-> At(s, I)[j]]
      /\ \A j \in 1 .. Cardinality(I) : At(s, I)[j] = s[Position(I, j)]
  BY DEF At
<1>7. At(s, I) \in Seq(S) /\ Len(At(s, I)) = Cardinality(I)
  BY <1>3, <1>4, <1>5, <1>6
<1>. QED BY <1>3, <1>4, <1>6, <1>7

\* Another element after the last position is left out, or comes last.
LEMMA AtAppend ==
    ASSUME NEW S, NEW s \in Seq(S), NEW x \in S, NEW I \in SUBSET DOMAIN s
    PROVE  /\ At(Append(s, x), I) = At(s, I)
           /\ At(Append(s, x), I \cup {Len(s) + 1}) = Append(At(s, I), x)
<1>. DEFINE t == Append(s, x)
            n == Len(s)
            J == I \cup {n + 1}
            c == Cardinality(I)
<1>1. /\ n \in Nat /\ DOMAIN s = 1 .. n /\ DOMAIN t = 1 .. (n + 1) /\ t \in Seq(S)
      /\ t[n + 1] = x /\ \A i \in DOMAIN s : t[i] = s[i]
      /\ I \in SUBSET Nat /\ J \in SUBSET Nat /\ J \in SUBSET DOMAIN t
      /\ I \in SUBSET (1 .. n) /\ n + 1 \notin I /\ \A i \in I : i <= n
  OBVIOUS
<1>2. IsFiniteSet(I)
  BY PositionsFinite
<1>3. IsFiniteSet(J) /\ Cardinality(J) = c + 1 /\ c \in Nat
  BY <1>1, <1>2, FS_AddElement, FS_CardinalityType
<1>4. /\ \A j \in 1 .. c : Position(I, j) \in I /\ Rank(I, Position(I, j)) = j
      /\ \A i \in J : Position(J, Rank(J, i)) = i
  BY <1>1, <1>2, <1>3, PositionOfRank
<1>5. ASSUME NEW i \in I PROVE Rank(J, i) = Rank(I, i)
  <2>1. {m \in J : m <= i} = {m \in I : m <= i}
    BY <1>1
  <2>. QED BY <2>1 DEF Rank
<1>6. Rank(J, n + 1) = c + 1
  <2>1. {m \in J : m <= n + 1} = J
    BY <1>1
  <2>. QED BY <1>3, <2>1 DEF Rank
<1>7. Position(J, c + 1) = n + 1
  BY <1>4, <1>6
<1>8. ASSUME NEW j \in 1 .. c PROVE Position(J, j) = Position(I, j)
  <2>1. Position(I, j) \in J /\ Rank(J, Position(I, j)) = j
    BY <1>4, <1>5
  <2>. QED BY <1>4, <2>1
<1>9. At(t, I) = At(s, I)
  <2>1. \A j \in 1 .. c : t[Position(I, j)] = s[Position(I, j)]
    BY <1>1, <1>4
  <2>. QED BY <2>1 DEF At
<1>10. At(t, J) = Append(At(s, I), x)
  <2>1. PICK a \in Seq(S) : a = At(s, I) /\ Len(a) = c
    BY AtElements
  <2>2. \A j \in 1 .. c : a[j] = s[Position(I, j)]
    BY <2>1, AtElements
  <2>. HIDE DEF c, t, J
  <2>3. \A j \in 1 .. c : t[Position(J, j)] = a[j]
    BY <1>1, <1>4, <1>8, <2>2
  <2>4. t[Position(J, c + 1)] = x
    BY <1>1, <1>7
  <2>5. PICK b \in Seq(S) : b = At(t, J) /\ Len(b) = c + 1
    BY <1>1, <1>3, AtElements
  <2>6. \A j \in 1 .. (c + 1) : b[j] = t[Position(J, j)]
    BY <1>3, <2>5 DEF At
  <2>7. Append(a, x) \in Seq(S) /\ Len(Append(a, x)) = c + 1 /\ c \in Nat
    BY <1>3, <2>1
  <2>8. \A j \in 1 .. (c + 1) : b[j] = Append(a, x)[j]
    <3>1. \A j \in 1 .. c : Append(a, x)[j] = a[j]
      BY <2>1, <2>7
    <3>2. Append(a, x)[c + 1] = x
      BY <2>1, <2>7
    <3>3. \A j \in 1 .. (c + 1) : j = c + 1 \/ j \in 1 .. c
      BY <2>7
    <3>4. \A j \in 1 .. c : b[j] = a[j]
      BY <2>3, <2>6, <2>7
    <3>5. b[c + 1] = x
      BY <2>4, <2>6, <2>7
    <3>. QED BY <3>1, <3>2, <3>3, <3>4, <3>5, Zenon
  <2>9. b = Append(a, x)
    BY <2>5, <2>7, <2>8
  <2>. QED BY <2>1, <2>5, <2>9 DEF t, J
<1>. QED BY <1>9, <1>10

-----------------------------------------------------------------------------
(* The optimized operations.                                               *)

\* keyOps has the last operation of every key of the batch, and no other key.
KeyOpsRight(ops, idx) ==
    /\ \A k \in DOMAIN idx : k \in Keys /\ IsLast(ops, DOMAIN ops, k, idx[k])
    /\ \A i \in DOMAIN ops : ops[i].key \in DOMAIN idx

\* Some of the operations of all, with the last one of every key that is still
\* to come: no key twice, each with the value of the key's last operation.
Remaining(ops, all) ==
    /\ \A i, j \in DOMAIN ops : ops[i].key = ops[j].key => i = j
    /\ \A i \in DOMAIN ops : \E m \in DOMAIN all :
         IsLast(all, DOMAIN all, ops[i].key, m) /\ ops[i] = all[m]

\* optimizeOperationsLocked keeps the last operation of every key.
LEMMA OptimizedOperations ==
    ASSUME NEW ops \in Seq(Op), NEW idx, KeyOpsRight(ops, idx)
    PROVE  /\ OptimizeOperations(ops, idx) \in Seq(Op)
           /\ Remaining(OptimizeOperations(ops, idx), ops)
           /\ \A i \in DOMAIN ops : \E j \in DOMAIN OptimizeOperations(ops, idx) :
                OptimizeOperations(ops, idx)[j].key = ops[i].key
<1>. DEFINE I == {idx[k] : k \in DOMAIN idx}
            o == OptimizeOperations(ops, idx)
            n == Cardinality(I)
<1>1. I \in SUBSET DOMAIN ops
  BY DEF KeyOpsRight, IsLast
<1>0. o = At(ops, I)
  BY DEF OptimizeOperations
<1>. HIDE DEF o, I
<1>2. /\ n \in Nat /\ o \in Seq(Op) /\ Len(o) = n
      /\ \A j \in 1 .. n : /\ Position(I, j) \in I
                           /\ Rank(I, Position(I, j)) = j
                           /\ o[j] = ops[Position(I, j)]
      /\ \A i \in I : \E j \in 1 .. n : Position(I, j) = i
  BY <1>0, <1>1, AtElements
<1>. HIDE DEF n
<1>3. DOMAIN o = 1 .. n
  BY <1>2
<1>4. ASSUME NEW j \in DOMAIN o
      PROVE  \E k \in DOMAIN idx : /\ Position(I, j) = idx[k] /\ o[j] = ops[idx[k]]
                                   /\ k = o[j].key /\ IsLast(ops, DOMAIN ops, k, idx[k])
  <2>1. Position(I, j) \in I /\ o[j] = ops[Position(I, j)]
    BY <1>2, <1>3
  <2>2. PICK k \in DOMAIN idx : Position(I, j) = idx[k]
    BY <2>1 DEF I
  <2>3. IsLast(ops, DOMAIN ops, k, idx[k])
    BY DEF KeyOpsRight
  <2>4. ops[idx[k]].key = k
    BY <2>3 DEF IsLast
  <2>. QED BY <2>1, <2>2, <2>3, <2>4
<1>5. ASSUME NEW i \in DOMAIN o, NEW j \in DOMAIN o, o[i].key = o[j].key PROVE i = j
  <2>1. Position(I, i) = Position(I, j)
    BY <1>4, <1>5
  <2>. QED BY <1>2, <1>3, <2>1
<1>6. Remaining(o, ops)
  BY <1>4, <1>5 DEF Remaining, IsLast
<1>7. ASSUME NEW i \in DOMAIN ops PROVE \E j \in DOMAIN o : o[j].key = ops[i].key
  <2>1. PICK k \in DOMAIN idx : k = ops[i].key
    BY DEF KeyOpsRight
  <2>2. ops[idx[k]].key = k /\ idx[k] \in I
    BY DEF KeyOpsRight, IsLast, I
  <2>3. PICK j \in 1 .. n : Position(I, j) = idx[k]
    BY <1>2, <2>2
  <2>. QED BY <1>2, <1>3, <2>1, <2>2, <2>3
<1>. QED BY <1>2, <1>6, <1>7 DEF o

-----------------------------------------------------------------------------
(* The inductive invariant of the batch and of its Execute calls.          *)

\* The state of an Execute call.
ExecuteState ==
    [pc : {"idle", "begin", "apply", "clear"}, ops : Seq(Op), all : Seq(Op),
     version : Nat, base : Nat, pending : Contents \cup {<<>>}]

\* The types of the variables of the batch.
BatchTypeOK ==
    /\ operations \in Seq(Op)
    /\ ex \in [Users -> ExecuteState]
    /\ nextVersion \in Nat

\* Committed versions: 0 is one, their numbers have been given out, and their
\* parents are committed.
VersionsRight(c, p, n) ==
    /\ 0 \in DOMAIN c
    /\ \A v \in DOMAIN c : v \in Nat /\ v < n /\ c[v] \in Contents
    /\ DOMAIN p = DOMAIN c
    /\ \A v \in DOMAIN p : p[v] \in DOMAIN c

\* Where an Execute call stands.  Until it begins its operations have every
\* key of the batch; while it applies them the keys still to come are as in the
\* version it began on and the others have their last value; when it has
\* committed, the version is its parent's contents with the last values.
ExecRight(e, c, p, n) ==
    /\ e.pc \in {"begin", "apply"} => Remaining(e.ops, e.all)
    /\ e.pc = "begin" =>
         \A i \in DOMAIN e.all : \E j \in DOMAIN e.ops : e.ops[j].key = e.all[i].key
    /\ e.pc = "apply" =>
         /\ e.version < n /\ e.version \notin DOMAIN c
         /\ e.base \in DOMAIN c
         /\ e.pending \in Contents
         /\ \A k \in Keys : e.pending[k] =
              IF \E i \in DOMAIN e.ops : e.ops[i].key = k THEN c[e.base][k]
              ELSE LastWrites(c[e.base], e.all, DOMAIN e.all)[k]
    /\ e.pc = "clear" =>
         /\ e.version \in DOMAIN c
         /\ c[e.version] = LastWrites(c[p[e.version]], e.all, DOMAIN e.all)

\* No two Execute calls build the same version.
DistinctVersions ==
    \A u, w \in Users :
        ex[u].pc = "apply" /\ ex[w].pc = "apply" /\ ex[u].version = ex[w].version => u = w

\* The inductive invariant.
BatchInv ==
    /\ BatchTypeOK
    /\ KeyOpsRight(operations, keyOps)
    /\ VersionsRight(committed, parent, nextVersion)
    /\ \A u \in Users : ExecRight(ex[u], committed, parent, nextVersion)
    /\ DistinctVersions

\* There is a latest version.
LEMMA NewestExists ==
    ASSUME NEW c, NEW p, NEW n \in Nat, VersionsRight(c, p, n)
    PROVE  Newest(c) \in DOMAIN c /\ \A w \in DOMAIN c : w <= Newest(c)
<1>1. DOMAIN c \in SUBSET (0 .. n) /\ DOMAIN c # {}
  BY DEF VersionsRight
<1>2. \E v \in DOMAIN c : \A w \in DOMAIN c : w <= v
  BY <1>1, GreatestElement
<1>. QED BY <1>2 DEF Newest

\* A version committed under a new number leaves the committed ones as they
\* were, and another call's state right.
LEMMA VersionsGrow ==
    ASSUME NEW c, NEW p, NEW n \in Nat, VersionsRight(c, p, n), NEW m \in Nat, n <= m,
           NEW v \in Nat, v < m, v \notin DOMAIN c, NEW x \in Contents, NEW b \in DOMAIN c
    PROVE  /\ VersionsRight(Assign(c, v, x), Assign(p, v, b), m)
           /\ \A e \in ExecuteState :
                ExecRight(e, c, p, n) /\ (e.pc = "apply" => e.version # v) =>
                    ExecRight(e, Assign(c, v, x), Assign(p, v, b), m)
<1>. DEFINE d == Assign(c, v, x)
            q == Assign(p, v, b)
<1>1. /\ DOMAIN d = DOMAIN c \cup {v} /\ d[v] = x
      /\ \A w \in DOMAIN c : w # v => d[w] = c[w]
  BY DEF Assign
<1>2. /\ DOMAIN q = DOMAIN p \cup {v} /\ q[v] = b
      /\ \A w \in DOMAIN p : w # v => q[w] = p[w]
  BY DEF Assign
<1>. HIDE DEF d, q
<1>3. \A w \in DOMAIN c : w # v /\ d[w] = c[w] /\ q[w] = p[w] /\ w \in DOMAIN d
  BY <1>1, <1>2 DEF VersionsRight
<1>4. VersionsRight(d, q, m)
  <2>1. \A w \in DOMAIN c : w \in Nat /\ w < m /\ c[w] \in Contents /\ p[w] \in DOMAIN c
    BY DEF VersionsRight
  <2>2. DOMAIN p = DOMAIN c /\ 0 \in DOMAIN c
    BY DEF VersionsRight
  <2>3. \A w \in DOMAIN d : w = v \/ w \in DOMAIN c
    BY <1>1
  <2>4. \A w \in DOMAIN d : w \in Nat /\ w < m /\ d[w] \in Contents
    BY <1>1, <1>3, <2>1, <2>3
  <2>5. DOMAIN q = DOMAIN d
    BY <1>1, <1>2, <2>2
  <2>6. \A w \in DOMAIN d : q[w] \in DOMAIN d
    BY <1>1, <1>2, <1>3, <2>1, <2>3
  <2>. QED BY <1>1, <2>2, <2>4, <2>5, <2>6 DEF VersionsRight
<1>5. ASSUME NEW e \in ExecuteState, ExecRight(e, c, p, n), e.pc = "apply" => e.version # v
      PROVE  ExecRight(e, d, q, m)
  <2>1. CASE e.pc = "apply"
    <3>1. e.version < m
      <4>1. e.version \in Nat
        BY DEF ExecuteState
      <4>2. e.version < n
        BY <2>1, <1>5 DEF ExecRight
      <4>. QED BY <4>1, <4>2
    <3>2. e.version \notin DOMAIN d
      BY <2>1, <1>5, <1>1 DEF ExecRight
    <3>3. e.base \in DOMAIN d /\ d[e.base] = c[e.base]
      BY <2>1, <1>5, <1>3 DEF ExecRight
    <3>. QED BY <2>1, <1>5, <3>1, <3>2, <3>3 DEF ExecRight
  <2>2. CASE e.pc = "clear"
    <3>1. e.version \in DOMAIN c /\ p[e.version] \in DOMAIN c
      BY <2>2, <1>5 DEF ExecRight, VersionsRight
    <3>2. e.version \in DOMAIN d /\ d[e.version] = c[e.version]
      BY <3>1, <1>3
    <3>3. d[q[e.version]] = c[p[e.version]]
      BY <3>1, <1>3
    <3>. QED BY <2>2, <1>5, <3>2, <3>3 DEF ExecRight
  <2>3. CASE e.pc \notin {"apply", "clear"}
    BY <2>3, <1>5 DEF ExecRight
  <2>. QED BY <2>1, <2>2, <2>3
<1>. QED BY <1>4, <1>5 DEF d, q

-----------------------------------------------------------------------------
(* The steps of a batch keep the invariant.                                *)

\* An idle call is right, whatever is committed.
LEMMA IdleRight ==
    /\ Idle \in ExecuteState /\ Idle.pc = "idle"
    /\ \A c, p, n : ExecRight(Idle, c, p, n)
<1>1. Idle \in ExecuteState /\ Idle.pc = "idle"
  BY DEF Idle, ExecuteState
<1>. QED BY <1>1 DEF ExecRight

\* The batch begins with the invariant.
LEMMA BatchInitInv == BatchInit => BatchInv
<1>. SUFFICES ASSUME BatchInit PROVE BatchInv
  OBVIOUS
<1>1. BatchTypeOK
  BY IdleRight DEF BatchInit, BatchTypeOK
<1>2. KeyOpsRight(operations, keyOps)
  BY DEF BatchInit, KeyOpsRight
<1>3. VersionsRight(committed, parent, nextVersion)
  BY DEF BatchInit, VersionsRight, NoVersions, NoParents, Contents
<1>4. \A u \in Users : ex[u] = Idle
  BY DEF BatchInit
<1>5. DistinctVersions
  BY <1>4, IdleRight DEF DistinctVersions
<1>. QED BY <1>1, <1>2, <1>3, <1>4, <1>5, IdleRight DEF BatchInv

\* Adding an operation: it becomes the last one of its key.
LEMMA AddInv ==
    ASSUME BatchInv, NEW u \in Users, NEW op \in Op, Add(u, op)
    PROVE  BatchInv'
<1>. DEFINE n == Len(operations)
<1>. USE DEF Add
<1>1. /\ n \in Nat /\ DOMAIN operations = 1 .. n /\ DOMAIN operations' = 1 .. (n + 1)
      /\ operations'[n + 1] = op
      /\ \A i \in DOMAIN operations : operations'[i] = operations[i]
      /\ operations' \in Seq(Op) /\ op.key \in Keys
  BY DEF BatchInv, BatchTypeOK, Op
<1>2. KeyOpsRight(operations', keyOps')
  <2>1. /\ DOMAIN keyOps' = DOMAIN keyOps \cup {op.key} /\ keyOps'[op.key] = n + 1
        /\ \A k \in DOMAIN keyOps : k # op.key => keyOps'[k] = keyOps[k]
    BY DEF Assign
  <2>2. KeyOpsRight(operations, keyOps)
    BY DEF BatchInv
  <2>3. IsLast(operations', DOMAIN operations', op.key, n + 1)
    BY <1>1 DEF IsLast
  <2>4. ASSUME NEW k \in DOMAIN keyOps, k # op.key
        PROVE  IsLast(operations', DOMAIN operations', k, keyOps[k])
    <3>1. IsLast(operations, DOMAIN operations, k, keyOps[k])
      BY <2>2 DEF KeyOpsRight
    <3>. QED BY <1>1, <2>4, <3>1 DEF IsLast
  <2>5. \A k \in DOMAIN keyOps' : k \in Keys /\ IsLast(operations', DOMAIN operations', k, keyOps'[k])
    BY <1>1, <2>1, <2>2, <2>3, <2>4 DEF KeyOpsRight
  <2>6. \A i \in DOMAIN operations' : operations'[i].key \in DOMAIN keyOps'
    BY <1>1, <2>1, <2>2 DEF KeyOpsRight
  <2>. QED BY <2>5, <2>6 DEF KeyOpsRight
<1>. QED BY <1>1, <1>2 DEF BatchInv, BatchTypeOK, DistinctVersions

\* A step that empties the batch or leaves it, and lets one user's call be
\* another right one.
LEMMA ExecStepInv ==
    ASSUME BatchInv, NEW u \in Users, NEW e \in ExecuteState, ex' = [ex EXCEPT ![u] = e],
           \/ UNCHANGED <<operations, keyOps>>
           \/ operations' = <<>> /\ keyOps' = <<>>,
           VersionsRight(committed', parent', nextVersion'), nextVersion' \in Nat,
           ExecRight(e, committed', parent', nextVersion'),
           \A w \in Users : w # u => ExecRight(ex[w], committed', parent', nextVersion'),
           e.pc = "apply" =>
             \A w \in Users : w # u /\ ex[w].pc = "apply" => ex[w].version # e.version
    PROVE  BatchInv'
<1>1. ex \in [Users -> ExecuteState]
  BY DEF BatchInv, BatchTypeOK
<1>2. ex'[u] = e /\ \A w \in Users : w # u => ex'[w] = ex[w]
  BY <1>1
<1>3. BatchTypeOK'
  <2>1. operations' \in Seq(Op)
    <3>1. <<>> \in Seq(Op) /\ operations \in Seq(Op)
      BY DEF BatchInv, BatchTypeOK
    <3>2. operations' = operations \/ operations' = <<>>
      OBVIOUS
    <3>. QED BY <3>1, <3>2
  <2>2. ex' \in [Users -> ExecuteState]
    BY <1>1
  <2>. QED BY <2>1, <2>2 DEF BatchTypeOK
<1>4. KeyOpsRight(operations', keyOps')
  BY DEF BatchInv, KeyOpsRight
<1>5. \A w \in Users : ExecRight(ex'[w], committed', parent', nextVersion')
  BY <1>2
<1>6. DistinctVersions'
  BY <1>2 DEF BatchInv, DistinctVersions
<1>. QED BY <1>3, <1>4, <1>5, <1>6 DEF BatchInv

\* The calls of the other users stay right while nothing is committed.
LEMMA OthersRight ==
    ASSUME BatchInv, UNCHANGED <<committed, parent>>, nextVersion' \in Nat,
           nextVersion <= nextVersion'
    PROVE  /\ VersionsRight(committed', parent', nextVersion')
           /\ \A u \in Users : ExecRight(ex[u], committed', parent', nextVersion')
<1>1. nextVersion \in Nat /\ ex \in [Users -> ExecuteState]
  BY DEF BatchInv, BatchTypeOK
<1>2. VersionsRight(committed', parent', nextVersion')
  BY <1>1 DEF BatchInv, VersionsRight
<1>3. ASSUME NEW u \in Users PROVE ExecRight(ex[u], committed', parent', nextVersion')
  <2>1. ExecRight(ex[u], committed, parent, nextVersion)
    BY DEF BatchInv
  <2>2. ex[u].version \in Nat
    BY <1>1 DEF ExecuteState
  <2>3. ex[u].version < nextVersion => ex[u].version < nextVersion'
    BY <1>1, <2>2
  <2>. QED BY <2>1, <2>3 DEF ExecRight
<1>. QED BY <1>2, <1>3

\* Clear.
LEMMA ClearInv ==
    ASSUME BatchInv, NEW u \in Users, Clear(u)
    PROVE  BatchInv'
<1>1. KeyOpsRight(<<>>, <<>>)
  BY DEF KeyOpsRight
<1>2. operations' = <<>> /\ keyOps' = <<>> /\ UNCHANGED <<ex, committed, parent, nextVersion>>
  BY DEF Clear
<1>. QED BY <1>1, <1>2 DEF BatchInv, BatchTypeOK, DistinctVersions

\* The start of Execute: its operations are the optimized ones.
LEMMA StartExecuteInv ==
    ASSUME BatchInv, NEW u \in Users, StartExecute(u)
    PROVE  BatchInv'
<1>. DEFINE o == OptimizeOperations(operations, keyOps)
            e == [Idle EXCEPT !.pc = "begin", !.all = operations, !.ops = o]
<1>1. operations \in Seq(Op) /\ KeyOpsRight(operations, keyOps) /\ nextVersion \in Nat
  BY DEF BatchInv, BatchTypeOK
<1>2. /\ o \in Seq(Op) /\ Remaining(o, operations)
      /\ \A i \in DOMAIN operations : \E j \in DOMAIN o : o[j].key = operations[i].key
  BY <1>1, OptimizedOperations
<1>. HIDE DEF o
<1>3. e \in ExecuteState /\ e.pc = "begin" /\ e.ops = o /\ e.all = operations
  BY <1>1, <1>2 DEF Idle, ExecuteState
<1>4. /\ ex' = [ex EXCEPT ![u] = e]
      /\ UNCHANGED <<operations, keyOps, committed, parent, nextVersion>>
  BY DEF StartExecute, o
<1>. HIDE DEF e
<1>5. ExecRight(e, committed', parent', nextVersion')
  BY <1>2, <1>3 DEF ExecRight
<1>6. /\ VersionsRight(committed', parent', nextVersion')
      /\ \A w \in Users : ExecRight(ex[w], committed', parent', nextVersion')
  BY <1>1, <1>4, OthersRight
<1>. QED BY <1>1, <1>3, <1>4, <1>5, <1>6, ExecStepInv

\* BeginVersion: nothing is applied yet.
LEMMA BeginVersionInv ==
    ASSUME BatchInv, NEW u \in Users, BeginVersion(u)
    PROVE  BatchInv'
<1>1. /\ ex \in [Users -> ExecuteState] /\ nextVersion \in Nat
      /\ VersionsRight(committed, parent, nextVersion)
      /\ ExecRight(ex[u], committed, parent, nextVersion)
  BY DEF BatchInv, BatchTypeOK
<1>2. /\ ex[u].pc = "begin" /\ nextVersion' = nextVersion + 1
      /\ UNCHANGED <<operations, keyOps, committed, parent>>
  BY DEF BeginVersion
<1>3. Latest \in DOMAIN committed /\ Latest \in Nat /\ committed[Latest] \in Contents
  <2>1. Latest \in DOMAIN committed
    BY <1>1, NewestExists DEF Latest
  <2>. QED BY <1>1, <2>1 DEF VersionsRight
<1>4. PICK e \in ExecuteState :
        /\ ex' = [ex EXCEPT ![u] = e]
        /\ e.pc = "apply" /\ e.ops = ex[u].ops /\ e.all = ex[u].all
        /\ e.version = nextVersion /\ e.base = Latest /\ e.pending = committed[Latest]
  <2>. DEFINE e == [ex[u] EXCEPT !.pc = "apply", !.version = nextVersion, !.base = Latest,
                                 !.pending = committed[Latest]]
  <2>1. ex[u] \in ExecuteState
    BY <1>1
  <2>2. e \in ExecuteState
    BY <1>1, <1>3, <2>1 DEF ExecuteState
  <2>3. ex' = [ex EXCEPT ![u] = e]
    BY DEF BeginVersion
  <2>. QED BY <2>1, <2>2, <2>3 DEF ExecuteState
<1>5. ExecRight(e, committed', parent', nextVersion')
  <2>1. /\ Remaining(e.ops, e.all)
        /\ \A i \in DOMAIN e.all : \E j \in DOMAIN e.ops : e.ops[j].key = e.all[i].key
    BY <1>1, <1>2, <1>4 DEF ExecRight
  <2>2. e.version \notin DOMAIN committed /\ e.version < nextVersion'
    BY <1>1, <1>2, <1>4 DEF VersionsRight
  <2>3. ASSUME NEW k \in Keys, ~ \E i \in DOMAIN e.ops : e.ops[i].key = k
        PROVE  LastWrites(committed[e.base], e.all, DOMAIN e.all)[k] = committed[e.base][k]
    BY <2>1, <2>3, LastNone
  <2>4. \A k \in Keys : e.pending[k] =
          IF \E i \in DOMAIN e.ops : e.ops[i].key = k THEN committed[e.base][k]
          ELSE LastWrites(committed[e.base], e.all, DOMAIN e.all)[k]
    BY <1>4, <2>3
  <2>. QED BY <1>2, <1>3, <1>4, <2>1, <2>2, <2>4 DEF ExecRight
<1>6. /\ VersionsRight(committed', parent', nextVersion')
      /\ \A w \in Users : ExecRight(ex[w], committed', parent', nextVersion')
  BY <1>1, <1>2, OthersRight
<1>7. \A w \in Users : ex[w].pc = "apply" => ex[w].version # e.version
  <2>. SUFFICES ASSUME NEW w \in Users, ex[w].pc = "apply" PROVE ex[w].version # e.version
    OBVIOUS
  <2>1. ExecRight(ex[w], committed, parent, nextVersion) /\ ex[w].version \in Nat
    BY <1>1 DEF BatchInv, ExecuteState
  <2>2. ex[w].version < nextVersion
    BY <2>1 DEF ExecRight
  <2>. QED BY <1>1, <1>4, <2>1, <2>2
<1>8. nextVersion' \in Nat
  BY <1>1, <1>2
<1>. QED BY <1>2, <1>4, <1>5, <1>6, <1>7, <1>8, ExecStepInv

\* An error return.
LEMMA FailInv ==
    ASSUME BatchInv, NEW u \in Users, Fail(u)
    PROVE  BatchInv'
<1>1. /\ ex' = [ex EXCEPT ![u] = Idle] /\ nextVersion \in Nat
      /\ UNCHANGED <<operations, keyOps, committed, parent, nextVersion>>
  BY DEF Fail, BatchInv, BatchTypeOK
<1>2. /\ VersionsRight(committed', parent', nextVersion')
      /\ \A w \in Users : ExecRight(ex[w], committed', parent', nextVersion')
  BY <1>1, OthersRight
<1>. QED BY <1>1, <1>2, IdleRight, ExecStepInv

\* Applying an operation gives its key the last value, for good: the key does
\* not come again.
LEMMA ApplyOpInv ==
    ASSUME BatchInv, NEW u \in Users, ApplyOp(u)
    PROVE  BatchInv'
<1>1. /\ ex \in [Users -> ExecuteState] /\ nextVersion \in Nat
      /\ ExecRight(ex[u], committed, parent, nextVersion)
      /\ VersionsRight(committed, parent, nextVersion)
  BY DEF BatchInv, BatchTypeOK
<1>2. /\ ex[u].pc = "apply" /\ ex[u].ops # <<>>
      /\ UNCHANGED <<operations, keyOps, committed, parent, nextVersion>>
  BY DEF ApplyOp
<1>3. PICK d \in ExecuteState : d = ex[u]
  BY <1>1
<1>4. PICK ops \in Seq(Op) : ops = d.ops /\ ops # <<>>
  BY <1>2, <1>3 DEF ExecuteState
<1>5. PICK op \in Op : op = Head(ops) /\ op = ops[1]
  <2>1. 1 \in DOMAIN ops /\ ops[1] \in Op /\ Head(ops) = ops[1]
    BY <1>4
  <2>. QED BY <2>1
<1>6. PICK rest \in Seq(Op) : rest = Tail(ops)
  <2>1. Tail(ops) \in Seq(Op)
    BY <1>4
  <2>. QED BY <2>1
<1>7. /\ Len(rest) \in Nat /\ Len(ops) = Len(rest) + 1
      /\ DOMAIN rest = 1 .. Len(rest) /\ DOMAIN ops = 1 .. (Len(rest) + 1)
      /\ \A i \in DOMAIN rest : rest[i] = ops[i + 1]
  BY <1>4, <1>6
<1>8. /\ d.version < nextVersion /\ d.version \notin DOMAIN committed
      /\ d.base \in DOMAIN committed /\ d.pending \in Contents
      /\ Remaining(ops, d.all)
      /\ \A k \in Keys : d.pending[k] =
           IF \E i \in DOMAIN ops : ops[i].key = k THEN committed[d.base][k]
           ELSE LastWrites(committed[d.base], d.all, DOMAIN d.all)[k]
  BY <1>1, <1>2, <1>3, <1>4 DEF ExecRight
<1>9. PICK e \in ExecuteState :
        /\ ex' = [ex EXCEPT ![u] = e]
        /\ e.pc = "apply" /\ e.ops = rest /\ e.all = d.all
        /\ e.version = d.version /\ e.base = d.base
        /\ e.pending = Write(d.pending, op)
  <2>. DEFINE e == [d EXCEPT !.pending[op.key] = op.value, !.ops = Tail(d.ops)]
  <2>1. Write(d.pending, op) \in Contents
    BY <1>8 DEF Write, Contents, Op
  <2>2. e = [d EXCEPT !.pending = Write(d.pending, op), !.ops = rest]
    BY <1>4, <1>6 DEF Write
  <2>3. e \in ExecuteState
    BY <1>6, <2>1, <2>2 DEF ExecuteState
  <2>4. ex' = [ex EXCEPT ![u] = e]
    BY <1>3, <1>4, <1>5 DEF ApplyOp
  <2>. QED BY <1>2, <1>3, <2>2, <2>3, <2>4 DEF ExecuteState
<1>10. PICK key \in Keys : key = op.key
  BY DEF Op
<1>11. \A i \in DOMAIN rest : rest[i].key # key
  BY <1>5, <1>7, <1>8, <1>10 DEF Remaining
<1>12. Remaining(rest, d.all)
  <2>1. \A i, j \in DOMAIN rest : rest[i].key = rest[j].key => i = j
    BY <1>7, <1>8 DEF Remaining
  <2>2. \A i \in DOMAIN rest : \E m \in DOMAIN d.all :
          IsLast(d.all, DOMAIN d.all, rest[i].key, m) /\ rest[i] = d.all[m]
    BY <1>7, <1>8 DEF Remaining
  <2>. QED BY <2>1, <2>2 DEF Remaining
<1>13. LastWrites(committed[d.base], d.all, DOMAIN d.all)[key] = op.value
  <2>1. PICK all \in Seq(Op) : all = d.all
    BY DEF ExecuteState
  <2>2. PICK m \in DOMAIN all : IsLast(all, DOMAIN all, key, m) /\ op = all[m]
    BY <1>5, <1>7, <1>8, <1>10, <2>1 DEF Remaining
  <2>3. DOMAIN all \in SUBSET Nat
    OBVIOUS
  <2>4. LastWrites(committed[d.base], all, DOMAIN all)[key] = all[m].value
    BY <2>2, <2>3, LastValue
  <2>. QED BY <2>1, <2>2, <2>4
<1>14. ASSUME NEW k \in Keys
       PROVE  e.pending[k] = IF \E i \in DOMAIN rest : rest[i].key = k THEN committed[d.base][k]
                             ELSE LastWrites(committed[d.base], d.all, DOMAIN d.all)[k]
  <2>1. CASE k = key
    <3>1. e.pending[k] = op.value
      BY <1>8, <1>9, <1>10, <2>1 DEF Write, Contents
    <3>. QED BY <1>11, <1>13, <2>1, <3>1
  <2>2. CASE k # key
    <3>1. e.pending[k] = d.pending[k]
      BY <1>8, <1>9, <1>10, <2>2 DEF Write, Contents
    <3>2. (\E i \in DOMAIN ops : ops[i].key = k) <=> (\E i \in DOMAIN rest : rest[i].key = k)
      <4>1. ASSUME NEW i \in DOMAIN ops, ops[i].key = k
            PROVE  \E j \in DOMAIN rest : rest[j].key = k
        <5>1. i # 1
          BY <1>5, <1>10, <2>2, <4>1
        <5>2. i - 1 \in DOMAIN rest /\ rest[i - 1] = ops[i]
          BY <1>7, <5>1
        <5>. QED BY <4>1, <5>2
      <4>2. ASSUME NEW i \in DOMAIN rest, rest[i].key = k
            PROVE  \E j \in DOMAIN ops : ops[j].key = k
        BY <1>7, <4>2
      <4>. QED BY <4>1, <4>2
    <3>. QED BY <1>8, <3>1, <3>2
  <2>. QED BY <2>1, <2>2
<1>15. e.pending \in Contents
  BY <1>8, <1>9 DEF Write, Contents, Op
<1>16. ExecRight(e, committed', parent', nextVersion')
  BY <1>2, <1>8, <1>9, <1>12, <1>14, <1>15 DEF ExecRight
<1>17. /\ VersionsRight(committed', parent', nextVersion')
       /\ \A w \in Users : ExecRight(ex[w], committed', parent', nextVersion')
  BY <1>1, <1>2, OthersRight
<1>18. \A w \in Users : w # u /\ ex[w].pc = "apply" => ex[w].version # e.version
  BY <1>2, <1>3, <1>9 DEF BatchInv, DistinctVersions
<1>. QED BY <1>1, <1>2, <1>9, <1>16, <1>17, <1>18, ExecStepInv

\* A call whose operations are all applied has the last values of its batch.
LEMMA AllApplied ==
    ASSUME NEW e \in ExecuteState, NEW c, NEW p, NEW n, ExecRight(e, c, p, n),
           e.pc = "apply", e.ops = <<>>
    PROVE  /\ e.pending \in Contents /\ e.base \in DOMAIN c
           /\ e.pending = LastWrites(c[e.base], e.all, DOMAIN e.all)
<1>1. /\ e.pending \in Contents /\ e.base \in DOMAIN c
      /\ \A k \in Keys : e.pending[k] = LastWrites(c[e.base], e.all, DOMAIN e.all)[k]
  BY DEF ExecRight
<1>2. \A b, s, S : LastWrites(b, s, S) = [k \in Keys |-> LastWrites(b, s, S)[k]]
  BY DEF LastWrites
<1>3. e.pending = [k \in Keys |-> e.pending[k]]
  BY <1>1 DEF Contents
<1>. QED BY <1>1, <1>2, <1>3

\* CommitVersion: what was pending is the contents of the version.
LEMMA CommitVersionInv ==
    ASSUME BatchInv, NEW u \in Users, CommitVersion(u)
    PROVE  BatchInv'
<1>1. /\ ex \in [Users -> ExecuteState] /\ nextVersion \in Nat
      /\ ExecRight(ex[u], committed, parent, nextVersion)
      /\ VersionsRight(committed, parent, nextVersion)
  BY DEF BatchInv, BatchTypeOK
<1>2. /\ ex[u].pc = "apply" /\ ex[u].ops = <<>>
      /\ UNCHANGED <<operations, keyOps, nextVersion>>
  BY DEF CommitVersion
<1>3. PICK d \in ExecuteState : d = ex[u]
  BY <1>1
<1>4. /\ d.version \in Nat /\ d.version < nextVersion /\ d.version \notin DOMAIN committed
      /\ d.base \in DOMAIN committed /\ d.pending \in Contents
      /\ d.pending = LastWrites(committed[d.base], d.all, DOMAIN d.all)
  <2>1. d.version \in Nat
    BY DEF ExecuteState
  <2>2. d.version < nextVersion /\ d.version \notin DOMAIN committed
    BY <1>1, <1>2, <1>3 DEF ExecRight
  <2>. QED BY <1>1, <1>2, <1>3, <2>1, <2>2, AllApplied
<1>5. /\ committed' = Assign(committed, d.version, d.pending)
      /\ parent' = Assign(parent, d.version, d.base)
  BY <1>3 DEF CommitVersion
<1>6. PICK e \in ExecuteState :
        ex' = [ex EXCEPT ![u] = e] /\ e.pc = "clear" /\ e.version = d.version /\ e.all = d.all
  <2>. DEFINE e == [d EXCEPT !.pc = "clear"]
  <2>1. e \in ExecuteState
    BY DEF ExecuteState
  <2>2. ex' = [ex EXCEPT ![u] = e]
    BY <1>3 DEF CommitVersion
  <2>. QED BY <2>1, <2>2 DEF ExecuteState
<1>7. /\ VersionsRight(committed', parent', nextVersion')
      /\ \A w \in Users : w # u => ExecRight(ex[w], committed', parent', nextVersion')
  <2>1. \A w \in Users : ex[w] \in ExecuteState /\ ExecRight(ex[w], committed, parent, nextVersion)
    BY <1>1 DEF BatchInv
  <2>2. \A w \in Users : w # u /\ ex[w].pc = "apply" => ex[w].version # d.version
    BY <1>2, <1>3 DEF BatchInv, DistinctVersions
  <2>3. nextVersion <= nextVersion
    BY <1>1
  <2>4. /\ VersionsRight(committed', parent', nextVersion)
        /\ \A f \in ExecuteState :
             ExecRight(f, committed, parent, nextVersion) /\ (f.pc = "apply" => f.version # d.version) =>
                 ExecRight(f, committed', parent', nextVersion)
    BY <1>1, <1>4, <1>5, <2>3, VersionsGrow
  <2>. QED BY <1>2, <2>1, <2>2, <2>4
<1>8. ExecRight(e, committed', parent', nextVersion')
  <2>1. /\ d.version \in DOMAIN committed' /\ committed'[d.version] = d.pending
        /\ parent'[d.version] = d.base /\ d.base # d.version
        /\ committed'[d.base] = committed[d.base]
    BY <1>4, <1>5 DEF Assign
  <2>. QED BY <1>4, <1>6, <2>1 DEF ExecRight
<1>. QED BY <1>1, <1>2, <1>6, <1>7, <1>8, ExecStepInv

\* The final clear.
LEMMA ClearExecutedInv ==
    ASSUME BatchInv, NEW u \in Users, ClearExecuted(u)
    PROVE  BatchInv'
<1>1. /\ ex' = [ex EXCEPT ![u] = Idle] /\ nextVersion \in Nat
      /\ operations' = <<>> /\ keyOps' = <<>>
      /\ UNCHANGED <<committed, parent, nextVersion>>
  BY DEF ClearExecuted, BatchInv, BatchTypeOK
<1>2. /\ VersionsRight(committed', parent', nextVersion')
      /\ \A w \in Users : ExecRight(ex[w], committed', parent', nextVersion')
  BY <1>1, OthersRight
<1>. QED BY <1>1, <1>2, IdleRight, ExecStepInv

\* Every step of Execute after its start.
LEMMA ExecuteInv ==
    ASSUME BatchInv, NEW u \in Users, Execute(u)
    PROVE  BatchInv'
<1>1. CASE BeginFails(u) \/ ApplyFails(u) \/ CommitFails(u)
  BY <1>1, FailInv DEF BeginFails, ApplyFails, CommitFails
<1>. QED BY <1>1, BeginVersionInv, ApplyOpInv, CommitVersionInv, ClearExecutedInv DEF Execute

\* Every step of a program that uses the batch.
LEMMA BatchNextInv ==
    ASSUME BatchInv, BatchNext
    PROVE  BatchInv'
<1>1. PICK u \in Users :
        \/ \E k \in Keys, v \in Values : BatchPut(u, k, v)
        \/ \E k \in Keys : BatchDelete(u, k)
        \/ Clear(u)
        \/ StartExecute(u)
        \/ Execute(u)
  BY DEF BatchNext
<1>2. \A k \in Keys, v \in Values : Put(k, v) \in Op /\ Delete(k) \in Op
  BY DEF Put, Delete, Op
<1>3. \A k \in Keys : Delete(k) \in Op
  BY DEF Delete, Op
<1>4. CASE \E k \in Keys, v \in Values : BatchPut(u, k, v)
  BY <1>2, <1>4, AddInv DEF BatchPut
<1>5. CASE \E k \in Keys : BatchDelete(u, k)
  BY <1>3, <1>5, AddInv DEF BatchDelete
<1>. QED BY <1>1, <1>4, <1>5, ClearInv, StartExecuteInv, ExecuteInv

\* The invariant contains what is promised of a committed batch: the version is
\* its parent's contents after all the operations of the batch, in order.
LEMMA BatchInvSequential == BatchInv => ExecutedIsSequential
<1>. SUFFICES ASSUME BatchInv, NEW u \in Users, ex[u].pc = "clear"
              PROVE  committed[ex[u].version] = Effect(committed[parent[ex[u].version]], ex[u].all)
  BY DEF ExecutedIsSequential
<1>1. /\ ex[u] \in ExecuteState /\ ExecRight(ex[u], committed, parent, nextVersion)
      /\ VersionsRight(committed, parent, nextVersion)
  BY DEF BatchInv, BatchTypeOK
<1>2. PICK all \in Seq(Op) : all = ex[u].all
  BY <1>1 DEF ExecuteState
<1>3. PICK c \in Contents : c = committed[parent[ex[u].version]]
  BY <1>1 DEF ExecRight, VersionsRight
<1>4. committed[ex[u].version] = LastWrites(c, all, DOMAIN all)
  BY <1>1, <1>2, <1>3 DEF ExecRight
<1>5. Effect(c, all) = LastWrites(c, all, DOMAIN all)
  BY EffectIsLastWrites
<1>. QED BY <1>2, <1>3, <1>4, <1>5
=============================================================================

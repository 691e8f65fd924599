--------------------------- MODULE IterationProofs ---------------------------
(***************************************************************************)
(* Proofs about Iteration and Pruning: the order of bytes is total, a set  *)
(* of keys has one sorting and its slices sort the parts, versions survive *)
(* big-endian bytes, and what follows for the iterators, for the scan that *)
(* finds the versions again and for the pruning policies.  Then the bytes  *)
(* of storage keys and nibble paths: they are read back, stay apart and    *)
(* keep the order of what they stand for.                                  *)
(***************************************************************************)
EXTENDS Pruning, FiniteSetTheorems, WellFoundedInduction, TLAPS

-----------------------------------------------------------------------------
(* Natural numbers: induction as the principle of the least element.       *)


\* A set of natural numbers that is not empty has a least element.
LEMMA LeastElement ==
    ASSUME NEW T \in SUBSET Nat, T # {}
    PROVE  \E n \in T : \A m \in T : n <= m
<1>1. PICK n \in T : \A m \in T : ~ (<<m, n>> \in OpToRel(<, Nat))
  BY NatLessThanWellFounded, WFMin
<1>2. \A m \in T : ~ (m < n)
  BY <1>1 DEF OpToRel
<1>. QED BY <1>2

\* What holds of 0 and of every successor holds of every natural number.
LEMMA Induction ==
    ASSUME NEW T, 0 \in T, \A n \in Nat : n \in T => n + 1 \in T
    PROVE  Nat \subseteq T
<1>. SUFFICES ASSUME Nat \ T # {} PROVE FALSE
  OBVIOUS
<1>1. PICK n \in Nat \ T : \A m \in Nat \ T : n <= m
  BY LeastElement
<1>2. n # 0 /\ n - 1 \in Nat /\ ~ (n <= n - 1)
  BY <1>1
<1>3. n - 1 \in T
  BY <1>1, <1>2
<1>. QED BY <1>1, <1>2, <1>3

\* A bounded set of natural numbers that is not empty has a greatest element.
LEMMA GreatestElement ==
    ASSUME NEW n \in Nat, NEW T \in SUBSET (0 .. n), T # {}
    PROVE  \E m \in T : \A x \in T : x <= m
<1>. DEFINE Above == {m \in Nat : \A x \in T : x <= m}
<1>1. n \in Above
  OBVIOUS
<1>2. PICK m \in Above : \A y \in Above : m <= y
  <2>1. Above \in SUBSET Nat /\ Above # {}
    BY <1>1
  <2>. QED BY <2>1, LeastElement
<1>3. m \in T
  <2>1. CASE m = 0
    <3>1. PICK x \in T : TRUE
      OBVIOUS
    <3>2. x \in Nat /\ x <= 0
      BY <1>2, <2>1
    <3>. QED BY <3>2, <2>1
  <2>2. CASE m # 0
    <3>1. m - 1 \in Nat /\ m - 1 \notin Above
      BY <1>2, <2>2
    <3>2. PICK x \in T : ~ (x <= m - 1)
      BY <3>1
    <3>3. x <= m /\ x \in Nat /\ m \in Nat
      BY <1>2
    <3>. QED BY <3>2, <3>3
  <2>. QED BY <2>1, <2>2
<1>. QED BY <1>2, <1>3

-----------------------------------------------------------------------------
(* Loops and folds.                                                        *)

\* The greatest of a set of positions.
LEMMA MaxOfPositions ==
    ASSUME NEW n \in Nat, NEW S \in SUBSET (1 .. n), S # {}
    PROVE  Max(S) \in S /\ \A i \in S : i <= Max(S)
<1>1. PICK m \in S : \A x \in S : x <= m
  <2>1. S \in SUBSET (0 .. n)
    OBVIOUS
  <2>. QED BY <2>1, GreatestElement
<1>2. \A x \in S : x \in Int
  OBVIOUS
<1>. QED BY <1>1, <1>2 DEF Max

\* The greatest of a set of positions that has the last of them.
LEMMA MaxIsLast ==
    ASSUME NEW n \in Nat, NEW S \in SUBSET (1 .. (n + 1)), n + 1 \in S
    PROVE  Max(S) = n + 1
<1>1. PICK k \in Nat : k = n + 1
  OBVIOUS
<1>2. S \in SUBSET (1 .. k) /\ S # {} /\ k \in S
  BY <1>1
<1>3. PICK m \in S : m = Max(S) /\ \A i \in S : i <= m
  BY <1>2, MaxOfPositions
<1>4. m \in 1 .. k /\ k <= m
  BY <1>2, <1>3
<1>5. m = k
  BY <1>4
<1>. QED BY <1>1, <1>3, <1>5

\* A fold over the positions up to n, from the last one down.
IsFold(f, base, F, n) ==
    f = [S \in SUBSET (1 .. n) |->
            IF S = {} THEN base ELSE F[Max(S)][f[S \ {Max(S)}]]]

\* Folds are defined.
LEMMA FoldExists ==
    ASSUME NEW n \in Nat, NEW X, NEW base \in X, NEW F \in [1 .. n -> [X -> X]]
    PROVE  \E f \in [SUBSET (1 .. n) -> X] : IsFold(f, base, F, n)
<1>. DEFINE P(c) == \E f \in [SUBSET (1 .. c) -> X] : IsFold(f, base, F, c)
<1>1. P(0)
  <2>. DEFINE f == [S \in SUBSET (1 .. 0) |-> base]
  <2>1. 1 .. 0 = {}
    OBVIOUS
  <2>2. f \in [SUBSET (1 .. 0) -> X] /\ IsFold(f, base, F, 0)
    BY <2>1 DEF IsFold
  <2>. QED BY <2>2
<1>2. ASSUME NEW c \in Nat, c + 1 <= n, P(c) PROVE P(c + 1)
  <2>1. PICK f \in [SUBSET (1 .. c) -> X] : IsFold(f, base, F, c)
    BY <1>2
  <2>. DEFINE g == [S \in SUBSET (1 .. (c + 1)) |->
                      IF c + 1 \in S THEN F[c + 1][f[S \ {c + 1}]] ELSE f[S]]
  <2>2. ASSUME NEW S \in SUBSET (1 .. (c + 1))
        PROVE  /\ g[S] \in X
               /\ g[S] = IF S = {} THEN base ELSE F[Max(S)][g[S \ {Max(S)}]]
    <3>1. CASE c + 1 \in S
      <4>1. Max(S) = c + 1
        BY <3>1, MaxIsLast
      <4>2. S \ {c + 1} \in SUBSET (1 .. c) /\ S \ {c + 1} \in SUBSET (1 .. (c + 1))
        OBVIOUS
      <4>3. g[S \ {c + 1}] = f[S \ {c + 1}]
        BY <4>2
      <4>4. f[S \ {c + 1}] \in X /\ F[c + 1] \in [X -> X]
        <5>1. c + 1 \in 1 .. n
          BY <1>2
        <5>. QED BY <4>2, <5>1
      <4>. QED BY <3>1, <4>1, <4>3, <4>4
    <3>2. CASE c + 1 \notin S
      <4>1. S \in SUBSET (1 .. c)
        BY <3>2
      <4>2. g[S] = f[S] /\ f[S] \in X
        BY <3>2, <4>1
      <4>3. f[S] = IF S = {} THEN base ELSE F[Max(S)][f[S \ {Max(S)}]]
        BY <2>1, <4>1 DEF IsFold
      <4>4. PICK R : R = S \ {Max(S)}
        OBVIOUS
      <4>5. R \in SUBSET (1 .. c) /\ R \in SUBSET (1 .. (c + 1)) /\ c + 1 \notin R
        <5>1. R \subseteq S
          BY <4>4
        <5>. QED BY <3>2, <4>1, <5>1
      <4>6. g[R] = f[R]
        BY <4>5
      <4>. QED BY <4>2, <4>3, <4>4, <4>6
    <3>. QED BY <3>1, <3>2
  <2>3. g \in [SUBSET (1 .. (c + 1)) -> X]
    BY <2>2
  <2>4. IsFold(g, base, F, c + 1)
    <3>. DEFINE body(S) == IF S = {} THEN base ELSE F[Max(S)][g[S \ {Max(S)}]]
    <3>1. \A S \in SUBSET (1 .. (c + 1)) : g[S] = body(S)
      BY <2>2
    <3>2. g = [S \in SUBSET (1 .. (c + 1)) |-> body(S)]
      BY <3>1
    <3>. QED BY <3>2 DEF IsFold
  <2>. QED BY <2>3, <2>4
<1>. HIDE DEF P
<1>. DEFINE T == {c \in Nat : c <= n => P(c)}
<1>3. 0 \in T
  BY <1>1
<1>4. ASSUME NEW c \in Nat, c \in T PROVE c + 1 \in T
  BY <1>2, <1>4
<1>5. n \in T
  BY <1>3, <1>4, Induction
<1>6. P(n)
  BY <1>5
<1>. QED BY <1>6 DEF P

\* What a fold gives, position by position.
LEMMA FoldSteps ==
    ASSUME NEW n \in Nat, NEW base, NEW F, NEW f, IsFold(f, base, F, n)
    PROVE  f[{}] = base /\ \A k \in 1 .. n : f[1 .. k] = F[k][f[1 .. (k - 1)]]
<1>1. f[{}] = base
  BY DEF IsFold
<1>2. ASSUME NEW k \in 1 .. n PROVE f[1 .. k] = F[k][f[1 .. (k - 1)]]
  <2>1. 1 .. k \in SUBSET (1 .. n) /\ 1 .. k # {}
    OBVIOUS
  <2>2. Max(1 .. k) = k
    <3>1. PICK l \in Nat : k = l + 1
      <4>1. k - 1 \in Nat /\ k = (k - 1) + 1
        OBVIOUS
      <4>. QED BY <4>1
    <3>2. 1 .. k \in SUBSET (1 .. (l + 1)) /\ l + 1 \in 1 .. k
      BY <3>1
    <3>3. Max(1 .. k) = l + 1
      BY <3>2, MaxIsLast
    <3>. QED BY <3>1, <3>3
  <2>3. (1 .. k) \ {k} = 1 .. (k - 1)
    OBVIOUS
  <2>. QED BY <2>1, <2>2, <2>3 DEF IsFold
<1>. QED BY <1>1, <1>2

\* The step of a loop of n rounds over values X, and the values of such a loop.
IsStep(F, n, X) == F \in [1 .. n -> [X -> X]]
IsLoop(g, base, F, n, X) ==
    /\ g \in [0 .. n -> X]
    /\ g[0] = base
    /\ \A k \in 1 .. n : g[k] = F[k][g[k - 1]]

\* A loop is defined: a sequence of values, each made from the one before.
LEMMA LoopExists ==
    ASSUME NEW n \in Nat, NEW X, NEW base \in X, NEW F, IsStep(F, n, X)
    PROVE  \E g : IsLoop(g, base, F, n, X)
<1>0. F \in [1 .. n -> [X -> X]]
  BY DEF IsStep
<1>1. PICK f \in [SUBSET (1 .. n) -> X] : IsFold(f, base, F, n)
  BY <1>0, FoldExists
<1>2. f[{}] = base /\ \A k \in 1 .. n : f[1 .. k] = F[k][f[1 .. (k - 1)]]
  BY <1>1, FoldSteps
<1>. DEFINE g == [k \in 0 .. n |-> f[1 .. k]]
<1>3. \A k \in 0 .. n : 1 .. k \in SUBSET (1 .. n)
  OBVIOUS
<1>4. g \in [0 .. n -> X]
  BY <1>3
<1>5. 1 .. 0 = {}
  OBVIOUS
<1>6. g[0] = base /\ \A k \in 1 .. n : g[k] = F[k][g[k - 1]]
  BY <1>2, <1>5
<1>7. IsLoop(g, base, F, n, X)
  BY <1>4, <1>6 DEF IsLoop
<1>. QED BY <1>7

-----------------------------------------------------------------------------
(* Numbers and bytes.                                                      *)

\* A byte has at least two values.
LEMMA ByteIsPositive == Byte \in Nat /\ Byte > 1
<1>1. NibbleBase \in Nat /\ NibbleBase >= 2
  BY EncodingParameters
<1>2. NibbleBase * NibbleBase \in Nat /\ NibbleBase * NibbleBase >= NibbleBase * 2
  BY <1>1
<1>. QED BY <1>1, <1>2 DEF Byte

\* The loop of Power.
IsPowers(p, n) == p = [k \in 0 .. n |-> IF k = 0 THEN 1 ELSE p[k - 1] * Byte]

\* Power is what its loop ends with.
LEMMA PowerIsLoop ==
    ASSUME NEW n
    PROVE  Power(n) = (CHOOSE p : IsPowers(p, n))[n]
BY DEF Power, IsPowers

\* Powers are positive, the first is one, and each is that of one byte less times
\* the values of a byte.
LEMMA PowersMultiply ==
    ASSUME NEW n \in Nat
    PROVE  \A m \in 0 .. n : /\ Power(m) \in Nat \ {0}
                             /\ Power(m) = IF m = 0 THEN 1 ELSE Power(m - 1) * Byte
<1>. DEFINE F == [k \in 1 .. n |-> [x \in Nat \ {0} |-> x * Byte]]
<1>1. Byte \in Nat \ {0}
  BY ByteIsPositive
<1>2. \A x \in Nat \ {0} : x * Byte \in Nat \ {0}
  BY <1>1
<1>3. F \in [1 .. n -> [Nat \ {0} -> Nat \ {0}]]
  BY <1>2
<1>4. PICK p \in [0 .. n -> Nat \ {0}] : p[0] = 1 /\ \A k \in 1 .. n : p[k] = F[k][p[k - 1]]
  <2>. HIDE DEF F
  <2>1. PICK X, base : X = Nat \ {0} /\ base = 1
    OBVIOUS
  <2>2. base \in X /\ IsStep(F, n, X)
    BY <1>3, <2>1 DEF IsStep
  <2>3. PICK g : IsLoop(g, base, F, n, X)
    BY <2>2, LoopExists
  <2>4. /\ g \in [0 .. n -> Nat \ {0}] /\ g[0] = 1
        /\ \A k \in 1 .. n : g[k] = F[k][g[k - 1]]
    BY <2>1, <2>3 DEF IsLoop
  <2>. QED BY <2>4
<1>5. ASSUME NEW k \in 1 .. n PROVE p[k] = p[k - 1] * Byte
  <2>1. k - 1 \in 0 .. n
    OBVIOUS
  <2>2. p[k - 1] \in Nat \ {0}
    BY <2>1
  <2>3. F[k][p[k - 1]] = p[k - 1] * Byte
    BY <2>2
  <2>. QED BY <1>4, <2>3
<1>. HIDE DEF F
<1>6. ASSUME NEW m \in 0 .. n PROVE Power(m) = p[m]
  <2>. DEFINE q == [k \in 0 .. m |-> p[k]]
              g == CHOOSE h : IsPowers(h, m)
  <2>1. IsPowers(q, m)
    <3>. DEFINE body(k) == IF k = 0 THEN 1 ELSE q[k - 1] * Byte
    <3>1. ASSUME NEW k \in 0 .. m PROVE q[k] = body(k)
      BY <1>4, <1>5
    <3>2. q = [k \in 0 .. m |-> body(k)]
      BY <3>1
    <3>. QED BY <3>2 DEF IsPowers
  <2>2. IsPowers(g, m)
    BY <2>1
  <2>. HIDE DEF g
  <2>3. g[0] = 1 /\ \A k \in 1 .. m : g[k] = g[k - 1] * Byte
    BY <2>2 DEF IsPowers
  <2>. DEFINE T == {k \in Nat : k <= m => g[k] = p[k]}
  <2>4. 0 \in T
    BY <1>4, <2>3
  <2>5. ASSUME NEW k \in Nat, k \in T PROVE k + 1 \in T
    <3>. SUFFICES ASSUME k + 1 <= m PROVE g[k + 1] = p[k + 1]
      OBVIOUS
    <3>1. k + 1 \in 1 .. m /\ k + 1 \in 1 .. n /\ (k + 1) - 1 = k /\ g[k] = p[k]
      BY <2>5
    <3>. QED BY <1>5, <2>3, <3>1
  <2>6. m \in T
    <3>. HIDE DEF T
    <3>1. m \in Nat /\ Nat \subseteq T
      BY <2>4, <2>5, Induction
    <3>. QED BY <3>1
  <2>7. Power(m) = g[m]
    BY PowerIsLoop DEF g
  <2>. QED BY <2>6, <2>7
<1>7. ASSUME NEW m \in 0 .. n
      PROVE  Power(m) \in Nat \ {0} /\ Power(m) = IF m = 0 THEN 1 ELSE Power(m - 1) * Byte
  <2>1. Power(m) = p[m] /\ p[m] \in Nat \ {0}
    BY <1>6
  <2>2. CASE m = 0
    BY <1>4, <2>1, <2>2
  <2>3. CASE m # 0
    <3>1. m \in 1 .. n /\ m - 1 \in 0 .. n
      BY <2>3
    <3>2. Power(m - 1) = p[m - 1] /\ p[m] = p[m - 1] * Byte
      BY <1>5, <1>6, <3>1
    <3>. QED BY <2>1, <2>3, <3>2
  <2>. QED BY <2>2, <2>3
<1>. QED BY <1>7

\* Division with remainder.
LEMMA DivMod ==
    ASSUME NEW b \in Nat \ {0}, NEW x \in Nat
    PROVE  x = (x \div b) * b + (x % b) /\ x \div b \in Nat /\ x % b \in 0 .. (b - 1)
<1>. DEFINE T == {y \in Nat : \E q \in Nat, r \in 0 .. (b - 1) : y = q * b + r}
<1>1. 0 \in T
  <2>1. 0 \in Nat /\ 0 \in 0 .. (b - 1) /\ 0 = 0 * b + 0
    OBVIOUS
  <2>. QED BY <2>1
<1>2. ASSUME NEW y \in Nat, y \in T PROVE y + 1 \in T
  <2>1. PICK q \in Nat, r \in 0 .. (b - 1) : y = q * b + r
    BY <1>2
  <2>2. CASE r + 1 < b
    <3>1. r + 1 \in 0 .. (b - 1) /\ y + 1 = q * b + (r + 1)
      BY <2>1, <2>2
    <3>. QED BY <3>1
  <2>3. CASE ~ (r + 1 < b)
    <3>1. r + 1 = b
      BY <2>3
    <3>2. y + 1 = (q + 1) * b + 0
      BY <2>1, <3>1
    <3>3. PICK v \in Nat, z \in 0 .. (b - 1) : v = q + 1 /\ z = 0
      OBVIOUS
    <3>4. y + 1 = v * b + z
      BY <3>2, <3>3
    <3>. QED BY <3>4
  <2>. QED BY <2>2, <2>3
<1>3. x \in T
  BY <1>1, <1>2, Induction
<1>4. PICK q \in Nat, r \in 0 .. (b - 1) : x = q * b + r
  BY <1>3
<1>5. x \div b = q /\ x % b = r
  <2>1. (q * b + r) \div b = q /\ (q * b + r) % b = r
    OBVIOUS
  <2>. QED BY <1>4, <2>1
<1>6. PICK u, w : u = x \div b /\ w = x % b
  OBVIOUS
<1>7. u = q /\ w = r
  BY <1>5, <1>6
<1>8. x = u * b + w /\ u \in Nat /\ w \in 0 .. (b - 1)
  BY <1>4, <1>7
<1>. QED BY <1>6, <1>8

\* Dividing by a product is dividing twice.
LEMMA DivDiv ==
    ASSUME NEW p \in Nat \ {0}, NEW b \in Nat \ {0}, NEW x \in Nat
    PROVE  x \div (p * b) = (x \div p) \div b
<1>1. PICK q \in Nat, r \in 0 .. (p - 1) : q = x \div p /\ x = q * p + r
  BY DivMod
<1>2. PICK u \in Nat, w \in 0 .. (b - 1) : u = q \div b /\ q = u * b + w
  BY DivMod
<1>3. PICK d \in Nat \ {0} : d = p * b
  <2>1. p * b \in Nat \ {0}
    OBVIOUS
  <2>. QED BY <2>1
<1>4. w * p + r \in 0 .. (d - 1)
  <2>1. w * p \in Nat /\ w * p <= (b - 1) * p
    OBVIOUS
  <2>2. (b - 1) * p = d - p
    BY <1>3
  <2>. QED BY <2>1, <2>2
<1>5. PICK s \in 0 .. (d - 1) : s = w * p + r
  BY <1>4
<1>6. x = u * d + s
  <2>1. x = (u * b + w) * p + r
    BY <1>1, <1>2
  <2>2. (u * b + w) * p = u * (p * b) + w * p
    OBVIOUS
  <2>. QED BY <1>3, <1>5, <2>1, <2>2
<1>7. (u * d + s) \div d = u
  OBVIOUS
<1>. QED BY <1>1, <1>2, <1>3, <1>6, <1>7

\* The fold of FromBigEndian.
IsNumber(f, data) ==
    f = [S \in SUBSET DOMAIN data |->
            IF S = {} THEN 0 ELSE f[S \ {Max(S)}] * Byte + data[Max(S)]]

\* FromBigEndian is what its fold gives for all of the data.
LEMMA NumberIsFold ==
    ASSUME NEW data
    PROVE  FromBigEndian(data) = (CHOOSE f : IsNumber(f, data))[DOMAIN data]
BY DEF FromBigEndian, FoldLeft, MapThenFoldSet, IsNumber

\* The fold is defined.
LEMMA NumberExists ==
    ASSUME NEW n \in Nat, NEW data \in [1 .. n -> Nat]
    PROVE  \E f : IsNumber(f, data)
<1>. DEFINE F == [k \in 1 .. n |-> [x \in Nat |-> x * Byte + data[k]]]
<1>1. F \in [1 .. n -> [Nat -> Nat]]
  <2>1. ASSUME NEW k \in 1 .. n, NEW x \in Nat PROVE x * Byte + data[k] \in Nat
    <3>1. x * Byte \in Nat /\ data[k] \in Nat
      BY ByteIsPositive
    <3>. QED BY <3>1
  <2>. QED BY <2>1
<1>2. PICK f \in [SUBSET (1 .. n) -> Nat] : IsFold(f, 0, F, n)
  <2>1. PICK base \in Nat : base = 0
    OBVIOUS
  <2>. HIDE DEF F
  <2>2. \E f \in [SUBSET (1 .. n) -> Nat] : IsFold(f, base, F, n)
    BY <1>1, FoldExists
  <2>. QED BY <2>1, <2>2
<1>. DEFINE body(S) == IF S = {} THEN 0 ELSE f[S \ {Max(S)}] * Byte + data[Max(S)]
<1>3. ASSUME NEW S \in SUBSET (1 .. n) PROVE f[S] = body(S)
  <2>1. f[S] = IF S = {} THEN 0 ELSE F[Max(S)][f[S \ {Max(S)}]]
    BY <1>2 DEF IsFold
  <2>2. CASE S # {}
    <3>1. PICK m \in 1 .. n : m = Max(S)
      BY <2>2, MaxOfPositions
    <3>2. PICK x \in Nat : x = f[S \ {m}]
      OBVIOUS
    <3>3. F[m][x] = x * Byte + data[m]
      OBVIOUS
    <3>. QED BY <2>1, <2>2, <3>1, <3>2, <3>3
  <2>. QED BY <2>1, <2>2
<1>4. DOMAIN data = 1 .. n
  OBVIOUS
<1>5. f = [S \in SUBSET (1 .. n) |-> body(S)]
  BY <1>3
<1>6. IsNumber(f, data)
  BY <1>4, <1>5 DEF IsNumber
<1>. QED BY <1>6

\* FromBigEndian, byte by byte.
IsReading(g, data, n) ==
    /\ g[0] = 0 /\ FromBigEndian(data) = g[n]
    /\ \A k \in 1 .. n : g[k] = g[k - 1] * Byte + data[k]

\* Numbers are read byte by byte.
LEMMA NumberSteps ==
    ASSUME NEW n \in Nat, NEW data \in [1 .. n -> Nat]
    PROVE  \E g : IsReading(g, data, n)
<1>. DEFINE f == CHOOSE h : IsNumber(h, data)
<1>1. IsNumber(f, data)
  BY NumberExists
<1>2. FromBigEndian(data) = f[1 .. n]
  BY NumberIsFold
<1>. HIDE DEF f
<1>. DEFINE g == [k \in 0 .. n |-> f[1 .. k]]
<1>3. f[{}] = 0 /\ 1 .. 0 = {}
  BY <1>1 DEF IsNumber
<1>4. ASSUME NEW k \in 1 .. n PROVE f[1 .. k] = f[1 .. (k - 1)] * Byte + data[k]
  <2>1. 1 .. k \in SUBSET (1 .. n) /\ 1 .. k # {}
    OBVIOUS
  <2>2. Max(1 .. k) = k
    <3>1. PICK l \in Nat : k = l + 1
      <4>1. k - 1 \in Nat /\ k = (k - 1) + 1
        OBVIOUS
      <4>. QED BY <4>1
    <3>2. 1 .. k \in SUBSET (1 .. (l + 1)) /\ l + 1 \in 1 .. k
      BY <3>1
    <3>3. Max(1 .. k) = l + 1
      BY <3>2, MaxIsLast
    <3>. QED BY <3>1, <3>3
  <2>3. (1 .. k) \ {k} = 1 .. (k - 1)
    OBVIOUS
  <2>4. f[1 .. k] = f[(1 .. k) \ {Max(1 .. k)}] * Byte + data[Max(1 .. k)]
    BY <1>1, <2>1 DEF IsNumber
  <2>. QED BY <2>2, <2>3, <2>4
<1>5. g[0] = 0 /\ FromBigEndian(data) = g[n]
  BY <1>2, <1>3
<1>6. ASSUME NEW k \in 1 .. n PROVE g[k] = g[k - 1] * Byte + data[k]
  <2>1. k \in 0 .. n /\ k - 1 \in 0 .. n
    OBVIOUS
  <2>. QED BY <1>4, <2>1
<1>7. IsReading(g, data, n)
  BY <1>5, <1>6 DEF IsReading
<1>. QED BY <1>7

\* The bytes of a number.
LEMMA BigEndianType ==
    ASSUME NEW v \in Nat, NEW size \in Nat
    PROVE  BigEndian(v, size) \in [1 .. size -> Bytes]
<1>1. ASSUME NEW i \in 1 .. size PROVE (v \div Power(size - i)) % Byte \in Bytes
  <2>1. size - i \in 0 .. size
    OBVIOUS
  <2>2. PICK p \in Nat \ {0} : p = Power(size - i)
    BY <2>1, PowersMultiply
  <2>3. PICK q \in Nat : q = v \div p
    OBVIOUS
  <2>4. PICK b \in Nat \ {0} : b = Byte
    BY ByteIsPositive
  <2>5. q % b \in 0 .. (b - 1)
    OBVIOUS
  <2>. QED BY <2>2, <2>3, <2>4, <2>5 DEF Bytes
<1>. QED BY <1>1 DEF BigEndian

\* A number that fits comes back from its bytes.
LEMMA BigEndianInverse ==
    ASSUME NEW size \in Nat, NEW v \in Nat, v < Power(size)
    PROVE  FromBigEndian(BigEndian(v, size)) = v
<1>0. PICK b \in Nat \ {0} : b = Byte
  BY ByteIsPositive
<1>1. \A m \in 0 .. size : Power(m) \in Nat \ {0} /\ Power(m) = IF m = 0 THEN 1 ELSE Power(m - 1) * b
  BY <1>0, PowersMultiply
<1>2. v \in Nat /\ v < Power(size)
  OBVIOUS
<1>3. PICK data \in [1 .. size -> Nat] : data = BigEndian(v, size)
  <2>1. Bytes \subseteq Nat
    BY ByteIsPositive DEF Bytes
  <2>2. PICK w \in [1 .. size -> Bytes] : w = BigEndian(v, size)
    BY BigEndianType
  <2>3. w \in [1 .. size -> Nat]
    BY <2>1
  <2>. QED BY <2>2, <2>3
<1>4. \A i \in 1 .. size : data[i] = (v \div Power(size - i)) % b
  BY <1>0, <1>3 DEF BigEndian
<1>5. PICK g : /\ g[0] = 0 /\ FromBigEndian(data) = g[size]
               /\ \A k \in 1 .. size : g[k] = g[k - 1] * b + data[k]
  <2>1. PICK g : IsReading(g, data, size)
    BY NumberSteps
  <2>2. /\ g[0] = 0 /\ FromBigEndian(data) = g[size]
        /\ \A k \in 1 .. size : g[k] = g[k - 1] * b + data[k]
    BY <1>0, <2>1 DEF IsReading
  <2>. QED BY <2>2
<1>. DEFINE T == {k \in Nat : k <= size => g[k] = v \div Power(size - k)}
<1>6. 0 \in T
  <2>1. PICK p \in Nat \ {0} : p = Power(size)
    BY <1>1
  <2>2. v \div p = 0
    BY <1>2, <2>1
  <2>3. size - 0 = size
    OBVIOUS
  <2>4. g[0] = v \div Power(size - 0)
    BY <1>5, <2>1, <2>2, <2>3
  <2>. QED BY <2>4
<1>7. ASSUME NEW k \in Nat, k \in T PROVE k + 1 \in T
  <2>. SUFFICES ASSUME k + 1 <= size PROVE g[k + 1] = v \div Power(size - (k + 1))
    OBVIOUS
  <2>1. PICK m \in 0 .. size : m = size - (k + 1)
    OBVIOUS
  <2>2. m + 1 \in 0 .. size /\ m + 1 = size - k /\ (m + 1) - 1 = m /\ m + 1 # 0
    BY <2>1
  <2>3. PICK p \in Nat \ {0} : p = Power(m)
    BY <1>1
  <2>4. Power(size - k) = p * b
    BY <1>1, <2>2, <2>3
  <2>5. PICK y \in Nat : y = v \div p
    <3>1. v \div p \in Nat
      BY DivMod
    <3>. QED BY <3>1
  <2>6. g[k] = y \div b
    <3>1. g[k] = v \div (p * b)
      BY <1>7, <2>1, <2>4
    <3>. QED BY <1>2, <2>5, <3>1, DivDiv
  <2>7. k + 1 \in 1 .. size /\ (k + 1) - 1 = k
    OBVIOUS
  <2>8. data[k + 1] = y % b
    BY <1>4, <2>1, <2>3, <2>5, <2>7
  <2>9. g[k + 1] = (y \div b) * b + (y % b)
    BY <1>5, <2>6, <2>7, <2>8
  <2>10. g[k + 1] = y
    BY <2>9, DivMod
  <2>. QED BY <2>1, <2>3, <2>5, <2>10
<1>8. size \in T
  <2>. HIDE DEF T
  <2>. QED BY <1>6, <1>7, Induction
<1>9. g[size] = v \div Power(0)
  <2>1. size - size = 0
    OBVIOUS
  <2>. QED BY <1>8, <2>1
<1>10. Power(0) = 1
  BY <1>1
<1>. QED BY <1>2, <1>3, <1>5, <1>9, <1>10

-----------------------------------------------------------------------------
(* The order of bytes.                                                     *)

\* Keys, prefixes, bounds and targets as sequences of numbers.
Strings == Seq(Nat)

\* Two sequences begin with the same elements if their first parts are equal.
LEMMA SameStart ==
    ASSUME NEW S, NEW s \in Seq(S), NEW t \in Seq(S), NEW m \in Nat, m <= Len(s), m <= Len(t)
    PROVE  SubSeq(s, 1, m) = SubSeq(t, 1, m) <=> \A j \in 1 .. m : s[j] = t[j]
<1>1. PICK a \in Seq(S), b \in Seq(S) : a = SubSeq(s, 1, m) /\ b = SubSeq(t, 1, m)
  <2>1. SubSeq(s, 1, m) \in Seq(S) /\ SubSeq(t, 1, m) \in Seq(S)
    OBVIOUS
  <2>. QED BY <2>1
<1>2. Len(a) = m /\ Len(b) = m /\ \A j \in 1 .. m : a[j] = s[j] /\ b[j] = t[j]
  BY <1>1
<1>3. a = b <=> \A j \in 1 .. m : a[j] = b[j]
  BY <1>2
<1>. QED BY <1>1, <1>2, <1>3

\* What a prefix is.
LEMMA PrefixElements ==
    ASSUME NEW S, NEW s \in Seq(S), NEW t \in Seq(S)
    PROVE  IsPrefix(s, t) <=> Len(s) <= Len(t) /\ \A j \in 1 .. Len(s) : s[j] = t[j]
<1>1. CASE Len(s) <= Len(t)
  <2>1. Len(s) \in Nat /\ Len(s) <= Len(s)
    OBVIOUS
  <2>2. SubSeq(s, 1, Len(s)) = SubSeq(t, 1, Len(s)) <=> \A j \in 1 .. Len(s) : s[j] = t[j]
    BY <1>1, <2>1, SameStart
  <2>. QED BY <1>1, <2>2 DEF IsPrefix
<1>2. CASE ~ (Len(s) <= Len(t))
  BY <1>2 DEF IsPrefix
<1>. QED BY <1>1, <1>2

\* A string continued for ever with a number less than every byte.
Pad(a, i) == IF i \in 1 .. Len(a) THEN a[i] ELSE -1

\* The lexicographic order of such strings, and where it is decided.
DecidedAt(a, b, i) == Pad(a, i) < Pad(b, i) /\ \A j \in 1 .. (i - 1) : Pad(a, j) = Pad(b, j)

\* Padded strings are sequences of integers.
LEMMA PadType ==
    ASSUME NEW a \in Strings, NEW i \in Nat
    PROVE  Pad(a, i) \in Int /\ Pad(a, i) >= -1
<1>1. CASE i \in 1 .. Len(a)
  <2>1. a[i] \in Nat
    BY <1>1 DEF Strings
  <2>. QED BY <1>1, <2>1 DEF Pad
<1>2. CASE i \notin 1 .. Len(a)
  BY <1>2 DEF Pad
<1>. QED BY <1>1, <1>2

\* BytesLess is the lexicographic order of padded strings.
LEMMA LessIsDecided ==
    ASSUME NEW a \in Strings, NEW b \in Strings
    PROVE  BytesLess(a, b) <=> \E i \in Nat \ {0} : DecidedAt(a, b, i)
<1>0. a \in Seq(Nat) /\ b \in Seq(Nat) /\ Len(a) \in Nat /\ Len(b) \in Nat
  BY DEF Strings
<1>1. ASSUME IsStrictPrefix(a, b) PROVE \E i \in Nat \ {0} : DecidedAt(a, b, i)
  <2>1. Len(a) <= Len(b) /\ \A j \in 1 .. Len(a) : a[j] = b[j]
    BY <1>0, <1>1, PrefixElements DEF IsStrictPrefix
  <2>2. Len(a) # Len(b)
    <3>. SUFFICES ASSUME Len(a) = Len(b) PROVE FALSE
      OBVIOUS
    <3>1. a = b
      BY <1>0, <2>1
    <3>. QED BY <1>1, <3>1 DEF IsStrictPrefix
  <2>3. PICK i \in Nat \ {0} : i = Len(a) + 1
    BY <1>0
  <2>4. i \in 1 .. Len(b) /\ i \notin 1 .. Len(a) /\ i - 1 = Len(a)
    BY <1>0, <2>1, <2>2, <2>3
  <2>5. Pad(a, i) = -1 /\ Pad(b, i) = b[i] /\ b[i] \in Nat
    BY <1>0, <2>4 DEF Pad
  <2>6. ASSUME NEW j \in 1 .. (i - 1) PROVE Pad(a, j) = Pad(b, j)
    <3>1. j \in 1 .. Len(a) /\ j \in 1 .. Len(b)
      BY <1>0, <2>1, <2>4
    <3>. QED BY <2>1, <3>1 DEF Pad
  <2>7. DecidedAt(a, b, i)
    BY <2>5, <2>6 DEF DecidedAt
  <2>. QED BY <2>7
<1>2. ASSUME NEW i \in DOMAIN a \cap DOMAIN b, a[i] < b[i],
             SubSeq(a, 1, i - 1) = SubSeq(b, 1, i - 1)
      PROVE  \E k \in Nat \ {0} : DecidedAt(a, b, k)
  <2>1. i \in 1 .. Len(a) /\ i \in 1 .. Len(b) /\ i \in Nat \ {0}
    BY <1>0
  <2>2. PICK m \in Nat : m = i - 1
    BY <2>1
  <2>3. m <= Len(a) /\ m <= Len(b)
    BY <1>0, <2>1, <2>2
  <2>4. \A j \in 1 .. m : a[j] = b[j]
    BY <1>0, <1>2, <2>2, <2>3, SameStart
  <2>5. \A j \in 1 .. m : Pad(a, j) = Pad(b, j)
    BY <1>0, <2>3, <2>4 DEF Pad
  <2>6. Pad(a, i) = a[i] /\ Pad(b, i) = b[i]
    BY <2>1 DEF Pad
  <2>7. DecidedAt(a, b, i)
    BY <1>2, <2>2, <2>5, <2>6 DEF DecidedAt
  <2>. QED BY <2>1, <2>7
<1>3. ASSUME NEW i \in Nat \ {0}, DecidedAt(a, b, i) PROVE BytesLess(a, b)
  <2>1. i \in 1 .. Len(b)
    <3>. SUFFICES ASSUME i \notin 1 .. Len(b) PROVE FALSE
      OBVIOUS
    <3>1. Pad(b, i) = -1
      BY DEF Pad
    <3>2. Pad(a, i) \in Int /\ Pad(a, i) >= -1
      BY PadType
    <3>. QED BY <1>3, <3>1, <3>2 DEF DecidedAt
  <2>2. PICK m \in Nat : m = i - 1
    OBVIOUS
  <2>3. \A j \in 1 .. m : Pad(a, j) = Pad(b, j)
    BY <1>3, <2>2 DEF DecidedAt
  <2>4. CASE i \in 1 .. Len(a)
    <3>1. a[i] < b[i]
      BY <1>3, <2>1, <2>4 DEF DecidedAt, Pad
    <3>2. m <= Len(a) /\ m <= Len(b)
      BY <1>0, <2>1, <2>2, <2>4
    <3>3. \A j \in 1 .. m : a[j] = b[j]
      BY <1>0, <2>3, <3>2 DEF Pad
    <3>4. SubSeq(a, 1, i - 1) = SubSeq(b, 1, i - 1)
      BY <1>0, <2>2, <3>2, <3>3, SameStart
    <3>5. i \in DOMAIN a \cap DOMAIN b
      BY <1>0, <2>1, <2>4
    <3>. QED BY <3>1, <3>4, <3>5 DEF BytesLess
  <2>5. CASE i \notin 1 .. Len(a)
    <3>1. Len(a) < i /\ Len(a) < Len(b) /\ Len(a) <= m
      BY <1>0, <2>1, <2>2, <2>5
    <3>2. ASSUME NEW j \in 1 .. Len(a) PROVE a[j] = b[j]
      <4>1. j \in 1 .. m /\ j \in 1 .. Len(b)
        BY <1>0, <3>1
      <4>. QED BY <2>3, <4>1 DEF Pad
    <3>3. IsPrefix(a, b)
      BY <1>0, <3>1, <3>2, PrefixElements
    <3>4. a # b
      BY <1>0, <3>1
    <3>. QED BY <3>3, <3>4 DEF BytesLess, IsStrictPrefix
  <2>. QED BY <2>4, <2>5
<1>4. BytesLess(a, b) => \E i \in Nat \ {0} : DecidedAt(a, b, i)
  BY <1>1, <1>2 DEF BytesLess
<1>. QED BY <1>3, <1>4

\* No string is less than itself.
LEMMA LessIrreflexive ==
    ASSUME NEW a \in Strings
    PROVE  ~ BytesLess(a, a)
<1>. SUFFICES ASSUME BytesLess(a, a) PROVE FALSE
  OBVIOUS
<1>1. PICK i \in Nat \ {0} : DecidedAt(a, a, i)
  BY LessIsDecided
<1>2. Pad(a, i) \in Int /\ Pad(a, i) < Pad(a, i)
  BY <1>1, PadType DEF DecidedAt
<1>. QED BY <1>2

\* The order is transitive.
LEMMA LessTransitive ==
    ASSUME NEW a \in Strings, NEW b \in Strings, NEW c \in Strings,
           BytesLess(a, b), BytesLess(b, c)
    PROVE  BytesLess(a, c)
<1>1. PICK i \in Nat \ {0} : DecidedAt(a, b, i)
  BY LessIsDecided
<1>2. PICK k \in Nat \ {0} : DecidedAt(b, c, k)
  BY LessIsDecided
<1>3. \A j \in Nat : Pad(a, j) \in Int /\ Pad(b, j) \in Int /\ Pad(c, j) \in Int
  BY PadType
<1>4. PICK m \in Nat \ {0} : m = (IF i <= k THEN i ELSE k)
  OBVIOUS
<1>5. DecidedAt(a, c, m)
  <2>1. Pad(a, i) < Pad(b, i) /\ \A j \in 1 .. (i - 1) : Pad(a, j) = Pad(b, j)
    BY <1>1 DEF DecidedAt
  <2>2. Pad(b, k) < Pad(c, k) /\ \A j \in 1 .. (k - 1) : Pad(b, j) = Pad(c, j)
    BY <1>2 DEF DecidedAt
  <2>3. ASSUME NEW j \in 1 .. (m - 1) PROVE Pad(a, j) = Pad(c, j)
    <3>1. j \in 1 .. (i - 1) /\ j \in 1 .. (k - 1)
      BY <1>4
    <3>. QED BY <2>1, <2>2, <3>1
  <2>4. Pad(a, m) < Pad(c, m)
    <3>1. CASE i < k
      <4>1. i \in 1 .. (k - 1) /\ m = i
        BY <1>4, <3>1
      <4>. QED BY <2>1, <2>2, <4>1
    <3>2. CASE k < i
      <4>1. k \in 1 .. (i - 1) /\ m = k
        BY <1>4, <3>2
      <4>. QED BY <2>1, <2>2, <4>1
    <3>3. CASE i = k
      <4>1. m = i /\ m = k
        BY <1>4, <3>3
      <4>. QED BY <1>3, <2>1, <2>2, <4>1
    <3>. QED BY <3>1, <3>2, <3>3
  <2>. QED BY <2>3, <2>4 DEF DecidedAt
<1>. QED BY <1>5, LessIsDecided

\* The order is total.
LEMMA LessTotal ==
    ASSUME NEW a \in Strings, NEW b \in Strings, a # b
    PROVE  BytesLess(a, b) \/ BytesLess(b, a)
<1>0. a \in Seq(Nat) /\ b \in Seq(Nat) /\ Len(a) \in Nat /\ Len(b) \in Nat
  BY DEF Strings
<1>. DEFINE D == {i \in Nat \ {0} : Pad(a, i) # Pad(b, i)}
<1>1. D # {}
  <2>. SUFFICES ASSUME \A i \in Nat \ {0} : Pad(a, i) = Pad(b, i) PROVE FALSE
    OBVIOUS
  <2>1. Len(a) = Len(b)
    <3>1. CASE Len(a) < Len(b)
      <4>1. Len(b) \in Nat \ {0} /\ Len(b) \in 1 .. Len(b) /\ Len(b) \notin 1 .. Len(a)
        BY <1>0, <3>1
      <4>2. Pad(a, Len(b)) = -1 /\ Pad(b, Len(b)) = b[Len(b)] /\ b[Len(b)] \in Nat
        BY <1>0, <4>1 DEF Pad
      <4>. QED BY <4>1, <4>2
    <3>2. CASE Len(b) < Len(a)
      <4>1. Len(a) \in Nat \ {0} /\ Len(a) \in 1 .. Len(a) /\ Len(a) \notin 1 .. Len(b)
        BY <1>0, <3>2
      <4>2. Pad(b, Len(a)) = -1 /\ Pad(a, Len(a)) = a[Len(a)] /\ a[Len(a)] \in Nat
        BY <1>0, <4>1 DEF Pad
      <4>. QED BY <4>1, <4>2
    <3>. QED BY <1>0, <3>1, <3>2
  <2>2. ASSUME NEW i \in 1 .. Len(a) PROVE a[i] = b[i]
    <3>1. i \in Nat \ {0} /\ i \in 1 .. Len(b)
      BY <1>0, <2>1
    <3>. QED BY <3>1 DEF Pad
  <2>3. a = b
    BY <1>0, <2>1, <2>2
  <2>. QED BY <2>3
<1>2. PICK i \in D : \A m \in D : i <= m
  <2>1. D \in SUBSET Nat
    OBVIOUS
  <2>. HIDE DEF D
  <2>. QED BY <1>1, <2>1, LeastElement
<1>3. Pad(a, i) \in Int /\ Pad(b, i) \in Int
  BY PadType
<1>4. ASSUME NEW j \in 1 .. (i - 1) PROVE Pad(a, j) = Pad(b, j)
  <2>1. j \in Nat \ {0} /\ ~ (i <= j)
    OBVIOUS
  <2>2. j \notin D
    BY <1>2, <2>1
  <2>. QED BY <2>1, <2>2
<1>5. Pad(a, i) < Pad(b, i) \/ Pad(b, i) < Pad(a, i)
  BY <1>3
<1>6. DecidedAt(a, b, i) \/ DecidedAt(b, a, i)
  BY <1>4, <1>5 DEF DecidedAt
<1>. QED BY <1>6, LessIsDecided

-----------------------------------------------------------------------------
(* Sorted sequences of keys.                                               *)

\* A sequence in increasing order, and one that lists a set in that order.
Increasing(s) == \A i, j \in 1 .. Len(s) : i < j => BytesLess(s[i], s[j])
Enumerates(s, A) ==
    /\ s \in Seq(A) /\ Increasing(s)
    /\ \A a \in A : \E i \in 1 .. Len(s) : s[i] = a

\* Elements of an increasing sequence differ.
LEMMA IncreasingIsInjective ==
    ASSUME NEW A \in SUBSET Strings, NEW s \in Seq(A), Increasing(s),
           NEW i \in 1 .. Len(s), NEW j \in 1 .. Len(s), s[i] = s[j]
    PROVE  i = j
<1>0. s[i] \in Strings /\ Len(s) \in Nat
  OBVIOUS
<1>1. ~ (i < j)
  BY <1>0, LessIrreflexive DEF Increasing
<1>2. ~ (j < i)
  BY <1>0, LessIrreflexive DEF Increasing
<1>. QED BY <1>0, <1>1, <1>2

\* A set that is listed is finite and has as many elements as the list.
LEMMA EnumerationLength ==
    ASSUME NEW A \in SUBSET Strings, NEW s, Enumerates(s, A)
    PROVE  IsFiniteSet(A) /\ Cardinality(A) = Len(s)
<1>1. s \in Seq(A) /\ Len(s) \in Nat /\ s \in [1 .. Len(s) -> A]
  BY DEF Enumerates
<1>2. \A i, j \in 1 .. Len(s) : s[i] = s[j] => i = j
  BY <1>1, IncreasingIsInjective DEF Enumerates
<1>3. s \in Injection(1 .. Len(s), A)
  BY <1>1, <1>2 DEF Injection, IsInjective
<1>4. s \in Surjection(1 .. Len(s), A)
  BY <1>1 DEF Surjection, Enumerates
<1>5. ExistsBijection(1 .. Len(s), A)
  BY <1>3, <1>4 DEF ExistsBijection, Bijection
<1>6. IsFiniteSet(1 .. Len(s)) /\ Cardinality(1 .. Len(s)) = Len(s)
  <2>1. PICK n \in Nat : n = Len(s)
    BY <1>1
  <2>2. IsFiniteSet(1 .. n) /\ Cardinality(1 .. n) = IF 1 > n THEN 0 ELSE n - 1 + 1
    BY FS_Interval
  <2>3. Cardinality(1 .. n) = n
    BY <2>2
  <2>. QED BY <2>1, <2>2, <2>3
<1>. QED BY <1>5, <1>6, FS_Bijection

\* At the first place where two listings differ, the one has a later element of
\* the other.
LEMMA LaterElement ==
    ASSUME NEW A \in SUBSET Strings, NEW s, Enumerates(s, A), NEW t, Enumerates(t, A),
           NEW i \in 1 .. Len(s), i \in 1 .. Len(t), s[i] # t[i],
           \A j \in 1 .. (i - 1) : s[j] = t[j]
    PROVE  BytesLess(t[i], s[i])
<1>1. s \in Seq(A) /\ t \in Seq(A) /\ Increasing(s) /\ Increasing(t) /\ s[i] \in A
  BY DEF Enumerates
<1>2. PICK k \in 1 .. Len(t) : t[k] = s[i]
  BY <1>1 DEF Enumerates
<1>3. ~ (k < i)
  <2>. SUFFICES ASSUME k < i PROVE FALSE
    OBVIOUS
  <2>1. k \in 1 .. (i - 1) /\ k \in 1 .. Len(s)
    OBVIOUS
  <2>2. s[k] = s[i]
    BY <1>2, <2>1
  <2>. QED BY <1>1, <2>1, <2>2, IncreasingIsInjective
<1>4. i < k
  BY <1>2, <1>3
<1>. QED BY <1>1, <1>2, <1>4 DEF Increasing

\* A set has one listing.
LEMMA EnumerationUnique ==
    ASSUME NEW A \in SUBSET Strings, NEW s, Enumerates(s, A), NEW t, Enumerates(t, A)
    PROVE  s = t
<1>1. s \in Seq(A) /\ t \in Seq(A) /\ Len(s) = Len(t) /\ Len(s) \in Nat
  <2>1. s \in Seq(A) /\ t \in Seq(A)
    BY DEF Enumerates
  <2>2. Cardinality(A) = Len(s)
    BY EnumerationLength
  <2>3. Cardinality(A) = Len(t)
    BY EnumerationLength
  <2>. QED BY <2>1, <2>2, <2>3
<1>. DEFINE D == {i \in 1 .. Len(s) : s[i] # t[i]}
<1>2. CASE D = {}
  <2>1. \A i \in 1 .. Len(s) : s[i] = t[i]
    BY <1>2
  <2>. QED BY <1>1, <2>1
<1>3. CASE D # {}
  <2>1. D \in SUBSET Nat
    OBVIOUS
  <2>2. PICK i \in D : \A m \in D : i <= m
    <3>. HIDE DEF D
    <3>. QED BY <1>3, <2>1, LeastElement
  <2>3. i \in 1 .. Len(s) /\ i \in 1 .. Len(t) /\ s[i] # t[i]
    BY <1>1
  <2>4. ASSUME NEW j \in 1 .. (i - 1) PROVE s[j] = t[j]
    <3>1. j \in 1 .. Len(s) /\ ~ (i <= j)
      BY <1>1, <2>3
    <3>2. j \notin D
      BY <2>2, <3>1
    <3>. QED BY <3>1, <3>2
  <2>5. BytesLess(t[i], s[i])
    BY <2>3, <2>4, LaterElement
  <2>6. BytesLess(s[i], t[i])
    BY <2>3, <2>4, LaterElement
  <2>7. s[i] \in Strings /\ t[i] \in Strings
    BY <1>1, <2>3
  <2>8. BytesLess(s[i], s[i])
    BY <2>5, <2>6, <2>7, LessTransitive
  <2>. QED BY <2>7, <2>8, LessIrreflexive
<1>. QED BY <1>2, <1>3

\* The elements less than a string come first.
LEMMA SequenceIsCut ==
    ASSUME NEW A \in SUBSET Strings, NEW s \in Seq(A), Increasing(s), NEW t \in Strings
    PROVE  \E c \in 0 .. Len(s) : \A i \in 1 .. Len(s) : i <= c <=> BytesLess(s[i], t)
<1>. DEFINE D == {i \in 0 .. Len(s) : i = 0 \/ BytesLess(s[i], t)}
<1>0. Len(s) \in Nat /\ \A i \in 1 .. Len(s) : s[i] \in Strings
  OBVIOUS
<1>1. 0 \in D /\ D \in SUBSET (0 .. Len(s))
  BY <1>0
<1>2. PICK c \in D : \A m \in D : m <= c
  <2>. HIDE DEF D
  <2>. QED BY <1>0, <1>1, GreatestElement
<1>3. ASSUME NEW i \in 1 .. Len(s), i <= c PROVE BytesLess(s[i], t)
  <2>1. c \in 1 .. Len(s) /\ BytesLess(s[c], t)
    BY <1>0, <1>3
  <2>2. CASE i = c
    BY <2>1, <2>2
  <2>3. CASE i < c
    <3>1. BytesLess(s[i], s[c])
      BY <2>1, <2>3 DEF Increasing
    <3>. QED BY <1>0, <2>1, <3>1, LessTransitive
  <2>. QED BY <1>0, <1>3, <2>1, <2>2, <2>3
<1>4. ASSUME NEW i \in 1 .. Len(s), BytesLess(s[i], t) PROVE i <= c
  <2>1. i \in D
    BY <1>0, <1>4
  <2>. QED BY <1>2, <2>1
<1>. QED BY <1>3, <1>4

\* sort.SearchStrings finds that place.
LEMMA SearchCuts ==
    ASSUME NEW A \in SUBSET Strings, NEW s \in Seq(A), Increasing(s), NEW t \in Strings
    PROVE  /\ SearchStrings(s, t) \in 0 .. Len(s)
           /\ \A i \in 1 .. Len(s) : i <= SearchStrings(s, t) <=> BytesLess(s[i], t)
<1>1. PICK c \in 0 .. Len(s) : \A i \in 1 .. Len(s) : i <= c <=> BytesLess(s[i], t)
  BY SequenceIsCut
<1>2. {i \in DOMAIN s : BytesLess(s[i], t)} = 1 .. c
  <2>1. DOMAIN s = 1 .. Len(s) /\ Len(s) \in Nat
    OBVIOUS
  <2>2. ASSUME NEW i \in DOMAIN s, BytesLess(s[i], t) PROVE i \in 1 .. c
    BY <1>1, <2>1, <2>2
  <2>3. ASSUME NEW i \in 1 .. c PROVE i \in DOMAIN s /\ BytesLess(s[i], t)
    <3>1. i \in 1 .. Len(s) /\ i <= c
      BY <2>1
    <3>. QED BY <1>1, <2>1, <3>1
  <2>. QED BY <2>2, <2>3
<1>3. Cardinality(1 .. c) = c
  <2>1. Cardinality(1 .. c) = IF 1 > c THEN 0 ELSE c - 1 + 1
    BY FS_Interval
  <2>. QED BY <2>1
<1>4. SearchStrings(s, t) = c
  BY <1>2, <1>3 DEF SearchStrings
<1>. QED BY <1>1, <1>4

\* A new element goes into a listing where the less ones end.
LEMMA EnumerationInserts ==
    ASSUME NEW B \in SUBSET Strings, NEW s, Enumerates(s, B), NEW x \in Strings, x \notin B
    PROVE  \E t : Enumerates(t, B \cup {x})
<1>0. s \in Seq(B) /\ Increasing(s) /\ Len(s) \in Nat /\ \A i \in 1 .. Len(s) : s[i] \in B
  BY DEF Enumerates
<1>1. PICK n \in Nat : n = Len(s)
  BY <1>0
<1>2. PICK c \in 0 .. n : \A i \in 1 .. n : i <= c <=> BytesLess(s[i], x)
  BY <1>0, <1>1, SequenceIsCut
<1>. DEFINE t == [i \in 1 .. (n + 1) |-> IF i <= c THEN s[i] ELSE IF i = c + 1 THEN x ELSE s[i - 1]]
<1>3. \A i \in 1 .. (n + 1) : t[i] \in B \cup {x}
  BY <1>0, <1>1, <1>2
<1>4. t \in Seq(B \cup {x}) /\ Len(t) = n + 1
  BY <1>3
<1>5. ASSUME NEW i \in 1 .. (n + 1), NEW j \in 1 .. (n + 1), i < j PROVE BytesLess(t[i], t[j])
  <2>1. CASE j <= c
    <3>1. t[i] = s[i] /\ t[j] = s[j] /\ i \in 1 .. n /\ j \in 1 .. n
      BY <1>2, <1>5, <2>1
    <3>. QED BY <1>0, <1>1, <1>5, <3>1 DEF Increasing
  <2>2. CASE i <= c /\ j = c + 1
    <3>1. t[i] = s[i] /\ t[j] = x /\ i \in 1 .. n
      BY <1>2, <1>5, <2>2
    <3>. QED BY <1>2, <2>2, <3>1
  <2>3. CASE i <= c /\ j > c + 1
    <3>1. t[i] = s[i] /\ t[j] = s[j - 1] /\ i \in 1 .. n /\ j - 1 \in 1 .. n /\ i < j - 1
      BY <1>2, <1>5, <2>3
    <3>. QED BY <1>0, <1>1, <3>1 DEF Increasing
  <2>4. CASE i = c + 1
    <3>1. t[i] = x /\ t[j] = s[j - 1] /\ j - 1 \in 1 .. n /\ ~ (j - 1 <= c)
      BY <1>2, <1>5, <2>4
    <3>2. ~ BytesLess(s[j - 1], x) /\ s[j - 1] \in Strings /\ s[j - 1] # x
      BY <1>0, <1>1, <1>2, <3>1
    <3>. QED BY <3>1, <3>2, LessTotal
  <2>5. CASE i > c + 1
    <3>1. t[i] = s[i - 1] /\ t[j] = s[j - 1] /\ i - 1 \in 1 .. n /\ j - 1 \in 1 .. n /\ i - 1 < j - 1
      BY <1>2, <1>5, <2>5
    <3>. QED BY <1>0, <1>1, <3>1 DEF Increasing
  <2>6. i <= c \/ i = c + 1 \/ i > c + 1
    BY <1>2
  <2>7. j <= c \/ j = c + 1 \/ j > c + 1
    BY <1>2
  <2>. QED BY <2>1, <2>2, <2>3, <2>4, <2>5, <2>6, <2>7
<1>6. ASSUME NEW a \in B \cup {x} PROVE \E i \in 1 .. (n + 1) : t[i] = a
  <2>1. CASE a = x
    <3>1. c + 1 \in 1 .. (n + 1) /\ t[c + 1] = x
      BY <1>2
    <3>. QED BY <2>1, <3>1
  <2>2. CASE a # x
    <3>1. PICK k \in 1 .. n : s[k] = a
      BY <1>1, <1>6, <2>2 DEF Enumerates
    <3>2. CASE k <= c
      <4>1. k \in 1 .. (n + 1) /\ t[k] = s[k]
        BY <1>2, <3>2
      <4>. QED BY <3>1, <4>1
    <3>3. CASE ~ (k <= c)
      <4>1. k + 1 \in 1 .. (n + 1) /\ t[k + 1] = s[k]
        BY <1>2, <3>3
      <4>. QED BY <3>1, <4>1
    <3>. QED BY <3>2, <3>3
  <2>. QED BY <2>1, <2>2
<1>7. Enumerates(t, B \cup {x})
  <2>. HIDE DEF t
  <2>. QED BY <1>4, <1>5, <1>6 DEF Enumerates, Increasing
<1>. QED BY <1>7

\* Every finite set of strings can be listed.
LEMMA EnumerationExists ==
    ASSUME NEW A \in SUBSET Strings, IsFiniteSet(A)
    PROVE  \E s : Enumerates(s, A)
<1>. DEFINE P(n) == \A C \in SUBSET Strings :
                      IsFiniteSet(C) /\ Cardinality(C) = n => \E s : Enumerates(s, C)
<1>1. P(0)
  <2>. SUFFICES ASSUME NEW C \in SUBSET Strings, IsFiniteSet(C), Cardinality(C) = 0
                PROVE  \E s : Enumerates(s, C)
    OBVIOUS
  <2>1. C = {}
    BY FS_EmptySet
  <2>2. Enumerates(<<>>, C)
    BY <2>1 DEF Enumerates, Increasing
  <2>. QED BY <2>2
<1>2. ASSUME NEW n \in Nat, P(n) PROVE P(n + 1)
  <2>. SUFFICES ASSUME NEW C \in SUBSET Strings, IsFiniteSet(C), Cardinality(C) = n + 1
                PROVE  \E s : Enumerates(s, C)
    OBVIOUS
  <2>1. C # {}
    <3>1. Cardinality({}) = 0 /\ n + 1 # 0
      BY FS_EmptySet
    <3>. QED BY <3>1
  <2>2. PICK x \in C : TRUE
    BY <2>1
  <2>3. PICK B \in SUBSET Strings : B = C \ {x}
    OBVIOUS
  <2>4. IsFiniteSet(B) /\ Cardinality(B) = n
    <3>1. IsFiniteSet(C \ {x}) /\ Cardinality(C \ {x}) = Cardinality(C) - 1
      BY FS_RemoveElement
    <3>. QED BY <2>3, <3>1
  <2>5. PICK s : Enumerates(s, B)
    BY <1>2, <2>4
  <2>6. x \in Strings /\ x \notin B /\ B \cup {x} = C
    BY <2>3
  <2>. QED BY <2>5, <2>6, EnumerationInserts
<1>. HIDE DEF P
<1>. DEFINE T == {n \in Nat : P(n)}
<1>3. Cardinality(A) \in T
  <2>1. 0 \in T
    BY <1>1
  <2>2. ASSUME NEW n \in Nat, n \in T PROVE n + 1 \in T
    BY <1>2, <2>2
  <2>3. Cardinality(A) \in Nat
    BY FS_CardinalityType
  <2>4. Nat \subseteq T
    <3>. HIDE DEF T
    <3>. QED BY <2>1, <2>2, Induction
  <2>. QED BY <2>3, <2>4
<1>4. P(Cardinality(A))
  BY <1>3
<1>. QED BY <1>4 DEF P

\* Sorted lists its set.
LEMMA SortedEnumerates ==
    ASSUME NEW A \in SUBSET Strings, IsFiniteSet(A)
    PROVE  Enumerates(Sorted(A), A)
<1>1. PICK t : Enumerates(t, A)
  BY EnumerationExists
<1>2. PICK n \in Nat : n = Cardinality(A)
  BY FS_CardinalityType
<1>3. t \in [1 .. n -> A] /\ \A i, j \in DOMAIN t : i < j => BytesLess(t[i], t[j])
  <2>1. Len(t) = n /\ t \in Seq(A) /\ Increasing(t)
    BY <1>1, <1>2, EnumerationLength DEF Enumerates
  <2>. QED BY <2>1 DEF Increasing
<1>4. PICK s \in [1 .. n -> A] : s = Sorted(A) /\ \A i, j \in DOMAIN s : i < j => BytesLess(s[i], s[j])
  <2>1. Sorted(A) \in [1 .. n -> A]
        /\ \A i, j \in DOMAIN Sorted(A) : i < j => BytesLess(Sorted(A)[i], Sorted(A)[j])
    BY <1>2, <1>3 DEF Sorted
  <2>. QED BY <2>1
<1>5. s \in Seq(A) /\ Len(s) = n /\ Increasing(s)
  BY <1>4 DEF Increasing
<1>6. s \in Injection(1 .. n, A)
  <2>1. \A i, j \in 1 .. n : s[i] = s[j] => i = j
    BY <1>5, IncreasingIsInjective
  <2>. QED BY <2>1 DEF Injection, IsInjective
<1>7. Cardinality(1 .. n) = n
  <2>1. Cardinality(1 .. n) = IF 1 > n THEN 0 ELSE n - 1 + 1
    BY FS_Interval
  <2>. QED BY <2>1
<1>8. s \in Surjection(1 .. n, A)
  BY <1>2, <1>6, <1>7, FS_Injection
<1>9. \A a \in A : \E i \in 1 .. Len(s) : s[i] = a
  BY <1>5, <1>8 DEF Surjection
<1>10. Enumerates(s, A)
  BY <1>5, <1>9 DEF Enumerates
<1>. QED BY <1>4, <1>10

\* A listing is the sorted sequence.
LEMMA EnumerationIsSorted ==
    ASSUME NEW A \in SUBSET Strings, NEW s, Enumerates(s, A)
    PROVE  s = Sorted(A)
<1>1. IsFiniteSet(A)
  BY EnumerationLength
<1>2. Enumerates(Sorted(A), A)
  BY <1>1, SortedEnumerates
<1>. QED BY <1>2, EnumerationUnique

\* The elements of a sequence between two positions.
Part(s, p, q) == {s[i] : i \in p .. q}

\* A part of a listing lists what is in it.
LEMMA SliceEnumerates ==
    ASSUME NEW A \in SUBSET Strings, NEW s, Enumerates(s, A),
           NEW p \in Nat \ {0}, NEW q \in Nat, p <= q + 1, q <= Len(s)
    PROVE  Enumerates(SubSeq(s, p, q), Part(s, p, q)) /\ Part(s, p, q) \in SUBSET A
<1>. DEFINE B == {s[i] : i \in p .. q}
<1>0. s \in Seq(A) /\ Increasing(s) /\ Len(s) \in Nat
  BY DEF Enumerates
<1>1. \A i \in p .. q : i \in 1 .. Len(s) /\ s[i] \in A
  BY <1>0
<1>2. PICK u : u = SubSeq(s, p, q)
  OBVIOUS
<1>3. PICK m \in Nat : m = (q - p) + 1
  OBVIOUS
<1>4. Len(u) = m /\ DOMAIN u = 1 .. m /\ \A i \in 1 .. m : u[i] = s[(p + i) - 1]
  <2>1. u \in Seq(A)
    BY <1>0, <1>1, <1>2
  <2>2. Len(u) = m
    BY <1>0, <1>2, <1>3
  <2>3. ASSUME NEW i \in 1 .. m PROVE u[i] = s[(p + i) - 1]
    BY <1>0, <1>2, <1>3
  <2>. QED BY <2>1, <2>2, <2>3
<1>5. \A i \in 1 .. m : (p + i) - 1 \in p .. q
  BY <1>3
<1>6. u \in Seq(B)
  <2>1. u = [i \in 1 .. m |-> u[i]]
    <3>1. u \in Seq(A)
      BY <1>0, <1>1, <1>2
    <3>. QED BY <1>4, <3>1
  <2>2. \A i \in 1 .. m : u[i] \in B
    BY <1>4, <1>5
  <2>3. [i \in 1 .. m |-> u[i]] \in [1 .. m -> B]
    BY <2>2
  <2>. HIDE DEF B
  <2>4. u \in [1 .. m -> B]
    BY <2>1, <2>3
  <2>. QED BY <2>4
<1>7. Increasing(u)
  <2>1. ASSUME NEW i \in 1 .. m, NEW j \in 1 .. m, i < j PROVE BytesLess(u[i], u[j])
    <3>1. (p + i) - 1 \in 1 .. Len(s) /\ (p + j) - 1 \in 1 .. Len(s) /\ (p + i) - 1 < (p + j) - 1
      BY <1>1, <1>5, <2>1
    <3>. QED BY <1>0, <1>4, <3>1 DEF Increasing
  <2>. QED BY <1>4, <2>1 DEF Increasing
<1>8. ASSUME NEW b \in B PROVE \E i \in 1 .. Len(u) : u[i] = b
  <2>1. PICK j \in p .. q : b = s[j]
    OBVIOUS
  <2>2. PICK i \in 1 .. m : i = (j - p) + 1
    BY <1>3
  <2>3. (p + i) - 1 = j
    BY <2>2
  <2>. QED BY <1>4, <2>1, <2>2, <2>3
<1>9. Enumerates(u, B)
  <2>. HIDE DEF B
  <2>. QED BY <1>6, <1>7, <1>8 DEF Enumerates
<1>. QED BY <1>1, <1>2, <1>9 DEF Part

\* The parts of a listing below a string, and not below it.
LEMMA PartsEnumerate ==
    ASSUME NEW A \in SUBSET Strings, NEW s, Enumerates(s, A), NEW t \in Strings
    PROVE  /\ Enumerates(SubSeq(s, 1, SearchStrings(s, t)), {k \in A : BytesLess(k, t)})
           /\ Enumerates(SubSeq(s, SearchStrings(s, t) + 1, Len(s)), {k \in A : ~ BytesLess(k, t)})
<1>0. s \in Seq(A) /\ Increasing(s) /\ Len(s) \in Nat
  BY DEF Enumerates
<1>1. PICK c \in 0 .. Len(s) :
        c = SearchStrings(s, t) /\ \A i \in 1 .. Len(s) : i <= c <=> BytesLess(s[i], t)
  BY <1>0, SearchCuts
<1>2. {s[i] : i \in 1 .. c} = {k \in A : BytesLess(k, t)}
  <2>1. ASSUME NEW i \in 1 .. c PROVE s[i] \in A /\ BytesLess(s[i], t)
    <3>1. i \in 1 .. Len(s) /\ i <= c
      BY <1>0
    <3>. QED BY <1>0, <1>1, <3>1
  <2>2. ASSUME NEW k \in A, BytesLess(k, t) PROVE \E i \in 1 .. c : s[i] = k
    <3>1. PICK i \in 1 .. Len(s) : s[i] = k
      BY DEF Enumerates
    <3>2. i \in 1 .. c
      BY <1>0, <1>1, <2>2, <3>1
    <3>. QED BY <3>1, <3>2
  <2>. QED BY <2>1, <2>2
<1>3. {s[i] : i \in (c + 1) .. Len(s)} = {k \in A : ~ BytesLess(k, t)}
  <2>1. ASSUME NEW i \in (c + 1) .. Len(s) PROVE s[i] \in A /\ ~ BytesLess(s[i], t)
    <3>1. i \in 1 .. Len(s) /\ ~ (i <= c)
      BY <1>0
    <3>. QED BY <1>0, <1>1, <3>1
  <2>2. ASSUME NEW k \in A, ~ BytesLess(k, t) PROVE \E i \in (c + 1) .. Len(s) : s[i] = k
    <3>1. PICK i \in 1 .. Len(s) : s[i] = k
      BY DEF Enumerates
    <3>2. i \in (c + 1) .. Len(s)
      BY <1>0, <1>1, <2>2, <3>1
    <3>. QED BY <3>1, <3>2
  <2>. QED BY <2>1, <2>2
<1>4. Enumerates(SubSeq(s, 1, c), {s[i] : i \in 1 .. c})
  <2>1. PICK p \in Nat \ {0}, q \in Nat : p = 1 /\ q = c
    BY <1>0
  <2>2. p <= q + 1 /\ q <= Len(s)
    BY <1>0, <2>1
  <2>3. Enumerates(SubSeq(s, p, q), Part(s, p, q))
    BY <2>2, SliceEnumerates
  <2>. QED BY <2>1, <2>3 DEF Part
<1>5. Enumerates(SubSeq(s, c + 1, Len(s)), {s[i] : i \in (c + 1) .. Len(s)})
  <2>1. PICK p \in Nat \ {0}, q \in Nat : p = c + 1 /\ q = Len(s)
    BY <1>0
  <2>2. p <= q + 1 /\ q <= Len(s)
    BY <1>0, <2>1
  <2>3. Enumerates(SubSeq(s, p, q), Part(s, p, q))
    BY <2>2, SliceEnumerates
  <2>. QED BY <2>1, <2>3 DEF Part
<1>. QED BY <1>1, <1>2, <1>3, <1>4, <1>5

\* The loop of WithPrefix.
IsFilter(f, ks, prefix) ==
    f = [i \in 0 .. Len(ks) |->
            IF i = 0 THEN <<>>
            ELSE IF IsPrefix(prefix, ks[i]) THEN Append(f[i - 1], ks[i]) ELSE f[i - 1]]

\* WithPrefix is what its loop ends with.
LEMMA WithPrefixIsLoop ==
    ASSUME NEW ks, NEW prefix
    PROVE  WithPrefix(ks, prefix) = (CHOOSE f : IsFilter(f, ks, prefix))[Len(ks)]
BY DEF WithPrefix, IsFilter

\* The loop is defined.
LEMMA FilterExists ==
    ASSUME NEW A, NEW s \in Seq(A), NEW p
    PROVE  \E f : IsFilter(f, s, p)
<1>. DEFINE n == Len(s)
            F == [k \in 1 .. n |-> [x \in Seq(A) |-> IF IsPrefix(p, s[k]) THEN Append(x, s[k]) ELSE x]]
<1>0. n \in Nat /\ \A k \in 1 .. n : s[k] \in A
  OBVIOUS
<1>. HIDE DEF n
<1>1. \A k \in 1 .. n, x \in Seq(A) : (IF IsPrefix(p, s[k]) THEN Append(x, s[k]) ELSE x) \in Seq(A)
  BY <1>0
<1>2. IsStep(F, n, Seq(A))
  BY <1>1 DEF IsStep
<1>3. PICK g : IsLoop(g, <<>>, F, n, Seq(A))
  <2>1. PICK X, base : X = Seq(A) /\ base = <<>>
    OBVIOUS
  <2>2. base \in X /\ IsStep(F, n, X)
    BY <1>2, <2>1
  <2>. HIDE DEF F
  <2>3. \E g : IsLoop(g, base, F, n, X)
    BY <1>0, <2>2, LoopExists
  <2>. QED BY <2>1, <2>3
<1>4. /\ g \in [0 .. n -> Seq(A)] /\ g[0] = <<>>
      /\ \A k \in 1 .. n : g[k] = F[k][g[k - 1]]
  BY <1>3 DEF IsLoop
<1>. DEFINE body(i) == IF i = 0 THEN <<>>
                       ELSE IF IsPrefix(p, s[i]) THEN Append(g[i - 1], s[i]) ELSE g[i - 1]
<1>5. ASSUME NEW i \in 0 .. n PROVE g[i] = body(i)
  <2>1. CASE i = 0
    BY <1>4, <2>1
  <2>2. CASE i # 0
    <3>1. i \in 1 .. n /\ i - 1 \in 0 .. n
      BY <1>0, <2>2
    <3>2. PICK x \in Seq(A) : x = g[i - 1]
      BY <1>4, <3>1
    <3>3. F[i][x] = IF IsPrefix(p, s[i]) THEN Append(x, s[i]) ELSE x
      BY <3>1
    <3>. QED BY <1>4, <2>2, <3>1, <3>2, <3>3
  <2>. QED BY <2>1, <2>2
<1>6. g = [i \in 0 .. n |-> body(i)]
  BY <1>4, <1>5
<1>7. IsFilter(g, s, p)
  BY <1>6 DEF IsFilter, n
<1>. QED BY <1>7

\* A greater element goes to the end of a listing.
LEMMA AppendEnumerates ==
    ASSUME NEW B \in SUBSET Strings, NEW u, Enumerates(u, B), NEW x \in Strings,
           \A b \in B : BytesLess(b, x)
    PROVE  Enumerates(Append(u, x), B \cup {x})
<1>0. u \in Seq(B) /\ Increasing(u) /\ \A b \in B : \E i \in 1 .. Len(u) : u[i] = b
  BY DEF Enumerates
<1>1. PICK n \in Nat : n = Len(u)
  BY <1>0
<1>2. PICK t \in Seq(B \cup {x}) : t = Append(u, x)
  <2>1. u \in Seq(B \cup {x})
    BY <1>0
  <2>2. Append(u, x) \in Seq(B \cup {x})
    BY <2>1
  <2>. QED BY <2>2
<1>3. Len(t) = n + 1 /\ t[n + 1] = x /\ \A i \in 1 .. n : t[i] = u[i] /\ u[i] \in B
  BY <1>0, <1>1, <1>2
<1>4. ASSUME NEW i \in 1 .. (n + 1), NEW j \in 1 .. (n + 1), i < j PROVE BytesLess(t[i], t[j])
  <2>1. i \in 1 .. n
    BY <1>4
  <2>2. CASE j = n + 1
    BY <1>3, <2>1, <2>2
  <2>3. CASE j # n + 1
    <3>1. j \in 1 .. n
      BY <2>3
    <3>. QED BY <1>0, <1>1, <1>3, <1>4, <2>1, <3>1 DEF Increasing
  <2>. QED BY <2>2, <2>3
<1>5. ASSUME NEW a \in B \cup {x} PROVE \E i \in 1 .. (n + 1) : t[i] = a
  <2>1. CASE a = x
    <3>1. n + 1 \in 1 .. (n + 1)
      OBVIOUS
    <3>. QED BY <1>3, <2>1, <3>1
  <2>2. CASE a \in B
    <3>1. PICK i \in 1 .. n : u[i] = a
      BY <1>0, <1>1, <2>2
    <3>2. i \in 1 .. (n + 1) /\ t[i] = a
      BY <1>3, <3>1
    <3>. QED BY <3>2
  <2>. QED BY <2>1, <2>2
<1>6. Enumerates(t, B \cup {x})
  BY <1>3, <1>4, <1>5 DEF Enumerates, Increasing
<1>. QED BY <1>2, <1>6

\* Filtering a listing lists what is left.
LEMMA WithPrefixEnumerates ==
    ASSUME NEW A \in SUBSET Strings, NEW s, Enumerates(s, A), NEW p
    PROVE  Enumerates(WithPrefix(s, p), {k \in A : IsPrefix(p, k)})
<1>. DEFINE f == CHOOSE g : IsFilter(g, s, p)
            H(i) == {s[j] : j \in {m \in 1 .. i : IsPrefix(p, s[m])}}
<1>0. s \in Seq(A) /\ Increasing(s) /\ \A a \in A : \E i \in 1 .. Len(s) : s[i] = a
  BY DEF Enumerates
<1>1. PICK n \in Nat : n = Len(s)
  BY <1>0
<1>2. IsFilter(f, s, p)
  BY <1>0, FilterExists
<1>3. WithPrefix(s, p) = f[n]
  BY <1>1, WithPrefixIsLoop
<1>. HIDE DEF f
<1>4. f[0] = <<>> /\ \A i \in 1 .. n : f[i] = IF IsPrefix(p, s[i]) THEN Append(f[i - 1], s[i]) ELSE f[i - 1]
  <2>. DEFINE body(i) == IF i = 0 THEN <<>>
                         ELSE IF IsPrefix(p, s[i]) THEN Append(f[i - 1], s[i]) ELSE f[i - 1]
  <2>1. f = [i \in 0 .. n |-> body(i)]
    BY <1>1, <1>2 DEF IsFilter
  <2>2. \A i \in 0 .. n : f[i] = body(i)
    <3>. HIDE DEF body
    <3>. QED BY <2>1
  <2>3. f[0] = <<>>
    BY <2>2
  <2>4. ASSUME NEW i \in 1 .. n
        PROVE  f[i] = IF IsPrefix(p, s[i]) THEN Append(f[i - 1], s[i]) ELSE f[i - 1]
    <3>1. i \in 0 .. n /\ i # 0
      OBVIOUS
    <3>. QED BY <2>2, <3>1
  <2>. QED BY <2>3, <2>4
<1>. DEFINE P(i) == Enumerates(f[i], H(i))
<1>5. P(0)
  <2>1. H(0) = {}
    OBVIOUS
  <2>2. Enumerates(<<>>, {})
    BY DEF Enumerates, Increasing
  <2>. QED BY <1>4, <2>1, <2>2
<1>6. ASSUME NEW i \in Nat, i + 1 <= n, P(i) PROVE P(i + 1)
  <2>0. PICK k \in 1 .. n : k = i + 1
    BY <1>6
  <2>1. k - 1 = i /\ s[k] \in A /\ \A j \in 1 .. i : j \in 1 .. n /\ s[j] \in A /\ j < k
    BY <1>0, <1>1, <2>0
  <2>2. CASE IsPrefix(p, s[k])
    <3>1. f[k] = Append(f[i], s[k])
      BY <1>4, <2>1, <2>2
    <3>2. H(k) = H(i) \cup {s[k]}
      <4>1. {m \in 1 .. k : IsPrefix(p, s[m])} = {m \in 1 .. i : IsPrefix(p, s[m])} \cup {k}
        BY <2>0, <2>2
      <4>. QED BY <4>1
    <3>3. H(i) \in SUBSET Strings /\ s[k] \in Strings
      BY <2>1
    <3>4. \A b \in H(i) : BytesLess(b, s[k])
      BY <1>0, <1>1, <2>1 DEF Increasing
    <3>5. PICK B \in SUBSET Strings, x \in Strings : B = H(i) /\ x = s[k]
      <4>. HIDE DEF H
      <4>. QED BY <3>3
    <3>6. Enumerates(Append(f[i], x), B \cup {x})
      <4>1. Enumerates(f[i], B) /\ \A b \in B : BytesLess(b, x)
        BY <1>6, <3>4, <3>5
      <4>. QED BY <4>1, AppendEnumerates
    <3>. QED BY <2>0, <3>1, <3>2, <3>5, <3>6
  <2>3. CASE ~ IsPrefix(p, s[k])
    <3>1. f[k] = f[i]
      BY <1>4, <2>1, <2>3
    <3>2. H(k) = H(i)
      <4>1. {m \in 1 .. k : IsPrefix(p, s[m])} = {m \in 1 .. i : IsPrefix(p, s[m])}
        BY <2>0, <2>3
      <4>. QED BY <4>1
    <3>. QED BY <1>6, <2>0, <3>1, <3>2
  <2>. QED BY <2>2, <2>3
<1>7. P(n)
  <2>. HIDE DEF P
  <2>. DEFINE T == {i \in Nat : i <= n => P(i)}
  <2>1. 0 \in T
    BY <1>5
  <2>2. ASSUME NEW i \in Nat, i \in T PROVE i + 1 \in T
    BY <1>6, <2>2
  <2>3. Nat \subseteq T
    <3>. HIDE DEF T
    <3>. QED BY <2>1, <2>2, Induction
  <2>. QED BY <2>3
<1>8. H(n) = {k \in A : IsPrefix(p, k)}
  BY <1>0, <1>1
<1>. QED BY <1>3, <1>7, <1>8

-----------------------------------------------------------------------------
(* Which keys the iterators run over.                                      *)

\* The options of an iterator.
Typed(o) == \A b \in {o.prefix, o.lower, o.upper} : b = Nil \/ b \in Seq(Bytes)

\* Bytes are numbers, and no string is the nil one.
LEMMA BytesAreStrings == Seq(Bytes) \subseteq Strings /\ Nil \notin Strings
<1>1. Bytes \subseteq Nat
  BY ByteIsPositive DEF Bytes
<1>2. Nil[1] = -1 /\ Len(Nil) = 1
  BY DEF Nil, NoBytes
<1>3. Nil \notin Strings
  BY <1>2 DEF Strings
<1>4. ASSUME NEW s \in Seq(Bytes) PROVE s \in Strings
  <2>1. PICK n \in Nat : n = Len(s)
    OBVIOUS
  <2>2. s = [i \in 1 .. n |-> s[i]] /\ \A i \in 1 .. n : s[i] \in Bytes
    BY <2>1
  <2>3. [i \in 1 .. n |-> s[i]] \in [1 .. n -> Nat]
    BY <1>1, <2>2
  <2>4. s \in [1 .. n -> Nat]
    BY <2>2, <2>3
  <2>. QED BY <2>4 DEF Strings
<1>. QED BY <1>3, <1>4

\* The memory engine runs over the keys asked for, in order.
LEMMA MemoryKeysAreAsked ==
    ASSUME NEW store \in SUBSET Strings, IsFiniteSet(store), NEW o, Typed(o)
    PROVE  Enumerates(MemoryKeys(store, o), {k \in store : Asked(k, o)})
<1>0. Seq(Bytes) \subseteq Strings /\ Nil \notin Strings
  BY BytesAreStrings
<1>1. PICK s : s = Sorted(store) /\ Enumerates(s, store)
  BY SortedEnumerates
<1>2. CASE o.prefix # Nil
  <2>1. MemoryKeys(store, o) = WithPrefix(s, o.prefix)
    BY <1>1, <1>2 DEF MemoryKeys
  <2>2. {k \in store : Asked(k, o)} = {k \in store : IsPrefix(o.prefix, k)}
    BY <1>2 DEF Asked
  <2>3. Enumerates(WithPrefix(s, o.prefix), {k \in store : IsPrefix(o.prefix, k)})
    BY <1>1, WithPrefixEnumerates
  <2>. QED BY <2>1, <2>2, <2>3
<1>3. CASE o.prefix = Nil
  <2>. DEFINE B == IF o.lower = Nil THEN store ELSE {k \in store : ~ BytesLess(k, o.lower)}
              a == IF o.lower = Nil THEN s ELSE SubSeq(s, SearchStrings(s, o.lower) + 1, Len(s))
  <2>0. (o.lower # Nil => o.lower \in Strings) /\ (o.upper # Nil => o.upper \in Strings)
    BY <1>0 DEF Typed
  <2>1. Enumerates(a, B)
    <3>1. CASE o.lower = Nil
      BY <1>1, <3>1
    <3>2. CASE o.lower # Nil
      <4>1. Enumerates(SubSeq(s, SearchStrings(s, o.lower) + 1, Len(s)),
                       {k \in store : ~ BytesLess(k, o.lower)})
        BY <1>1, <2>0, <3>2, PartsEnumerate
      <4>. QED BY <3>2, <4>1
    <3>. QED BY <3>1, <3>2
  <2>2. B \in SUBSET Strings
    OBVIOUS
  <2>3. MemoryKeys(store, o) = IF o.upper = Nil THEN a ELSE SubSeq(a, 1, SearchStrings(a, o.upper))
    BY <1>1, <1>3 DEF MemoryKeys
  <2>4. {k \in store : Asked(k, o)} = IF o.upper = Nil THEN B ELSE {k \in B : BytesLess(k, o.upper)}
    <3>1. \A k \in store : Asked(k, o) <=> (o.lower = Nil \/ ~ BytesLess(k, o.lower))
                                           /\ (o.upper = Nil \/ BytesLess(k, o.upper))
      BY <1>3 DEF Asked, InBounds
    <3>. QED BY <3>1
  <2>. HIDE DEF a, B
  <2>5. o.upper # Nil => Enumerates(SubSeq(a, 1, SearchStrings(a, o.upper)), {k \in B : BytesLess(k, o.upper)})
    BY <2>0, <2>1, <2>2, PartsEnumerate
  <2>. QED BY <2>1, <2>3, <2>4, <2>5
<1>. QED BY <1>2, <1>3

\* prefixUpperBound of a prefix that does not end in the largest byte.
LEMMA UpperBoundOfPlain ==
    ASSUME NEW p \in Seq(Bytes), p # <<>>, Last(p) < Byte - 1
    PROVE  \E ub \in Strings :
              /\ ub = PrefixUpperBound(p) /\ Len(ub) = Len(p)
              /\ ub[Len(p)] = p[Len(p)] + 1
              /\ \A j \in 1 .. (Len(p) - 1) : ub[j] = p[j]
<1>1. PICK n \in Nat \ {0} : n = Len(p)
  OBVIOUS
<1>2. PICK B \in Nat : B = Byte
  BY ByteIsPositive
<1>3. DOMAIN p = 1 .. n /\ \A i \in 1 .. n : p[i] \in 0 .. (B - 1)
  BY <1>1, <1>2 DEF Bytes
<1>4. PICK low \in SUBSET (1 .. n) : low = {i \in DOMAIN p : p[i] < Byte - 1}
  BY <1>3
<1>5. n \in low
  BY <1>1, <1>3, <1>4 DEF Last
<1>6. Max(low) = n
  <2>1. PICK l \in Nat : n = l + 1
    <3>1. n - 1 \in Nat /\ n = (n - 1) + 1
      OBVIOUS
    <3>. QED BY <3>1
  <2>2. low \in SUBSET (1 .. (l + 1)) /\ l + 1 \in low
    BY <1>5, <2>1
  <2>3. Max(low) = l + 1
    BY <2>2, MaxIsLast
  <2>. QED BY <2>1, <2>3
<1>7. PrefixUpperBound(p) = [p EXCEPT ![n] = @ + 1]
  BY <1>4, <1>5, <1>6 DEF PrefixUpperBound
<1>8. PICK ub : ub = [p EXCEPT ![n] = @ + 1]
  OBVIOUS
<1>9. /\ DOMAIN ub = 1 .. n /\ ub[n] = p[n] + 1 /\ \A j \in 1 .. (n - 1) : ub[j] = p[j]
      /\ ub = [i \in 1 .. n |-> ub[i]]
  <2>1. ub = [i \in 1 .. n |-> IF i = n THEN p[n] + 1 ELSE p[i]]
    BY <1>3, <1>8
  <2>2. DOMAIN ub = 1 .. n /\ ub = [i \in 1 .. n |-> ub[i]]
    BY <2>1
  <2>3. ub[n] = p[n] + 1 /\ \A j \in 1 .. (n - 1) : ub[j] = p[j]
    BY <2>1
  <2>. QED BY <2>2, <2>3
<1>10. \A i \in 1 .. n : ub[i] \in Nat
  <2>1. ASSUME NEW i \in 1 .. n PROVE ub[i] \in Nat
    <3>1. CASE i = n
      BY <1>3, <1>9, <3>1
    <3>2. CASE i # n
      <4>1. i \in 1 .. (n - 1)
        BY <3>2
      <4>2. ub[i] = p[i]
        BY <1>9, <4>1
      <4>3. p[i] \in 0 .. (B - 1)
        BY <1>3
      <4>. QED BY <4>2, <4>3
    <3>. QED BY <3>1, <3>2
  <2>. QED BY <2>1
<1>11. ub \in [1 .. n -> Nat]
  <2>1. [i \in 1 .. n |-> ub[i]] \in [1 .. n -> Nat]
    BY <1>10
  <2>. QED BY <1>9, <2>1
<1>12. ub \in Strings /\ Len(ub) = n
  BY <1>11 DEF Strings
<1>. QED BY <1>1, <1>7, <1>8, <1>9, <1>12

\* The bounds of such a prefix admit the strings with that prefix, and no other.
LEMMA PlainPrefixBounds ==
    ASSUME NEW p \in Seq(Bytes), p # <<>>, Last(p) < Byte - 1, NEW k \in Strings
    PROVE  InBounds(k, p, PrefixUpperBound(p)) <=> IsPrefix(p, k)
<1>0. p \in Strings /\ p \in Seq(Nat) /\ k \in Seq(Nat) /\ Nil \notin Strings /\ Len(k) \in Nat
  BY BytesAreStrings DEF Strings
<1>1. PICK n \in Nat \ {0} : n = Len(p)
  OBVIOUS
<1>2. PICK ub \in Strings :
        /\ ub = PrefixUpperBound(p) /\ Len(ub) = n
        /\ ub[n] = p[n] + 1
        /\ \A j \in 1 .. (n - 1) : ub[j] = p[j]
  BY <1>1, UpperBoundOfPlain
<1>3. \A i \in 1 .. n : Pad(p, i) = p[i] /\ p[i] \in Nat
  BY <1>0, <1>1 DEF Pad
<1>4. Pad(ub, n) = p[n] + 1 /\ \A j \in 1 .. (n - 1) : Pad(ub, j) = p[j]
  BY <1>2 DEF Pad
<1>5. InBounds(k, p, PrefixUpperBound(p)) <=> ~ BytesLess(k, p) /\ BytesLess(k, ub)
  BY <1>0, <1>2 DEF InBounds
<1>6. IsPrefix(p, k) <=> n <= Len(k) /\ \A j \in 1 .. n : p[j] = k[j]
  BY <1>0, <1>1, PrefixElements
<1>7. ASSUME n <= Len(k), \A j \in 1 .. n : p[j] = k[j]
      PROVE  ~ BytesLess(k, p) /\ BytesLess(k, ub)
  <2>1. \A j \in 1 .. n : Pad(k, j) = p[j]
    BY <1>0, <1>7 DEF Pad
  <2>2. ~ BytesLess(k, p)
    <3>. SUFFICES ASSUME BytesLess(k, p) PROVE FALSE
      OBVIOUS
    <3>1. PICK i \in Nat \ {0} : DecidedAt(k, p, i)
      BY <1>0, LessIsDecided
    <3>2. Pad(k, i) < Pad(p, i) /\ Pad(k, i) \in Int /\ Pad(k, i) >= -1
      BY <3>1, PadType DEF DecidedAt
    <3>3. i \in 1 .. n
      BY <1>1, <3>2 DEF Pad
    <3>4. Pad(k, i) = p[i] /\ Pad(p, i) = p[i] /\ p[i] \in Nat
      BY <1>3, <2>1, <3>3
    <3>. QED BY <3>2, <3>4
  <2>3. DecidedAt(k, ub, n)
    <3>1. Pad(k, n) = p[n] /\ p[n] \in Nat
      BY <1>3, <2>1
    <3>2. \A j \in 1 .. (n - 1) : Pad(k, j) = Pad(ub, j)
      BY <1>4, <2>1
    <3>. QED BY <1>4, <3>1, <3>2 DEF DecidedAt
  <2>. QED BY <2>2, <2>3, LessIsDecided
<1>8. ASSUME ~ BytesLess(k, p), BytesLess(k, ub)
      PROVE  n <= Len(k) /\ \A j \in 1 .. n : p[j] = k[j]
  <2>1. PICK i \in Nat \ {0} : DecidedAt(k, ub, i)
    BY <1>8, LessIsDecided
  <2>2. /\ Pad(k, i) < Pad(ub, i) /\ Pad(k, i) \in Int /\ Pad(k, i) >= -1
        /\ \A j \in 1 .. (i - 1) : Pad(k, j) = Pad(ub, j)
    BY <2>1, PadType DEF DecidedAt
  <2>3. i \in 1 .. n
    BY <1>2, <2>2 DEF Pad
  <2>4. ~ DecidedAt(k, p, i)
    BY <1>0, <1>8, LessIsDecided
  <2>5. \A j \in 1 .. (i - 1) : Pad(k, j) = Pad(p, j)
    <3>1. \A j \in 1 .. (i - 1) : j \in 1 .. (n - 1) /\ j \in 1 .. n
      BY <2>3
    <3>. QED BY <1>3, <1>4, <2>2, <3>1
  <2>6. ~ (Pad(k, i) < Pad(p, i))
    BY <2>4, <2>5 DEF DecidedAt
  <2>7. i = n
    <3>. SUFFICES ASSUME i # n PROVE FALSE
      OBVIOUS
    <3>1. i \in 1 .. (n - 1)
      BY <2>3
    <3>2. Pad(ub, i) = Pad(p, i)
      BY <1>3, <1>4, <2>3, <3>1
    <3>. QED BY <2>2, <2>6, <3>2
  <2>8. Pad(k, n) = p[n]
    <3>1. Pad(p, n) = p[n] /\ p[n] \in Nat
      BY <1>3
    <3>. QED BY <1>4, <2>2, <2>6, <2>7, <3>1
  <2>9. \A j \in 1 .. n : Pad(k, j) = p[j]
    <3>1. ASSUME NEW j \in 1 .. n PROVE Pad(k, j) = p[j]
      <4>1. CASE j = n
        BY <2>8, <4>1
      <4>2. CASE j # n
        <5>1. j \in 1 .. (i - 1)
          BY <2>7, <4>2
        <5>. QED BY <1>3, <2>5, <5>1
      <4>. QED BY <4>1, <4>2
    <3>. QED BY <3>1
  <2>10. n \in 1 .. Len(k)
    <3>1. Pad(k, n) \in Nat
      BY <1>3, <2>8
    <3>. QED BY <3>1 DEF Pad
  <2>11. \A j \in 1 .. n : p[j] = k[j]
    BY <1>0, <2>9, <2>10 DEF Pad
  <2>. QED BY <1>0, <2>10, <2>11
<1>. QED BY <1>5, <1>6, <1>7, <1>8

\* An empty prefix bounds nothing.
LEMMA EmptyPrefixBounds ==
    ASSUME NEW k \in Strings
    PROVE  InBounds(k, <<>>, PrefixUpperBound(<<>>)) /\ IsPrefix(<<>>, k)
<1>1. <<>> \in Strings /\ <<>> \in Seq(Nat) /\ k \in Seq(Nat) /\ Len(<<>>) = 0
  BY DEF Strings
<1>2. ~ BytesLess(k, <<>>)
  <2>. SUFFICES ASSUME BytesLess(k, <<>>) PROVE FALSE
    OBVIOUS
  <2>1. PICK i \in Nat \ {0} : DecidedAt(k, <<>>, i)
    BY <1>1, LessIsDecided
  <2>2. Pad(k, i) < Pad(<<>>, i) /\ Pad(k, i) \in Int /\ Pad(k, i) >= -1
    BY <2>1, PadType DEF DecidedAt
  <2>3. Pad(<<>>, i) = -1
    BY <1>1 DEF Pad
  <2>. QED BY <2>2, <2>3
<1>3. PrefixUpperBound(<<>>) = Nil
  BY DEF PrefixUpperBound
<1>4. IsPrefix(<<>>, k)
  <2>1. PICK e \in Seq(Nat) : e = <<>>
    BY <1>1
  <2>2. Len(e) <= Len(k) /\ \A j \in 1 .. Len(e) : e[j] = k[j]
    <3>1. Len(e) = 0 /\ Len(k) \in Nat
      BY <1>1, <2>1
    <3>2. 1 .. Len(e) = {}
      BY <3>1
    <3>. QED BY <3>1, <3>2
  <2>3. IsPrefix(e, k)
    BY <1>1, <2>2, PrefixElements
  <2>. QED BY <2>1, <2>3
<1>. QED BY <1>2, <1>3, <1>4 DEF InBounds

\* Pebble runs over the keys asked for, in order, unless they are asked for by a
\* prefix that ends in the largest byte.
LEMMA PebbleKeysAreAsked ==
    ASSUME NEW store \in SUBSET Strings, IsFiniteSet(store), NEW o, Typed(o), Plain(o)
    PROVE  Enumerates(PebbleKeys(store, o), {k \in store : Asked(k, o)})
<1>. DEFINE lower == IF o.prefix # Nil THEN o.prefix ELSE o.lower
            upper == IF o.prefix # Nil THEN PrefixUpperBound(o.prefix) ELSE o.upper
<1>1. ASSUME NEW k \in store PROVE InBounds(k, lower, upper) <=> Asked(k, o)
  <2>0. k \in Strings
    OBVIOUS
  <2>1. CASE o.prefix = Nil
    BY <2>1 DEF Asked
  <2>2. CASE o.prefix # Nil /\ o.prefix = <<>>
    BY <2>0, <2>2, EmptyPrefixBounds DEF Asked
  <2>3. CASE o.prefix # Nil /\ o.prefix # <<>>
    <3>1. o.prefix \in Seq(Bytes) /\ Last(o.prefix) < Byte - 1
      BY <2>3 DEF Typed, Plain
    <3>2. InBounds(k, o.prefix, PrefixUpperBound(o.prefix)) <=> IsPrefix(o.prefix, k)
      BY <2>0, <2>3, <3>1, PlainPrefixBounds
    <3>. QED BY <2>3, <3>2 DEF Asked
  <2>. QED BY <2>1, <2>2, <2>3
<1>2. {k \in store : InBounds(k, lower, upper)} = {k \in store : Asked(k, o)}
  BY <1>1
<1>3. PebbleKeys(store, o) = Sorted({k \in store : InBounds(k, lower, upper)})
  BY DEF PebbleKeys
<1>4. PICK A \in SUBSET Strings : A = {k \in store : Asked(k, o)} /\ IsFiniteSet(A)
  <2>1. {k \in store : Asked(k, o)} \in SUBSET store
    OBVIOUS
  <2>2. IsFiniteSet({k \in store : Asked(k, o)})
    BY <2>1, FS_Subset
  <2>. QED BY <2>1, <2>2
<1>5. Enumerates(Sorted(A), A)
  BY <1>4, SortedEnumerates
<1>. QED BY <1>2, <1>3, <1>4, <1>5

-----------------------------------------------------------------------------
(* The keys of a store.                                                    *)

\* One nibble put into the buffer of a node's key, and the fold that puts all.
Put(nk, buf, i) ==
    [b \in 1 .. ((Len(nk.path) + 1) \div 2) |->
        IF b # (i + 1) \div 2 THEN buf[b]
        ELSE IF i % 2 = 1 THEN nk.path[i] * NibbleBase
        ELSE buf[b] + nk.path[i]]
IsPacking(f, nk) ==
    f = [S \in SUBSET DOMAIN [i \in DOMAIN nk.path |-> i] |->
            IF S = {} THEN [i \in 1 .. ((Len(nk.path) + 1) \div 2) |-> 0]
            ELSE Put(nk, f[S \ {Max(S)}], [i \in DOMAIN nk.path |-> i][Max(S)])]

\* NodeStorageKey ends with what its fold gives.
LEMMA NodeKeyIsFold ==
    ASSUME NEW nk
    PROVE  NodeStorageKey(nk) =
              <<Tags["n"]>> \o BigEndian(nk.version, VersionSize)
                  \o BigEndian(Len(nk.path), CountSize)
                  \o (CHOOSE f : IsPacking(f, nk))[DOMAIN [i \in DOMAIN nk.path |-> i]]
BY DEF NodeStorageKey, FoldLeft, MapThenFoldSet, IsPacking, Put

\* A buffer of numbers stays one.
LEMMA PutType ==
    ASSUME NEW nk, NEW path \in Seq(Nat), path = nk.path, NEW k \in 1 .. Len(path),
           NEW size, size = (Len(path) + 1) \div 2, NEW buf \in [1 .. size -> Nat]
    PROVE  Put(nk, buf, k) \in [1 .. size -> Nat]
<1>1. path[k] \in Nat /\ path[k] * NibbleBase \in Nat
  <2>1. PICK y \in Nat : y = path[k]
    OBVIOUS
  <2>2. PICK b \in Nat : b = NibbleBase
    BY EncodingParameters
  <2>3. y * b \in Nat
    OBVIOUS
  <2>. QED BY <2>1, <2>2, <2>3
<1>2. ASSUME NEW b \in 1 .. size
      PROVE  (IF b # (k + 1) \div 2 THEN buf[b]
              ELSE IF k % 2 = 1 THEN path[k] * NibbleBase ELSE buf[b] + path[k]) \in Nat
  <2>1. PICK y \in Nat : y = buf[b]
    OBVIOUS
  <2>2. y + path[k] \in Nat
    BY <1>1
  <2>. QED BY <1>1, <2>1, <2>2
<1>3. Put(nk, buf, k) = [b \in 1 .. size |->
                            IF b # (k + 1) \div 2 THEN buf[b]
                            ELSE IF k % 2 = 1 THEN path[k] * NibbleBase ELSE buf[b] + path[k]]
  BY DEF Put
<1>. QED BY <1>2, <1>3

\* The fold is defined and packs numbers.
LEMMA PackingExists ==
    ASSUME NEW nk, nk.path \in Seq(Nat)
    PROVE  \E f \in [SUBSET (1 .. Len(nk.path)) -> [1 .. ((Len(nk.path) + 1) \div 2) -> Nat]] :
              IsPacking(f, nk)
<1>1. PICK path \in Seq(Nat) : path = nk.path
  OBVIOUS
<1>2. PICK n \in Nat : n = Len(path) /\ DOMAIN path = 1 .. n
  BY <1>1
<1>3. PICK size : size = (n + 1) \div 2
  OBVIOUS
<1>. DEFINE X == [1 .. size -> Nat]
            zero == [i \in 1 .. size |-> 0]
            F == [k \in 1 .. n |-> [buf \in X |-> Put(nk, buf, k)]]
<1>4. ASSUME NEW k \in 1 .. n, NEW buf \in X PROVE Put(nk, buf, k) \in X
  BY <1>1, <1>2, <1>3, PutType
<1>5. zero \in X
  OBVIOUS
<1>6. F \in [1 .. n -> [X -> X]]
  <2>. HIDE DEF X
  <2>. QED BY <1>4
<1>7. PICK f \in [SUBSET (1 .. n) -> X] : IsFold(f, zero, F, n)
  <2>. HIDE DEF X, zero, F
  <2>. QED BY <1>5, <1>6, FoldExists
<1>. DEFINE ids == [i \in DOMAIN nk.path |-> i]
            body(S) == IF S = {} THEN zero ELSE Put(nk, f[S \ {Max(S)}], ids[Max(S)])
<1>8. DOMAIN ids = 1 .. n /\ \A i \in 1 .. n : ids[i] = i
  BY <1>1, <1>2
<1>9. ASSUME NEW S \in SUBSET (1 .. n) PROVE f[S] = body(S)
  <2>1. f[S] = IF S = {} THEN zero ELSE F[Max(S)][f[S \ {Max(S)}]]
    BY <1>7 DEF IsFold
  <2>2. CASE S # {}
    <3>1. PICK m \in 1 .. n : m = Max(S)
      BY <2>2, MaxOfPositions
    <3>. HIDE DEF X
    <3>2. PICK x \in X : x = f[S \ {m}]
      OBVIOUS
    <3>3. F[m][x] = Put(nk, x, m)
      OBVIOUS
    <3>. QED BY <1>8, <2>1, <2>2, <3>1, <3>2, <3>3
  <2>. QED BY <2>1, <2>2
<1>10. f = [S \in SUBSET (1 .. n) |-> body(S)]
  BY <1>9
<1>11. IsPacking(f, nk)
  <2>1. zero = [i \in 1 .. ((Len(nk.path) + 1) \div 2) |-> 0]
    BY <1>1, <1>2, <1>3
  <2>2. f = [S \in SUBSET DOMAIN ids |-> body(S)]
    BY <1>8, <1>10
  <2>. QED BY <2>1, <2>2 DEF IsPacking
<1>. QED BY <1>1, <1>2, <1>3, <1>11

\* The packed nibbles are a sequence of numbers.
LEMMA PackedIsString ==
    ASSUME NEW nk, nk.path \in Seq(Nat)
    PROVE  (CHOOSE f : IsPacking(f, nk))[DOMAIN [i \in DOMAIN nk.path |-> i]] \in Strings
<1>. DEFINE f == CHOOSE g : IsPacking(g, nk)
            ids == [i \in DOMAIN nk.path |-> i]
<1>1. IsPacking(f, nk)
  BY PackingExists
<1>. HIDE DEF f
<1>2. PICK path \in Seq(Nat) : path = nk.path
  OBVIOUS
<1>3. PICK n \in Nat : n = Len(path) /\ DOMAIN path = 1 .. n
  BY <1>2
<1>4. PICK size \in Nat : size = (n + 1) \div 2
  OBVIOUS
<1>5. DOMAIN ids = 1 .. n /\ \A i \in 1 .. n : ids[i] = i
  BY <1>2, <1>3
<1>. DEFINE body(S) == IF S = {} THEN [i \in 1 .. size |-> 0]
                       ELSE Put(nk, f[S \ {Max(S)}], ids[Max(S)])
<1>6. \A S \in SUBSET (1 .. n) : f[S] = body(S)
  <2>1. f = [S \in SUBSET (1 .. n) |-> body(S)]
    BY <1>1, <1>2, <1>3, <1>4, <1>5 DEF IsPacking
  <2>. HIDE DEF body
  <2>. QED BY <2>1
<1>. DEFINE T == {k \in Nat : k <= n => f[1 .. k] \in [1 .. size -> Nat]}
<1>7. 0 \in T
  <2>1. 1 .. 0 = {} /\ [i \in 1 .. size |-> 0] \in [1 .. size -> Nat]
    OBVIOUS
  <2>2. f[1 .. 0] = [i \in 1 .. size |-> 0]
    BY <1>6, <2>1
  <2>3. f[1 .. 0] \in [1 .. size -> Nat]
    BY <2>1, <2>2
  <2>. QED BY <2>3
<1>8. ASSUME NEW k \in Nat, k \in T PROVE k + 1 \in T
  <2>. SUFFICES ASSUME k + 1 <= n PROVE f[1 .. (k + 1)] \in [1 .. size -> Nat]
    OBVIOUS
  <2>1. PICK buf \in [1 .. size -> Nat] : buf = f[1 .. k]
    <3>1. f[1 .. k] \in [1 .. size -> Nat]
      BY <1>8
    <3>. QED BY <3>1
  <2>2. PICK m \in 1 .. n : m = k + 1
    OBVIOUS
  <2>3. 1 .. m \in SUBSET (1 .. n) /\ 1 .. m # {} /\ (1 .. m) \ {m} = 1 .. k
    <3>1. 1 .. m \subseteq 1 .. n /\ m \in 1 .. m
      BY <2>2
    <3>2. ASSUME NEW x PROVE x \in (1 .. m) \ {m} <=> x \in 1 .. k
      BY <2>2
    <3>3. (1 .. m) \ {m} = 1 .. k
      BY <3>2
    <3>. QED BY <3>1, <3>3
  <2>4. Max(1 .. m) = m
    <3>1. 1 .. m \in SUBSET (1 .. (k + 1)) /\ k + 1 \in 1 .. m
      BY <2>2
    <3>2. Max(1 .. m) = k + 1
      BY <3>1, MaxIsLast
    <3>. QED BY <2>2, <3>2
  <2>5. f[1 .. m] = Put(nk, buf, m)
    <3>1. f[1 .. m] = Put(nk, f[(1 .. m) \ {Max(1 .. m)}], ids[Max(1 .. m)])
      BY <1>6, <2>3
    <3>. QED BY <1>5, <2>1, <2>3, <2>4, <3>1
  <2>6. Put(nk, buf, m) \in [1 .. size -> Nat]
    <3>1. m \in 1 .. Len(path) /\ size = (Len(path) + 1) \div 2
      BY <1>3, <1>4
    <3>. QED BY <1>2, <3>1, PutType
  <2>. QED BY <2>2, <2>5, <2>6
<1>9. f[1 .. n] \in [1 .. size -> Nat]
  <2>1. n \in T
    <3>. HIDE DEF T
    <3>. QED BY <1>7, <1>8, Induction
  <2>. QED BY <2>1
<1>10. f[1 .. n] \in Strings
  BY <1>9 DEF Strings
<1>. QED BY <1>5, <1>10 DEF f

\* A key put together from parts is one, and starts as its first part does.
LEMMA ExtendedKey ==
    ASSUME NEW s \in Strings, s # <<>>, NEW t \in Strings
    PROVE  s \o t \in Strings /\ s \o t # <<>> /\ (s \o t)[1] = s[1]
<1>1. s \in Seq(Nat) /\ t \in Seq(Nat)
  BY DEF Strings
<1>2. s \o t \in Seq(Nat) /\ Len(s \o t) = Len(s) + Len(t) /\ Len(s) \in Nat /\ Len(t) \in Nat
  BY <1>1
<1>3. Len(s) > 0
  BY <1>1
<1>4. (s \o t)[1] = s[1]
  BY <1>1, <1>2, <1>3
<1>5. s \o t # <<>>
  BY <1>2, <1>3
<1>. QED BY <1>2, <1>4, <1>5 DEF Strings

\* A tag is a key of its own.
LEMMA TagIsKey ==
    ASSUME NEW t \in {"k", "n", "r", "v"}
    PROVE  /\ Tags[t] \in Bytes /\ Tags[t] \in Nat
           /\ <<Tags[t]>> \in Strings /\ <<Tags[t]>> # <<>> /\ <<Tags[t]>>[1] = Tags[t]
<1>1. Tags[t] \in Bytes
  BY EncodingParameters
<1>2. PICK x \in Nat : x = Tags[t]
  BY <1>1, ByteIsPositive DEF Bytes
<1>3. <<x>> \in Seq(Nat) /\ <<x>> # <<>> /\ <<x>>[1] = x
  OBVIOUS
<1>. QED BY <1>1, <1>2, <1>3 DEF Strings

\* The tag of an entry's key.
TagOf(e) == CASE e.kind = "root" -> "r" [] e.kind = "node" -> "n"
              [] e.kind = "value" -> "v" [] e.kind = "keyed" -> "k"

\* What a key is: bytes, the first of which is a tag.
IsKey(k, tag) == k \in Strings /\ k # <<>> /\ k[1] = Tags[tag]

\* A version fits its field.
LEMMA VersionFits ==
    ASSUME NEW v \in Versions
    PROVE  v \in Nat /\ v < Power(VersionSize)
<1>1. PICK n \in Nat : n = VersionSize
  BY EncodingParameters
<1>2. Power(n) \in Nat \ {0}
  BY PowersMultiply
<1>3. PICK p \in Nat : p = Power(VersionSize)
  BY <1>1, <1>2
<1>. QED BY <1>3 DEF Versions

\* Every entry is stored under a key that starts with its tag.
LEMMA StorageKeyType ==
    ASSUME NEW e \in Entries
    PROVE  TagOf(e) \in {"k", "n", "r", "v"} /\ IsKey(StorageKey(e), TagOf(e))
<1>1. e.kind \in {"root", "node", "value", "keyed"} /\ Stored(e)
  BY StoreIsWritten
<1>2. VersionSize \in Nat /\ CountSize \in Nat
  BY EncodingParameters
<1>3. ASSUME NEW v \in Nat, NEW n \in Nat PROVE BigEndian(v, n) \in Strings
  <2>1. BigEndian(v, n) \in [1 .. n -> Bytes]
    BY BigEndianType
  <2>2. [1 .. n -> Bytes] \subseteq Seq(Bytes)
    OBVIOUS
  <2>. QED BY <2>1, <2>2, BytesAreStrings
<1>4. CASE e.kind = "root"
  <2>1. e.version \in Nat
    BY <1>1, <1>4, VersionFits DEF Stored
  <2>2. BigEndian(e.version, VersionSize) \in Strings
    BY <1>2, <1>3, <2>1
  <2>3. IsKey(<<Tags["r"]>> \o BigEndian(e.version, VersionSize), "r")
    BY <2>2, TagIsKey, ExtendedKey DEF IsKey
  <2>. QED BY <1>4, <2>3 DEF TagOf, StorageKey, RootKey, RootKeyPrefix
<1>5. CASE e.kind = "node"
  <2>1. e.key.version \in Nat
    BY <1>1, <1>5, VersionFits DEF Stored
  <2>2. e.key.path \in Seq(Nat)
    <3>1. e.key.path \in Seq(0 .. NibbleBase - 1)
      BY <1>1, <1>5 DEF Stored
    <3>2. PICK nibbles \in SUBSET Nat : nibbles = 0 .. NibbleBase - 1
      BY EncodingParameters
    <3>3. PICK p \in Seq(nibbles) : p = e.key.path
      BY <3>1, <3>2
    <3>4. Len(p) \in Nat /\ p \in [1 .. Len(p) -> nibbles]
      OBVIOUS
    <3>5. p \in [1 .. Len(p) -> Nat]
      BY <3>4
    <3>6. p \in Seq(Nat)
      BY <3>4, <3>5
    <3>. QED BY <3>3, <3>6
  <2>3. Len(e.key.path) \in Nat
    BY <2>2
  <2>4. BigEndian(e.key.version, VersionSize) \in Strings
    BY <1>2, <1>3, <2>1
  <2>5. BigEndian(Len(e.key.path), CountSize) \in Strings
    BY <1>2, <1>3, <2>3
  <2>6. PICK packed \in Strings :
           packed = (CHOOSE f : IsPacking(f, e.key))[DOMAIN [i \in DOMAIN e.key.path |-> i]]
    BY <2>2, PackedIsString
  <2>7. NodeStorageKey(e.key) =
          <<Tags["n"]>> \o BigEndian(e.key.version, VersionSize)
              \o BigEndian(Len(e.key.path), CountSize) \o packed
    BY <2>6, NodeKeyIsFold
  <2>. DEFINE a == <<Tags["n"]>> \o BigEndian(e.key.version, VersionSize)
              b == a \o BigEndian(Len(e.key.path), CountSize)
  <2>8. a \in Strings /\ a # <<>> /\ a[1] = Tags["n"]
    BY <2>4, TagIsKey, ExtendedKey
  <2>9. b \in Strings /\ b # <<>> /\ b[1] = Tags["n"]
    <3>. HIDE DEF a
    <3>. QED BY <2>5, <2>8, ExtendedKey
  <2>10. b \o packed \in Strings /\ b \o packed # <<>> /\ (b \o packed)[1] = Tags["n"]
    <3>. HIDE DEF b
    <3>. QED BY <2>9, ExtendedKey
  <2>11. IsKey(NodeStorageKey(e.key), "n")
    BY <2>7, <2>10 DEF IsKey
  <2>. QED BY <1>5, <2>11 DEF TagOf, StorageKey
<1>6. CASE e.kind = "value"
  <2>1. e.hash \in Strings
    <3>1. e.hash \in [1 .. HashSize -> Bytes] /\ HashSize \in Nat
      BY <1>1, <1>6, EncodingParameters DEF Stored
    <3>2. e.hash \in Seq(Bytes)
      BY <3>1
    <3>. QED BY <3>2, BytesAreStrings
  <2>2. IsKey(<<Tags["v"]>> \o e.hash, "v")
    BY <2>1, TagIsKey, ExtendedKey DEF IsKey
  <2>. QED BY <1>6, <2>2 DEF TagOf, StorageKey, ValueKey
<1>7. CASE e.kind = "keyed"
  <2>1. e.key \in Strings
    <3>1. e.key \in [1 .. KeySize -> Bytes] /\ KeySize \in Nat
      BY <1>1, <1>7, EncodingParameters DEF Stored
    <3>2. e.key \in Seq(Bytes)
      BY <3>1
    <3>. QED BY <3>2, BytesAreStrings
  <2>2. IsKey(<<Tags["k"]>> \o e.key, "k")
    BY <2>1, TagIsKey, ExtendedKey DEF IsKey
  <2>. QED BY <1>7, <2>2 DEF TagOf, StorageKey, ValueKeyByKey
<1>. QED BY <1>1, <1>4, <1>5, <1>6, <1>7

\* What a state of an iterator is made of, and keeps.
Sound(es, eng, o) ==
    es \in SUBSET Entries /\ eng \in {"memory", "pebble"} /\ o \in Options

\* The keys of a store are finitely many, and keys.
LEMMA StoreType ==
    ASSUME NEW es \in SUBSET Entries
    PROVE  /\ {StorageKey(e) : e \in es} \in SUBSET Strings
           /\ IsFiniteSet({StorageKey(e) : e \in es})
<1>. DEFINE T == {StorageKey(e) : e \in es}
            f == [e \in es |-> StorageKey(e)]
<1>1. \A e \in es : StorageKey(e) \in Strings
  BY StorageKeyType DEF IsKey
<1>2. IsFiniteSet(es)
  BY StoreIsWritten, FS_Subset
<1>3. f \in Surjection(es, T)
  <2>1. f \in [es -> T]
    OBVIOUS
  <2>2. \A t \in T : \E e \in es : f[e] = t
    OBVIOUS
  <2>. QED BY <2>1, <2>2 DEF Surjection
<1>4. IsFiniteSet(T)
  <2>. HIDE DEF T, f
  <2>. QED BY <1>2, <1>3, FS_Surjection
<1>. QED BY <1>1, <1>4

\* A root key is read back as the version it was made for.
LEMMA RootKeyParses ==
    ASSUME NEW v \in Versions
    PROVE  ParseRootKey(RootKey(v)) = v
<1>1. v \in Nat /\ v < Power(VersionSize)
  BY VersionFits
<1>2. PICK n \in Nat : n = VersionSize
  BY EncodingParameters
<1>3. PICK d \in Seq(Nat) : d = BigEndian(v, VersionSize) /\ Len(d) = n
  <2>1. BigEndian(v, n) \in [1 .. n -> Bytes]
    BY <1>1, BigEndianType
  <2>2. PICK d \in [1 .. n -> Bytes] : d = BigEndian(v, n)
    BY <2>1
  <2>3. d \in Seq(Bytes) /\ Len(d) = n
    OBVIOUS
  <2>4. d \in Seq(Nat)
    BY <2>3, BytesAreStrings DEF Strings
  <2>. QED BY <1>2, <2>2, <2>3, <2>4
<1>4. PICK t \in Seq(Nat) : t = RootKeyPrefix /\ Len(t) = 1
  <2>1. PICK x \in Nat : x = Tags["r"]
    BY TagIsKey
  <2>2. <<x>> \in Seq(Nat) /\ Len(<<x>>) = 1
    OBVIOUS
  <2>. QED BY <2>1, <2>2 DEF RootKeyPrefix
<1>5. PICK k \in Seq(Nat) : /\ k = t \o d /\ Len(k) = 1 + n /\ k[1] = t[1]
                            /\ \A i \in 1 .. n : k[i + 1] = d[i]
  <2>0. Len(t) = 1 /\ Len(d) = n
    BY <1>3, <1>4
  <2>1. t \o d \in Seq(Nat) /\ Len(t \o d) = 1 + n
    <3>1. t \o d \in Seq(Nat) /\ Len(t \o d) = Len(t) + Len(d)
      OBVIOUS
    <3>. QED BY <2>0, <3>1
  <2>2. (t \o d)[1] = t[1]
    <3>1. PICK m \in Nat : m = 1 /\ m <= Len(t) /\ m >= 1
      BY <2>0
    <3>2. (t \o d)[m] = t[m]
      BY <3>1
    <3>. QED BY <3>1, <3>2
  <2>3. ASSUME NEW i \in 1 .. n PROVE (t \o d)[i + 1] = d[i]
    <3>1. PICK m \in Nat : m = i + 1 /\ m > Len(t) /\ m <= Len(t) + Len(d) /\ m - Len(t) = i
      BY <2>0
    <3>2. (t \o d)[m] = d[m - Len(t)]
      BY <3>1
    <3>. QED BY <3>1, <3>2
  <2>. QED BY <2>1, <2>2, <2>3
<1>6. k = RootKey(v)
  BY <1>3, <1>4, <1>5 DEF RootKey
<1>7. IsPrefix(t, k)
  <2>1. \A j \in 1 .. Len(t) : t[j] = k[j]
    BY <1>4, <1>5
  <2>2. Len(t) <= Len(k)
    BY <1>4, <1>5
  <2>. QED BY <2>1, <2>2, PrefixElements
<1>8. Slice(k, 1, VersionSize) = d
  <2>1. SubSeq(k, 2, 1 + n) = [i \in 1 .. n |-> k[i + 1]]
    <3>1. SubSeq(k, 2, 1 + n) \in Seq(Nat) /\ Len(SubSeq(k, 2, 1 + n)) = n
      BY <1>5
    <3>2. \A i \in 1 .. n : SubSeq(k, 2, 1 + n)[i] = k[i + 1]
      BY <1>5
    <3>. QED BY <3>1, <3>2
  <2>2. d = [i \in 1 .. n |-> d[i]]
    BY <1>3
  <2>3. SubSeq(k, 2, 1 + n) = d
    BY <1>5, <2>1, <2>2
  <2>4. Slice(k, 1, n) = SubSeq(k, 2, 1 + n)
    BY DEF Slice
  <2>. QED BY <1>2, <2>3, <2>4
<1>9. FromBigEndian(d) = v
  BY <1>1, <1>2, <1>3, BigEndianInverse
<1>. QED BY <1>2, <1>4, <1>5, <1>6, <1>7, <1>8, <1>9 DEF ParseRootKey

\* A string starts with a byte if its first byte is that one.
LEMMA StartsWith ==
    ASSUME NEW x \in Nat, NEW k \in Strings, k # <<>>
    PROVE  /\ <<x>> \in Strings /\ Len(<<x>>) = 1 /\ <<x>>[1] = x
           /\ IsPrefix(<<x>>, k) <=> k[1] = x
<1>1. <<x>> \in Seq(Nat) /\ Len(<<x>>) = 1 /\ <<x>>[1] = x
  OBVIOUS
<1>2. PICK t \in Seq(Nat) : t = <<x>>
  BY <1>1
<1>3. k \in Seq(Nat)
  BY DEF Strings
<1>4. Len(k) \in Nat /\ Len(k) >= 1
  BY <1>3
<1>5. PICK S : S = Nat
  OBVIOUS
<1>6. t \in Seq(S) /\ k \in Seq(S)
  BY <1>3, <1>5
<1>7. IsPrefix(t, k) <=> Len(t) <= Len(k) /\ \A j \in 1 .. Len(t) : t[j] = k[j]
  BY <1>6, PrefixElements
<1>8. Len(t) = 1 /\ t[1] = x
  BY <1>1, <1>2
<1>9. IsPrefix(t, k) <=> k[1] = x
  BY <1>4, <1>7, <1>8
<1>. QED BY <1>1, <1>2, <1>9 DEF Strings

\* A key is of one kind.
LEMMA RootKeysStart ==
    ASSUME NEW e \in Entries
    PROVE  IsPrefix(RootKeyPrefix, StorageKey(e)) <=> e.kind = "root"
<1>1. e.kind \in {"root", "node", "value", "keyed"}
  BY StoreIsWritten
<1>2. TagOf(e) = "r" <=> e.kind = "root"
  BY <1>1 DEF TagOf
<1>3. TagOf(e) \in {"k", "n", "r", "v"} /\ IsKey(StorageKey(e), TagOf(e))
  BY StorageKeyType
<1>4. Tags[TagOf(e)] = Tags["r"] <=> TagOf(e) = "r"
  BY <1>3, EncodingParameters
<1>5. PICK k \in Strings : k = StorageKey(e) /\ k # <<>> /\ k[1] = Tags[TagOf(e)]
  BY <1>3 DEF IsKey
<1>6. PICK x \in Nat : x = Tags["r"]
  BY TagIsKey
<1>7. IsPrefix(<<x>>, k) <=> k[1] = x
  BY <1>5, StartsWith
<1>. QED BY <1>2, <1>4, <1>5, <1>6, <1>7 DEF RootKeyPrefix

\* A key is not less than a prefix of it.
LEMMA PrefixIsLower ==
    ASSUME NEW p \in Strings, NEW k \in Strings, IsPrefix(p, k)
    PROVE  ~ BytesLess(k, p)
<1>. SUFFICES ASSUME BytesLess(k, p) PROVE FALSE
  OBVIOUS
<1>1. p \in Seq(Nat) /\ k \in Seq(Nat)
  BY DEF Strings
<1>2. Len(p) <= Len(k) /\ \A j \in 1 .. Len(p) : p[j] = k[j]
  BY <1>1, PrefixElements
<1>3. PICK i \in Nat \ {0} : DecidedAt(k, p, i)
  BY LessIsDecided
<1>4. Pad(k, i) < Pad(p, i) /\ Pad(k, i) \in Int /\ Pad(k, i) >= -1
  BY <1>3, PadType DEF DecidedAt
<1>5. CASE i \in 1 .. Len(p)
  <2>1. Len(p) \in Nat /\ Len(k) \in Nat
    BY <1>1
  <2>2. i \in 1 .. Len(k)
    BY <1>2, <1>5, <2>1
  <2>3. Pad(k, i) = k[i] /\ Pad(p, i) = p[i] /\ p[i] = k[i]
    BY <1>2, <1>5, <2>2 DEF Pad
  <2>. QED BY <1>4, <2>3
<1>6. CASE i \notin 1 .. Len(p)
  <2>1. Pad(p, i) = -1
    BY <1>6 DEF Pad
  <2>. QED BY <1>4, <2>1
<1>. QED BY <1>5, <1>6

\* Without an upper bound, the keys from a one-byte prefix of the largest byte
\* on are those that start with it.
LEMMA LargestTagBounds ==
    ASSUME NEW x \in Bytes, x = Byte - 1, NEW k \in Strings, k # <<>>, k[1] \in Bytes
    PROVE  InBounds(k, <<x>>, PrefixUpperBound(<<x>>)) <=> IsPrefix(<<x>>, k)
<1>0. PICK y \in Nat : y = x
  BY ByteIsPositive DEF Bytes
<1>1. PICK p \in Seq(Nat) : p = <<x>> /\ Len(p) = 1 /\ p[1] = x /\ DOMAIN p = {1}
  <2>1. <<y>> \in Seq(Nat) /\ Len(<<y>>) = 1 /\ <<y>>[1] = y
    OBVIOUS
  <2>2. PICK p \in Seq(Nat) : p = <<y>>
    BY <2>1
  <2>3. Len(p) = 1 /\ p[1] = x /\ p = <<x>>
    BY <1>0, <2>1, <2>2
  <2>4. DOMAIN p = 1 .. Len(p) /\ 1 .. 1 = {1}
    OBVIOUS
  <2>5. DOMAIN p = {1}
    BY <2>3, <2>4
  <2>. QED BY <2>3, <2>5
<1>2. PrefixUpperBound(p) = Nil
  <2>1. {i \in DOMAIN p : p[i] < Byte - 1} = {}
    BY <1>1, ByteIsPositive DEF Bytes
  <2>. QED BY <2>1 DEF PrefixUpperBound
<1>3. k \in Seq(Nat) /\ p \in Strings /\ p \in Seq(Bytes)
  BY <1>1 DEF Strings
<1>4. p # Nil
  BY <1>3, BytesAreStrings
<1>5. InBounds(k, p, PrefixUpperBound(p)) <=> ~ BytesLess(k, p)
  BY <1>2, <1>4 DEF InBounds
<1>6. ASSUME IsPrefix(p, k) PROVE ~ BytesLess(k, p)
  BY <1>3, <1>6, PrefixIsLower
<1>7. ASSUME ~ IsPrefix(p, k) PROVE BytesLess(k, p)
  <2>1. k[1] # x
    <3>1. IsPrefix(<<y>>, k) <=> k[1] = y
      BY StartsWith
    <3>. QED BY <1>0, <1>1, <1>7, <3>1
  <2>2. k[1] < x
    BY <2>1, ByteIsPositive DEF Bytes
  <2>3. 1 \in 1 .. Len(k) /\ 1 \in 1 .. Len(p)
    BY <1>1, <1>3
  <2>4. Pad(k, 1) < Pad(p, 1)
    BY <1>1, <2>2, <2>3 DEF Pad
  <2>5. DecidedAt(k, p, 1)
    BY <2>4 DEF DecidedAt
  <2>. QED BY <1>3, <2>5, LessIsDecided
<1>. QED BY <1>1, <1>5, <1>6, <1>7

\* The scan of loadRootHashes runs over the root keys, on both engines.
LEMMA RootScan ==
    ASSUME NEW es \in SUBSET Entries, NEW eng, NEW store, store = {StorageKey(e) : e \in es},
           NEW o, o = [prefix |-> RootKeyPrefix, lower |-> Nil, upper |-> Nil]
    PROVE  Enumerates(KeysOf(eng, store, o), {k \in store : IsPrefix(RootKeyPrefix, k)})
<1>1. store \in SUBSET Strings /\ IsFiniteSet(store)
  BY StoreType
<1>2. PICK x \in Bytes : x = Tags["r"] /\ x \in Nat
  BY TagIsKey
<1>3. PICK p \in Seq(Bytes) : p = RootKeyPrefix /\ p = <<x>> /\ p # <<>> /\ Last(p) = x
  <2>1. <<x>> \in Seq(Bytes) /\ <<x>> # <<>> /\ Len(<<x>>) = 1 /\ <<x>>[1] = x
    OBVIOUS
  <2>. QED BY <1>2, <2>1 DEF RootKeyPrefix, Last
<1>4. p # Nil
  BY <1>3, BytesAreStrings
<1>5. o.prefix = p /\ o.lower = Nil /\ o.upper = Nil
  BY <1>3
<1>6. Typed(o)
  BY <1>5 DEF Typed
<1>7. PICK A : A = {k \in store : Asked(k, o)}
  OBVIOUS
<1>8. A = {k \in store : IsPrefix(RootKeyPrefix, k)}
  BY <1>3, <1>4, <1>5, <1>7 DEF Asked
<1>9. CASE eng = "memory"
  <2>1. Enumerates(MemoryKeys(store, o), A)
    BY <1>1, <1>6, <1>7, MemoryKeysAreAsked
  <2>. QED BY <1>8, <1>9, <2>1 DEF KeysOf
<1>10. CASE eng # "memory" /\ x < Byte - 1
  <2>1. Plain(o)
    BY <1>3, <1>4, <1>5, <1>10 DEF Plain
  <2>2. Enumerates(PebbleKeys(store, o), A)
    BY <1>1, <1>6, <1>7, <2>1, PebbleKeysAreAsked
  <2>. QED BY <1>8, <1>10, <2>2 DEF KeysOf
<1>11. CASE eng # "memory" /\ x = Byte - 1
  <2>1. ASSUME NEW k \in store
        PROVE  InBounds(k, p, PrefixUpperBound(p)) <=> IsPrefix(p, k)
    <3>1. PICK e \in Entries : k = StorageKey(e)
      OBVIOUS
    <3>2. k \in Strings /\ k # <<>> /\ k[1] \in Bytes
      BY <3>1, StorageKeyType, TagIsKey DEF IsKey
    <3>3. InBounds(k, <<x>>, PrefixUpperBound(<<x>>)) <=> IsPrefix(<<x>>, k)
      BY <1>11, <3>2, LargestTagBounds
    <3>. QED BY <1>3, <3>3
  <2>2. {k \in store : InBounds(k, p, PrefixUpperBound(p))} = A
    BY <1>3, <1>8, <2>1
  <2>3. PebbleKeys(store, o) = Sorted(A)
    BY <1>4, <1>5, <2>2 DEF PebbleKeys
  <2>4. A \in SUBSET Strings /\ IsFiniteSet(A)
    <3>1. A \in SUBSET store
      BY <1>7
    <3>2. IsFiniteSet(A)
      BY <1>1, <3>1, FS_Subset
    <3>. QED BY <1>1, <3>1, <3>2
  <2>5. Enumerates(Sorted(A), A)
    BY <2>4, SortedEnumerates
  <2>. QED BY <1>8, <1>11, <2>3, <2>5 DEF KeysOf
<1>12. x < Byte - 1 \/ x = Byte - 1
  BY ByteIsPositive DEF Bytes
<1>. QED BY <1>9, <1>10, <1>11, <1>12

\* The versions of the roots among some entries.
Written(es) == {e.version : e \in {r \in es : r.kind = "root"}}

\* Opening a tree finds the versions that were written.
LEMMA LoadFindsWritten ==
    ASSUME NEW es \in SUBSET Entries, NEW eng, NEW store, store = {StorageKey(e) : e \in es}
    PROVE  /\ LoadRootHashes(eng, store) =
                [ok |-> TRUE, versions |-> Written(es), latest |-> Max(Written(es) \cup {0})]
           /\ Written(es) \in SUBSET Versions
<1>1. PICK o : o = [prefix |-> RootKeyPrefix, lower |-> Nil, upper |-> Nil]
  OBVIOUS
<1>2. PICK found : found = KeysOf(eng, store, o)
  OBVIOUS
<1>3. PICK A : A = {k \in store : IsPrefix(RootKeyPrefix, k)}
  OBVIOUS
<1>4. Enumerates(found, A)
  BY <1>1, <1>2, <1>3, RootScan
<1>5. found \in Seq(A) /\ \A k \in A : \E i \in 1 .. Len(found) : found[i] = k
  BY <1>4 DEF Enumerates
<1>6. \A i \in DOMAIN found : found[i] \in A
  BY <1>5
<1>7. \A k \in A : \E i \in DOMAIN found : found[i] = k
  BY <1>5
<1>8. Written(es) \in SUBSET Versions
  <2>1. ASSUME NEW e \in es, e.kind = "root" PROVE e.version \in Versions
    BY <2>1, StoreIsWritten DEF Stored
  <2>. QED BY <2>1 DEF Written
<1>9. ASSUME NEW e \in es, e.kind = "root"
      PROVE  StorageKey(e) \in A /\ ParseRootKey(StorageKey(e)) = e.version
  <2>1. e.version \in Versions
    BY <1>9, StoreIsWritten DEF Stored
  <2>2. StorageKey(e) = RootKey(e.version)
    BY <1>9 DEF StorageKey
  <2>3. IsPrefix(RootKeyPrefix, StorageKey(e))
    BY <1>9, RootKeysStart
  <2>. QED BY <1>3, <2>1, <2>2, <2>3, RootKeyParses
<1>10. ASSUME NEW k \in A PROVE \E e \in es : e.kind = "root" /\ k = StorageKey(e)
  <2>1. PICK e \in es : k = StorageKey(e)
    BY <1>3
  <2>. QED BY <1>3, <2>1, RootKeysStart
<1>. DEFINE versions == {ParseRootKey(found[i]) : i \in DOMAIN found}
<1>11. ASSUME NEW v PROVE v \in versions <=> v \in Written(es)
  <2>1. ASSUME v \in versions PROVE v \in Written(es)
    <3>1. PICK i \in DOMAIN found : v = ParseRootKey(found[i])
      BY <2>1
    <3>2. PICK e \in es : e.kind = "root" /\ found[i] = StorageKey(e)
      BY <1>6, <1>10
    <3>3. v = e.version
      BY <1>9, <3>1, <3>2
    <3>. QED BY <3>2, <3>3 DEF Written
  <2>2. ASSUME v \in Written(es) PROVE v \in versions
    <3>1. PICK e \in es : e.kind = "root" /\ v = e.version
      BY <2>2 DEF Written
    <3>2. PICK i \in DOMAIN found : found[i] = StorageKey(e)
      BY <1>7, <1>9, <3>1
    <3>3. v = ParseRootKey(found[i])
      BY <1>9, <3>1, <3>2
    <3>. QED BY <3>3
  <2>. QED BY <2>1, <2>2
<1>12. versions = Written(es)
  BY <1>11
<1>13. NoVersion \notin Written(es)
  <2>1. \A v \in Versions : v \in Nat
    BY VersionFits
  <2>2. NoVersion \notin Nat
    BY DEF NoVersion
  <2>. QED BY <1>8, <2>1, <2>2
<1>14. LoadRootHashes(eng, store) =
         IF NoVersion \in versions THEN [ok |-> FALSE, versions |-> {}, latest |-> 0]
         ELSE [ok |-> TRUE, versions |-> versions, latest |-> Max(versions \cup {0})]
  BY <1>1, <1>2 DEF LoadRootHashes
<1>15. LoadRootHashes(eng, store) =
         [ok |-> TRUE, versions |-> Written(es), latest |-> Max(Written(es) \cup {0})]
  <2>. HIDE DEF versions
  <2>. QED BY <1>12, <1>13, <1>14
<1>. QED BY <1>8, <1>15

-----------------------------------------------------------------------------
(* What an iterator keeps.                                                 *)

\* No step changes the entries, the engine or the options.
LEMMA StepKeepsStore ==
    ASSUME Sound(entries, engine, options), [Next]_vars
    PROVE  Sound(entries', engine', options') /\ entries' = entries /\ engine' = engine
           /\ options' = options /\ keys' = keys
BY DEF Next, vars, SeekGE, SeekLT, FirstKey, LastKey, NextKey, PrevKey, MoveTo

\* An iterator starts with what it keeps.
LEMMA InitIsSound ==
    ASSUME Init
    PROVE  Sound(entries, engine, options)
<1>1. PICK n \in 0 .. MaxEntries : entries \in kSubset(n, Entries)
  BY DEF Init
<1>2. entries \in SUBSET Entries
  BY <1>1 DEF kSubset
<1>. QED BY <1>2 DEF Init, Sound

\* Opening a tree on either engine finds the versions written before, all of them
\* and nothing else, whatever else the store holds, whichever byte tags the root
\* keys and whatever the sizes of the fields (loadRootHashes).
THEOREM RecoveryIsExact == Spec => []RecoveryFindsVersions
<1>. DEFINE Inv == Sound(entries, engine, options)
<1>1. Init => Inv
  BY InitIsSound
<1>2. Inv /\ [Next]_vars => Inv'
  BY StepKeepsStore DEF Sound
<1>3. Inv => RecoveryFindsVersions
  <2>. SUFFICES ASSUME Inv PROVE RecoveryFindsVersions
    OBVIOUS
  <2>1. PICK r : r = LoadRootHashes(engine, Store)
    OBVIOUS
  <2>2. r = [ok |-> TRUE, versions |-> Written(entries),
             latest |-> Max(Written(entries) \cup {0})]
    BY <2>1, LoadFindsWritten DEF Sound, Store
  <2>. QED BY <2>1, <2>2 DEF RecoveryFindsVersions, Written
<1>. QED BY <1>1, <1>2, <1>3, PTL DEF Spec

-----------------------------------------------------------------------------
(* Pruning.                                                                *)

\* A number that fits is left as it is.
LEMMA SmallIsRemainder ==
    ASSUME NEW b \in Nat \ {0}, NEW x \in Nat, x < b
    PROVE  x % b = x
<1>1. PICK q \in Nat, r \in Nat : q = x \div b /\ r = x % b /\ x = q * b + r
  BY DivMod
<1>2. q = 0
  <2>. SUFFICES ASSUME q # 0 PROVE FALSE
    OBVIOUS
  <2>1. PICK p \in Nat : q = p + 1
    <3>1. q - 1 \in Nat /\ q = (q - 1) + 1
      OBVIOUS
    <3>. QED BY <3>1
  <2>2. q * b = p * b + b /\ p * b \in Nat
    BY <2>1
  <2>. QED BY <1>1, <2>2
<1>. QED BY <1>1, <1>2

\* The latest of the versions found is one of them, or zero, and no version found
\* is above it.
LEMMA LatestIsGreatest ==
    ASSUME NEW T \in SUBSET Versions
    PROVE  \E m \in Nat : /\ m = Max(T \cup {0}) /\ m < Power(VersionSize)
                          /\ \A v \in T : v \in Nat /\ v <= m
<1>1. PICK n \in Nat : n = VersionSize
  BY EncodingParameters
<1>2. PICK P \in Nat \ {0} : P = Power(VersionSize)
  BY <1>1, PowersMultiply
<1>3. PICK b \in Nat : P = b + 1
  <2>1. P - 1 \in Nat /\ P = (P - 1) + 1
    OBVIOUS
  <2>. QED BY <2>1
<1>4. PICK S : S = T \cup {0}
  OBVIOUS
<1>5. \A v \in Versions : v \in 0 .. b
  BY <1>2, <1>3 DEF Versions
<1>6. S \in SUBSET (0 .. b) /\ S # {}
  BY <1>4, <1>5
<1>7. PICK m \in S : \A x \in S : x <= m
  BY <1>6, GreatestElement
<1>8. PICK mx : mx = Max(S)
  OBVIOUS
<1>9. mx \in S /\ \A y \in S : mx >= y
  <2>1. \E x \in S : \A y \in S : x >= y
    <3>1. \A y \in S : m >= y
      BY <1>6, <1>7
    <3>. QED BY <3>1
  <2>. QED BY <1>8, <2>1 DEF Max
<1>10. mx \in Nat /\ mx < P
  BY <1>3, <1>6, <1>9
<1>11. \A v \in T : v \in Nat /\ v <= mx
  <2>1. ASSUME NEW v \in T PROVE v \in Nat /\ v <= mx
    <3>1. v \in S
      BY <1>4
    <3>2. v \in Nat /\ mx >= v
      BY <1>6, <1>9, <3>1
    <3>. QED BY <1>10, <3>2
  <2>. QED BY <2>1
<1>. QED BY <1>2, <1>4, <1>8, <1>10, <1>11

\* Below the current version, KeepLastNVersions prunes by distance.
LEMMA KeepLastPrunesOlder ==
    ASSUME NEW current \in Nat, current < Power(VersionSize), NEW n \in Int,
           NEW v \in Nat, v <= current, NEW w \in Nat, w <= current,
           KeepLastNVersions(n, current, v), ~ KeepLastNVersions(n, current, w)
    PROVE  v < w
<1>1. PICK s \in Nat : s = VersionSize
  BY EncodingParameters
<1>2. PICK P \in Nat \ {0} : P = Power(VersionSize)
  BY <1>1, PowersMultiply
<1>3. PICK k : k = n % P
  OBVIOUS
<1>4. k \in Int
  BY <1>3
<1>5. PICK dv \in Nat : dv = current - v /\ dv < P
  BY <1>2
<1>6. PICK dw \in Nat : dw = current - w /\ dw < P
  BY <1>2
<1>7. dv % P = dv /\ dw % P = dw
  BY <1>5, <1>6, SmallIsRemainder
<1>8. v # current /\ dv > k
  BY <1>2, <1>3, <1>5, <1>7 DEF KeepLastNVersions, ToVersion
<1>9. w = current \/ ~ (dw > k)
  BY <1>2, <1>3, <1>6, <1>7 DEF KeepLastNVersions, ToVersion
<1>. QED BY <1>4, <1>5, <1>6, <1>8, <1>9

\* Two answers of no prune under neither composition, one under no conjunction.
LEMMA CompositeKeeps ==
    ASSUME NEW a
    PROVE  /\ ~ Composite(FALSE, <<FALSE, FALSE>>)
           /\ ~ Composite(TRUE, <<a, FALSE>>)
           /\ ~ Composite(TRUE, <<FALSE, a>>)
<1>1. DOMAIN <<FALSE, FALSE>> = {1, 2} /\ DOMAIN <<a, FALSE>> = {1, 2} /\ DOMAIN <<FALSE, a>> = {1, 2}
  OBVIOUS
<1>2. ~ Composite(FALSE, <<FALSE, FALSE>>)
  <2>1. PICK s : s = <<FALSE, FALSE>>
    OBVIOUS
  <2>2. DOMAIN s = {1, 2} /\ ~ s[1] /\ ~ s[2]
    BY <1>1, <2>1
  <2>3. ~ \E i \in DOMAIN s : s[i]
    BY <2>2
  <2>4. ~ Composite(FALSE, s)
    BY <2>3 DEF Composite
  <2>. QED BY <2>1, <2>4
<1>3. ~ Composite(TRUE, <<a, FALSE>>)
  BY <1>1 DEF Composite
<1>4. ~ Composite(TRUE, <<FALSE, a>>)
  BY <1>1 DEF Composite
<1>. QED BY <1>2, <1>3, <1>4

\* Whatever a store holds, the policies made for its latest version prune from the
\* old end and never the latest: no version KeepLastNVersions keeps is older than
\* one it prunes, and the latest survives the compositions (ShouldPrune of the
\* policies and of CompositePruningPolicy).
THEOREM PruningIsFromTheOldEnd == Spec => []PruningKeepsNewest
<1>. DEFINE Inv == Sound(entries, engine, options)
<1>1. Init => Inv
  BY InitIsSound
<1>2. Inv /\ [Next]_vars => Inv'
  BY StepKeepsStore DEF Sound
<1>3. Inv => PruningKeepsNewest
  <2>. SUFFICES ASSUME Inv PROVE PruningKeepsNewest
    OBVIOUS
  <2>1. PICK held \in SUBSET Versions : held = Written(entries)
    BY LoadFindsWritten DEF Sound
  <2>2. PICK current \in Nat :
           /\ current = Max(held \cup {0}) /\ current < Power(VersionSize)
           /\ \A v \in held : v \in Nat /\ v <= current
    BY LatestIsGreatest
  <2>3. Recovered = [ok |-> TRUE, versions |-> held, latest |-> current]
    BY <2>1, <2>2, LoadFindsWritten DEF Sound, Store, Recovered
  <2>4. Recovered.versions = held /\ Recovered.latest = current
    BY <2>3
  <2>5. ASSUME NEW n \in 1 .. MaxKeep, NEW v \in held, NEW w \in held,
               KeepLastNVersions(n, current, v), ~ KeepLastNVersions(n, current, w)
        PROVE  v < w
    BY <2>2, <2>5, KeepLastPrunesOlder
  <2>6. ASSUME NEW n, NEW interval, NEW now
        PROVE  ~ (\/ Composite(FALSE, <<KeepLastNVersions(n, current, current),
                                        KeepMilestoneVersions(interval, current, current)>>)
                  \/ Composite(TRUE, <<KeepVersionsNewerThan(0, now, current),
                                       KeepLastNVersions(n, current, current)>>)
                  \/ Composite(TRUE, <<KeepMilestoneVersions(interval, current, current),
                                       KeepVersionsNewerThan(0, now, current)>>))
    <3>1. KeepLastNVersions(n, current, current) = FALSE
      BY DEF KeepLastNVersions
    <3>2. KeepMilestoneVersions(interval, current, current) = FALSE
      BY DEF KeepMilestoneVersions
    <3>. QED BY <3>1, <3>2, CompositeKeeps
  <2>. QED BY <2>4, <2>5, <2>6 DEF PruningKeepsNewest
<1>. QED BY <1>1, <1>2, <1>3, PTL DEF Spec

-----------------------------------------------------------------------------
(* Walks.                                                                  *)

\* The keys from a position on, and those before one, backwards; what a walk has
\* returned is the first of them.
Forth(K, p) == [j \in 1 .. (Len(K) - p) |-> K[p + j]]
Back(K, e) == [j \in 1 .. e |-> K[(e - j) + 1]]
Run(s, all, c) == s = [j \in 1 .. c |-> all[j]]
IsCourse(all, n) == all \in [1 .. n -> Strings]

\* A walk from position p by Next, and one from below e by Prev, is at the last key
\* it returned, or has returned all of them and is at no key.
ForthInv(K, p, i, s) ==
    \E c \in 0 .. (Len(K) - p) :
        /\ Run(s, Forth(K, p), c)
        /\ \/ c >= 1 /\ i = p + (c - 1)
           \/ c = Len(K) - p /\ (i = Len(K) \/ (i = -1 /\ Len(K) = 0))
BackInv(K, e, i, s) ==
    \E c \in 0 .. e :
        /\ Run(s, Back(K, e), c)
        /\ \/ c >= 1 /\ i = e - c
           \/ c = e /\ (i = -1 \/ (i = 0 /\ Len(K) = 0))

\* What is returned at a position.
Returned(K, i, s) == IF i >= 0 /\ i < Len(K) THEN Append(s, K[i + 1]) ELSE s

\* A run is a sequence, and grows by its next key.
LEMMA RunGrows ==
    ASSUME NEW n \in Nat, NEW all, IsCourse(all, n), NEW c \in Nat, NEW m \in 1 .. n, m = c + 1,
           NEW s, Run(s, all, c), NEW x, x = all[m]
    PROVE  Run(Append(s, x), all, m)
<1>0. PICK S : S = Strings
  OBVIOUS
<1>. all \in [1 .. n -> S]
  BY <1>0 DEF IsCourse
<1>1. PICK r \in Seq(S) : r = s /\ Len(r) = c /\ \A j \in 1 .. c : r[j] = all[j]
  <2>1. \A j \in 1 .. c : j \in 1 .. n
    OBVIOUS
  <2>2. [j \in 1 .. c |-> all[j]] \in [1 .. c -> S]
    BY <2>1
  <2>3. PICK r \in [1 .. c -> S] : r = s
    BY <2>2 DEF Run
  <2>4. r \in Seq(S) /\ Len(r) = c
    OBVIOUS
  <2>5. \A j \in 1 .. c : r[j] = all[j]
    BY <2>3 DEF Run
  <2>. QED BY <2>3, <2>4, <2>5
<1>2. x \in S
  OBVIOUS
<1>3. m \in Nat /\ m = c + 1
  OBVIOUS
<1>4. PICK u \in Seq(S) : u = Append(r, x) /\ Len(u) = m /\ u[m] = x /\ \A j \in 1 .. c : u[j] = r[j]
  <2>1. Append(r, x) \in Seq(S) /\ Len(Append(r, x)) = Len(r) + 1
    BY <1>2
  <2>2. Append(r, x)[Len(r) + 1] = x
    BY <1>2
  <2>3. \A j \in 1 .. Len(r) : Append(r, x)[j] = r[j]
    BY <1>2
  <2>4. Len(r) = c
    BY <1>1
  <2>. QED BY <1>3, <2>1, <2>2, <2>3, <2>4
<1>5. \A j \in 1 .. m : u[j] = all[j]
  <2>1. ASSUME NEW j \in 1 .. m PROVE u[j] = all[j]
    <3>1. j \in 1 .. c \/ j = m
      BY <1>3
    <3>. QED BY <1>1, <1>3, <1>4, <3>1
  <2>. QED BY <2>1
<1>6. DOMAIN u = 1 .. m /\ u = [j \in DOMAIN u |-> u[j]]
  BY <1>4
<1>7. u = [j \in 1 .. m |-> all[j]]
  BY <1>5, <1>6
<1>. QED BY <1>1, <1>3, <1>4, <1>7 DEF Run

\* The empty run.
LEMMA RunStarts ==
    ASSUME NEW all
    PROVE  Run(<<>>, all, 0)
<1>1. 1 .. 0 = {}
  OBVIOUS
<1>2. [j \in 1 .. 0 |-> all[j]] = <<>>
  BY <1>1
<1>. QED BY <1>2 DEF Run

\* Both courses are sequences.
LEMMA CourseType ==
    ASSUME NEW K \in Seq(Strings), NEW p \in 0 .. Len(K)
    PROVE  /\ IsCourse(Forth(K, p), Len(K) - p)
           /\ \A m \in 1 .. (Len(K) - p) : Forth(K, p)[m] = K[p + m]
           /\ IsCourse(Back(K, p), p)
           /\ \A m \in 1 .. p : Back(K, p)[m] = K[(p - m) + 1]
<1>1. PICK n \in Nat : n = Len(K) /\ K \in [1 .. n -> Strings]
  OBVIOUS
<1>2. p \in Nat /\ p <= n
  BY <1>1
<1>3. ASSUME NEW j \in 1 .. (n - p) PROVE K[p + j] \in Strings
  <2>1. p + j \in 1 .. n
    BY <1>2
  <2>. QED BY <1>1, <2>1
<1>4. ASSUME NEW j \in 1 .. p PROVE K[(p - j) + 1] \in Strings
  <2>1. (p - j) + 1 \in 1 .. n
    BY <1>2
  <2>. QED BY <1>1, <2>1
<1>5. [j \in 1 .. (n - p) |-> K[p + j]] \in [1 .. (n - p) -> Strings]
  BY <1>3
<1>6. [j \in 1 .. p |-> K[(p - j) + 1]] \in [1 .. p -> Strings]
  BY <1>4
<1>7. ASSUME NEW m \in 1 .. (n - p) PROVE Forth(K, p)[m] = K[p + m]
  BY <1>1 DEF Forth
<1>8. ASSUME NEW m \in 1 .. p PROVE Back(K, p)[m] = K[(p - m) + 1]
  BY DEF Back
<1>9. IsCourse(Forth(K, p), n - p) /\ IsCourse(Back(K, p), p)
  BY <1>1, <1>5, <1>6 DEF Forth, Back, IsCourse
<1>. QED BY <1>1, <1>7, <1>8, <1>9

\* A walk by Next starts well.
LEMMA ForthStarts ==
    ASSUME NEW K \in Seq(Strings), NEW p \in 0 .. Len(K)
    PROVE  ForthInv(K, p, p, Returned(K, p, <<>>))
<1>1. PICK n \in Nat : n = Len(K)
  OBVIOUS
<1>2. p \in Nat /\ p <= n
  BY <1>1
<1>3. Run(<<>>, Forth(K, p), 0)
  BY RunStarts
<1>4. CASE p < n
  <2>1. PICK d \in Nat : d = n - p /\ 1 <= d
    BY <1>2, <1>4
  <2>2. IsCourse(Forth(K, p), d)
    BY <1>1, <2>1, CourseType
  <2>3. PICK c \in Nat, m \in 1 .. d : c = 0 /\ m = 1 /\ m = c + 1
    BY <2>1
  <2>4. Forth(K, p)[m] = K[p + m]
    BY <1>1, <2>1, CourseType
  <2>5. PICK x : x = K[p + 1] /\ x = Forth(K, p)[m]
    BY <2>3, <2>4
  <2>6. Run(Append(<<>>, x), Forth(K, p), m)
    BY <1>3, <2>2, <2>3, <2>5, RunGrows
  <2>7. Returned(K, p, <<>>) = Append(<<>>, x)
    BY <1>1, <1>2, <1>4, <2>5 DEF Returned
  <2>8. 1 \in 0 .. (Len(K) - p) /\ 1 >= 1 /\ p = p + (1 - 1)
    BY <1>1, <1>2, <2>1
  <2>. QED BY <2>3, <2>6, <2>7, <2>8 DEF ForthInv
<1>5. CASE p = n
  <2>1. Returned(K, p, <<>>) = <<>>
    BY <1>1, <1>5 DEF Returned
  <2>2. 0 \in 0 .. (Len(K) - p) /\ 0 = Len(K) - p /\ p = Len(K)
    BY <1>1, <1>2, <1>5
  <2>. QED BY <1>3, <2>1, <2>2 DEF ForthInv
<1>. QED BY <1>2, <1>4, <1>5

\* Next keeps a walk by Next.
LEMMA ForthGoes ==
    ASSUME NEW K \in Seq(Strings), NEW p \in 0 .. Len(K), NEW i, NEW s, ForthInv(K, p, i, s),
           NEW k, i \in 0 .. (Len(K) - 1) => k = i + 1, i = Len(K) => k = Len(K),
           i = -1 /\ Len(K) = 0 => k = 0
    PROVE  ForthInv(K, p, k, Returned(K, k, s))
<1>1. PICK n \in Nat : n = Len(K)
  OBVIOUS
<1>2. p \in Nat /\ p <= n
  BY <1>1
<1>3. PICK d \in Nat : d = n - p
  BY <1>2
<1>4. PICK c \in 0 .. d : /\ Run(s, Forth(K, p), c)
                          /\ \/ c >= 1 /\ i = p + (c - 1)
                             \/ c = d /\ (i = n \/ (i = -1 /\ n = 0))
  BY <1>1, <1>3 DEF ForthInv
<1>5. CASE c >= 1 /\ i = p + (c - 1) /\ c < d
  <2>1. i \in 0 .. (n - 1) /\ i + 1 = p + c /\ p + c < n
    BY <1>2, <1>3, <1>5
  <2>2. k = p + c
    BY <1>1, <2>1
  <2>3. PICK m \in 1 .. d : m = c + 1 /\ p + m = (p + c) + 1
    BY <1>2, <1>3, <1>5
  <2>4. PICK x : x = K[(p + c) + 1] /\ x = Forth(K, p)[m]
    <3>1. Forth(K, p)[m] = K[p + m]
      BY <1>1, <1>3, CourseType
    <3>. QED BY <2>3, <3>1
  <2>5. Returned(K, k, s) = Append(s, x)
    BY <1>1, <1>2, <2>1, <2>2, <2>4 DEF Returned
  <2>6. IsCourse(Forth(K, p), d)
    BY <1>1, <1>3, CourseType
  <2>7. Run(Append(s, x), Forth(K, p), m)
    <3>1. c \in Nat
      OBVIOUS
    <3>. QED BY <1>4, <2>3, <2>4, <2>6, <3>1, RunGrows
  <2>8. m \in 0 .. (Len(K) - p) /\ m >= 1 /\ k = p + (m - 1)
    BY <1>1, <1>2, <1>3, <1>5, <2>2, <2>3
  <2>. QED BY <2>5, <2>7, <2>8 DEF ForthInv
<1>6. CASE c = d
  <2>1. k = n
    <3>1. CASE c >= 1 /\ i = p + (c - 1)
      <4>1. i \in 0 .. (n - 1) /\ i + 1 = n
        BY <1>2, <1>3, <1>6, <3>1
      <4>. QED BY <1>1, <4>1
    <3>2. CASE i = n \/ (i = -1 /\ n = 0)
      BY <1>1, <3>2
    <3>. QED BY <1>4, <3>1, <3>2
  <2>2. Returned(K, k, s) = s
    BY <1>1, <2>1 DEF Returned
  <2>3. c \in 0 .. (Len(K) - p) /\ c = Len(K) - p /\ k = Len(K)
    BY <1>1, <1>3, <1>6, <2>1
  <2>. QED BY <1>4, <2>2, <2>3 DEF ForthInv
<1>. QED BY <1>3, <1>4, <1>5, <1>6

\* A walk by Prev starts well.
LEMMA BackStarts ==
    ASSUME NEW K \in Seq(Strings), NEW e \in 0 .. Len(K)
    PROVE  BackInv(K, e, e - 1, Returned(K, e - 1, <<>>))
<1>1. PICK n \in Nat : n = Len(K)
  OBVIOUS
<1>2. e \in Nat /\ e <= n
  BY <1>1
<1>3. Run(<<>>, Back(K, e), 0)
  BY RunStarts
<1>4. CASE e > 0
  <2>1. IsCourse(Back(K, e), e)
    BY <1>1, CourseType
  <2>2. PICK c \in Nat, m \in 1 .. e : c = 0 /\ m = 1 /\ m = c + 1
    BY <1>2, <1>4
  <2>3. Back(K, e)[m] = K[(e - m) + 1]
    BY <1>1, CourseType
  <2>4. PICK x : x = K[(e - 1) + 1] /\ x = Back(K, e)[m]
    BY <2>2, <2>3
  <2>5. Run(Append(<<>>, x), Back(K, e), m)
    BY <1>2, <1>3, <2>1, <2>2, <2>4, RunGrows
  <2>6. Returned(K, e - 1, <<>>) = Append(<<>>, x)
    BY <1>1, <1>2, <1>4, <2>4 DEF Returned
  <2>7. 1 \in 0 .. e /\ 1 >= 1
    BY <1>2, <1>4
  <2>. QED BY <2>2, <2>5, <2>6, <2>7 DEF BackInv
<1>5. CASE e = 0
  <2>1. Returned(K, e - 1, <<>>) = <<>>
    BY <1>1, <1>5 DEF Returned
  <2>2. 0 \in 0 .. e /\ 0 = e /\ e - 1 = -1
    BY <1>5
  <2>. QED BY <1>3, <2>1, <2>2 DEF BackInv
<1>. QED BY <1>2, <1>4, <1>5

\* Prev keeps a walk by Prev.
LEMMA BackGoes ==
    ASSUME NEW K \in Seq(Strings), NEW e \in 0 .. Len(K), NEW i, NEW s, BackInv(K, e, i, s),
           NEW k, i \in 0 .. (Len(K) - 1) => k = i - 1, i = -1 => k = -1,
           i = 0 /\ Len(K) = 0 => k = -1
    PROVE  BackInv(K, e, k, Returned(K, k, s))
<1>1. PICK n \in Nat : n = Len(K)
  OBVIOUS
<1>2. e \in Nat /\ e <= n
  BY <1>1
<1>4. PICK c \in 0 .. e : /\ Run(s, Back(K, e), c)
                          /\ \/ c >= 1 /\ i = e - c
                             \/ c = e /\ (i = -1 \/ (i = 0 /\ n = 0))
  BY <1>1 DEF BackInv
<1>5. CASE c >= 1 /\ i = e - c /\ c < e
  <2>1. i \in 0 .. (n - 1) /\ i - 1 = (e - c) - 1
    BY <1>2, <1>5
  <2>2. k = (e - c) - 1
    BY <1>1, <2>1
  <2>3. PICK m \in 1 .. e : m = c + 1 /\ (e - m) + 1 = e - c
    BY <1>2, <1>5
  <2>4. PICK x : x = K[e - c] /\ x = Back(K, e)[m]
    <3>1. Back(K, e)[m] = K[(e - m) + 1]
      BY <1>1, CourseType
    <3>. QED BY <2>3, <3>1
  <2>5. k + 1 = e - c /\ k >= 0 /\ k < n
    BY <1>2, <1>5, <2>2
  <2>6. Returned(K, k, s) = Append(s, x)
    BY <1>1, <2>4, <2>5 DEF Returned
  <2>7. IsCourse(Back(K, e), e)
    BY <1>1, CourseType
  <2>8. Run(Append(s, x), Back(K, e), m)
    <3>1. c \in Nat
      BY <1>2
    <3>. QED BY <1>2, <1>4, <2>3, <2>4, <2>7, <3>1, RunGrows
  <2>9. m \in 0 .. e /\ m >= 1 /\ k = e - m
    BY <1>2, <1>5, <2>2, <2>3
  <2>. QED BY <2>6, <2>8, <2>9 DEF BackInv
<1>6. CASE c = e
  <2>1. k = -1
    <3>1. CASE c >= 1 /\ i = e - c
      <4>1. i = 0 /\ i \in 0 .. (n - 1)
        BY <1>2, <1>6, <3>1
      <4>. QED BY <1>1, <4>1
    <3>2. CASE i = -1 \/ (i = 0 /\ n = 0)
      BY <1>1, <3>2
    <3>. QED BY <1>4, <3>1, <3>2
  <2>2. Returned(K, k, s) = s
    BY <1>1, <2>1 DEF Returned
  <2>. QED BY <1>4, <1>6, <2>1, <2>2 DEF BackInv
<1>. QED BY <1>4, <1>5, <1>6

\* The keys asked for, from the start of a walk on, are its course.
LEMMA CourseIsSlice ==
    ASSUME NEW K \in Seq(Strings), NEW p \in 0 .. Len(K)
    PROVE  Forth(K, p) = SubSeq(K, p + 1, Len(K)) /\ Back(K, p) = Reverse(SubSeq(K, 1, p))
<1>1. PICK n \in Nat : n = Len(K)
  OBVIOUS
<1>2. p \in Nat /\ p <= n
  BY <1>1
<1>3. PICK d \in Nat : d = n - p
  BY <1>2
<1>4. Forth(K, p) = SubSeq(K, p + 1, n)
  <2>1. PICK u \in Seq(Strings) : u = SubSeq(K, p + 1, n)
    <3>1. SubSeq(K, p + 1, n) \in Seq(Strings)
      BY <1>1, <1>2
    <3>. QED BY <3>1
  <2>2. Len(u) = d
    BY <1>1, <1>2, <1>3, <2>1
  <2>3. ASSUME NEW j \in 1 .. d PROVE u[j] = K[p + j]
    BY <1>1, <1>2, <1>3, <2>1
  <2>4. DOMAIN u = 1 .. d /\ u = [j \in DOMAIN u |-> u[j]]
    BY <2>2
  <2>5. u = [j \in 1 .. d |-> K[p + j]]
    BY <2>3, <2>4
  <2>. QED BY <1>1, <1>3, <2>1, <2>5 DEF Forth
<1>5. Back(K, p) = Reverse(SubSeq(K, 1, p))
  <2>1. PICK u \in Seq(Strings) : u = SubSeq(K, 1, p)
    <3>1. SubSeq(K, 1, p) \in Seq(Strings)
      BY <1>1, <1>2
    <3>. QED BY <3>1
  <2>2. Len(u) = p
    BY <1>1, <1>2, <2>1
  <2>3. ASSUME NEW j \in 1 .. p PROVE u[j] = K[j]
    BY <1>1, <1>2, <2>1
  <2>4. ASSUME NEW j \in 1 .. p PROVE u[(p - j) + 1] = K[(p - j) + 1]
    <3>1. PICK m \in 1 .. p : m = (p - j) + 1
      BY <1>2
    <3>2. u[m] = K[m]
      BY <2>3
    <3>. QED BY <3>1, <3>2
  <2>5. Reverse(u) = [j \in 1 .. p |-> u[(p - j) + 1]]
    BY <2>2 DEF Reverse
  <2>6. Reverse(u) = [j \in 1 .. p |-> K[(p - j) + 1]]
    BY <2>4, <2>5
  <2>. QED BY <2>1, <2>6 DEF Back
<1>. QED BY <1>1, <1>4, <1>5

\* The course of a walk that has a target, and of one that has none.
LEMMA CourseIsAsked ==
    ASSUME NEW A \in SUBSET Strings, NEW K, Enumerates(K, A), NEW t \in Strings
    PROVE  /\ SearchStrings(K, t) \in 0 .. Len(K)
           /\ Forth(K, SearchStrings(K, t)) = Sorted({k \in A : ~ BytesLess(k, t)})
           /\ Back(K, SearchStrings(K, t)) = Reverse(Sorted({k \in A : BytesLess(k, t)}))
<1>1. K \in Seq(A) /\ Increasing(K)
  BY DEF Enumerates
<1>2. K \in Seq(Strings)
  <2>1. Len(K) \in Nat /\ K \in [1 .. Len(K) -> A]
    BY <1>1
  <2>2. K \in [1 .. Len(K) -> Strings]
    BY <2>1
  <2>. QED BY <2>1, <2>2
<1>3. PICK p \in 0 .. Len(K) : p = SearchStrings(K, t)
  BY <1>1, SearchCuts
<1>4. Enumerates(SubSeq(K, 1, p), {k \in A : BytesLess(k, t)})
  BY <1>3, PartsEnumerate
<1>5. Enumerates(SubSeq(K, p + 1, Len(K)), {k \in A : ~ BytesLess(k, t)})
  BY <1>3, PartsEnumerate
<1>6. PICK B \in SUBSET Strings : B = {k \in A : BytesLess(k, t)}
  OBVIOUS
<1>7. PICK C \in SUBSET Strings : C = {k \in A : ~ BytesLess(k, t)}
  OBVIOUS
<1>8. SubSeq(K, 1, p) = Sorted(B)
  BY <1>4, <1>6, EnumerationIsSorted
<1>9. SubSeq(K, p + 1, Len(K)) = Sorted(C)
  BY <1>5, <1>7, EnumerationIsSorted
<1>10. Forth(K, p) = SubSeq(K, p + 1, Len(K)) /\ Back(K, p) = Reverse(SubSeq(K, 1, p))
  BY <1>2, CourseIsSlice
<1>. QED BY <1>3, <1>6, <1>7, <1>8, <1>9, <1>10

\* Without a target a walk runs over all keys.
LEMMA WholeCourse ==
    ASSUME NEW A \in SUBSET Strings, NEW K, Enumerates(K, A)
    PROVE  /\ K \in Seq(Strings) /\ Increasing(K)
           /\ Forth(K, 0) = Sorted(A) /\ Back(K, Len(K)) = Reverse(Sorted(A))
<1>1. K \in Seq(A) /\ Increasing(K)
  BY DEF Enumerates
<1>2. K \in Seq(Strings)
  <2>1. Len(K) \in Nat /\ K \in [1 .. Len(K) -> A]
    BY <1>1
  <2>2. K \in [1 .. Len(K) -> Strings]
    BY <2>1
  <2>. QED BY <2>1, <2>2
<1>3. K = Sorted(A)
  BY EnumerationIsSorted
<1>4. PICK n \in Nat : n = Len(K)
  BY <1>2
<1>5. Forth(K, 0) = K /\ Back(K, n) = Reverse(K)
  <2>1. \A j \in 1 .. n : 0 + j = j
    OBVIOUS
  <2>2. K = [j \in 1 .. n |-> K[j]] /\ n - 0 = n
    BY <1>2, <1>4
  <2>3. Forth(K, 0) = [j \in 1 .. n |-> K[0 + j]]
    BY <1>4, <2>2 DEF Forth
  <2>4. Forth(K, 0) = K
    BY <2>1, <2>2, <2>3
  <2>5. Back(K, n) = Reverse(K)
    BY <1>4 DEF Back, Reverse
  <2>. QED BY <2>4, <2>5
<1>. QED BY <1>1, <1>2, <1>3, <1>4, <1>5

\* The keys that entries are stored under, and those of them asked for.
Holds(store, es) == store = {StorageKey(e) : e \in es}
AskedKeys(store, o) == {k \in store : Asked(k, o)}

\* The keys of an iterator are in order, whatever its options and engine.
LEMMA KeysAreSorted ==
    ASSUME NEW es, NEW eng, NEW o, Sound(es, eng, o), NEW store, Holds(store, es)
    PROVE  /\ store \in SUBSET Strings
           /\ \E A \in SUBSET store :
                 /\ Enumerates(KeysOf(eng, store, o), A)
                 /\ Plain(o) \/ eng = "memory" => A = AskedKeys(store, o)
<1>. USE DEF AskedKeys
<1>1. store \in SUBSET Strings /\ IsFiniteSet(store)
  BY StoreType DEF Sound, Holds
<1>2. Typed(o)
  BY StoreIsWritten DEF Sound, Typed
<1>3. PICK A \in SUBSET store : A = {k \in store : Asked(k, o)}
  OBVIOUS
<1>4. CASE eng = "memory"
  <2>1. Enumerates(MemoryKeys(store, o), A)
    BY <1>1, <1>2, <1>3, MemoryKeysAreAsked
  <2>2. Enumerates(KeysOf(eng, store, o), A)
    BY <1>4, <2>1 DEF KeysOf
  <2>. QED BY <1>1, <1>3, <2>2
<1>5. CASE eng # "memory" /\ Plain(o)
  <2>1. Enumerates(PebbleKeys(store, o), A)
    BY <1>1, <1>2, <1>3, <1>5, PebbleKeysAreAsked
  <2>2. Enumerates(KeysOf(eng, store, o), A)
    BY <1>5, <2>1 DEF KeysOf
  <2>. QED BY <1>1, <1>3, <2>2
<1>6. CASE eng # "memory" /\ ~ Plain(o)
  <2>1. PICK B \in SUBSET store :
           B = {k \in store : InBounds(k, IF o.prefix # Nil THEN o.prefix ELSE o.lower,
                                       IF o.prefix # Nil THEN PrefixUpperBound(o.prefix) ELSE o.upper)}
    OBVIOUS
  <2>2. KeysOf(eng, store, o) = Sorted(B)
    BY <1>6, <2>1 DEF KeysOf, PebbleKeys
  <2>3. B \in SUBSET Strings /\ IsFiniteSet(B)
    BY <1>1, FS_Subset
  <2>4. Enumerates(Sorted(B), B)
    BY <2>3, SortedEnumerates
  <2>5. Enumerates(KeysOf(eng, store, o), B)
    BY <2>2, <2>4
  <2>. QED BY <1>1, <1>6, <2>5
<1>. QED BY <1>4, <1>5, <1>6

\* Where a walk with this target, or none, starts.
Place(K, t, none) == IF t = Nil THEN none ELSE SearchStrings(K, t)

\* The walk of an iterator, and what it has returned.
WalkInv(K, i, w, s) ==
    /\ i \in -1 .. Len(K)
    /\ w.target = Nil \/ w.target \in Targets
    /\ w.way = "forward" => ForthInv(K, Place(K, w.target, 0), i, s)
    /\ w.way = "backward" => BackInv(K, Place(K, w.target, Len(K)), i, s)

\* A walk starts inside the keys.
LEMMA PlaceType ==
    ASSUME NEW K \in Seq(Strings), Increasing(K), NEW t, t = Nil \/ t \in Targets
    PROVE  Place(K, t, 0) \in 0 .. Len(K) /\ Place(K, t, Len(K)) \in 0 .. Len(K)
<1>1. Len(K) \in Nat
  OBVIOUS
<1>2. CASE t = Nil
  BY <1>1, <1>2 DEF Place
<1>3. CASE t # Nil
  <2>1. t \in Strings
    BY <1>3, StoreIsWritten, BytesAreStrings
  <2>2. PICK A : A = Strings
    OBVIOUS
  <2>3. SearchStrings(K, t) \in 0 .. Len(K)
    BY <2>1, <2>2, SearchCuts
  <2>. QED BY <1>3, <2>3 DEF Place
<1>. QED BY <1>2, <1>3

\* A new walk by Next, or by Prev.
LEMMA NewWalk ==
    ASSUME NEW K \in Seq(Strings), Increasing(K), NEW t, t = Nil \/ t \in Targets
    PROVE  /\ ForthInv(K, Place(K, t, 0), Place(K, t, 0), Returned(K, Place(K, t, 0), <<>>))
           /\ BackInv(K, Place(K, t, Len(K)), Place(K, t, Len(K)) - 1,
                      Returned(K, Place(K, t, Len(K)) - 1, <<>>))
<1>1. PICK p \in 0 .. Len(K) : p = Place(K, t, 0)
  BY PlaceType
<1>2. PICK e \in 0 .. Len(K) : e = Place(K, t, Len(K))
  BY PlaceType
<1>3. ForthInv(K, p, p, Returned(K, p, <<>>))
  BY ForthStarts
<1>4. BackInv(K, e, e - 1, Returned(K, e - 1, <<>>))
  BY BackStarts
<1>. QED BY <1>1, <1>2, <1>3, <1>4

\* A walk over no keys returns none.
LEMMA EmptyWalk ==
    ASSUME NEW K \in Seq(Strings), Len(K) = 0, NEW i \in -1 .. 0
    PROVE  /\ ForthInv(K, Place(K, Nil, 0), i, Returned(K, i, <<>>))
           /\ BackInv(K, Place(K, Nil, Len(K)), i, Returned(K, i, <<>>))
<1>1. Place(K, Nil, 0) = 0 /\ Place(K, Nil, Len(K)) = 0
  BY DEF Place
<1>2. Returned(K, i, <<>>) = <<>>
  BY DEF Returned
<1>3. i = 0 \/ i = -1
  OBVIOUS
<1>4. ForthInv(K, 0, i, <<>>)
  <2>1. Run(<<>>, Forth(K, 0), 0)
    BY RunStarts
  <2>2. 0 \in 0 .. (Len(K) - 0) /\ 0 = Len(K) - 0
    OBVIOUS
  <2>. QED BY <1>3, <2>1, <2>2 DEF ForthInv
<1>5. BackInv(K, 0, i, <<>>)
  <2>1. Run(<<>>, Back(K, 0), 0)
    BY RunStarts
  <2>2. 0 \in 0 .. 0
    OBVIOUS
  <2>. QED BY <1>3, <2>1, <2>2 DEF BackInv
<1>. QED BY <1>1, <1>2, <1>4, <1>5

\* Every move keeps the walk.
LEMMA StepKeepsWalk ==
    ASSUME keys \in Seq(Strings), Increasing(keys), engine \in {"memory", "pebble"},
           WalkInv(keys, index, walk, seen), Next
    PROVE  WalkInv(keys, index', walk', seen')
<1>1. PICK n \in Nat : n = Len(keys)
  OBVIOUS
<1>2. index \in -1 .. n /\ index \in Int
  BY <1>1 DEF WalkInv
<1>3. (keys # <<>>) <=> n > 0
  BY <1>1
<1>4. ASSUME NEW i, NEW w, NEW before, MoveTo(i, w, before)
      PROVE  index' = i /\ walk' = w /\ (w # NoWalk => seen' = Returned(keys, i, before))
  BY <1>4 DEF MoveTo, Valid, Returned
<1>5. ASSUME NEW way, NEW t
      PROVE  /\ Walk(way, t).way = way /\ Walk(way, t).target = t
             /\ way # "none" => Walk(way, t) # NoWalk
  BY DEF Walk, NoWalk
<1>6. NoWalk.way = "none" /\ NoWalk.target = Nil
  BY DEF NoWalk, Walk
<1>7. ASSUME NEW t \in Targets, SeekGE(t) PROVE WalkInv(keys, index', walk', seen')
  <2>1. t # Nil
    BY StoreIsWritten, BytesAreStrings
  <2>2. PICK p : p = Place(keys, t, 0) /\ p = SearchStrings(keys, t)
    BY <2>1 DEF Place
  <2>3. p \in 0 .. n
    BY <1>1, <2>2, PlaceType
  <2>4. ForthInv(keys, p, p, Returned(keys, p, <<>>))
    BY <2>2, NewWalk
  <2>5. MoveTo(p, Walk("forward", t), <<>>)
    BY <1>7, <2>2 DEF SeekGE
  <2>6. index' = p /\ walk'.way = "forward" /\ walk'.target = t /\ seen' = Returned(keys, p, <<>>)
    BY <1>4, <1>5, <2>5
  <2>. QED BY <1>1, <2>2, <2>3, <2>4, <2>6 DEF WalkInv
<1>8. ASSUME NEW t \in Targets, SeekLT(t) PROVE WalkInv(keys, index', walk', seen')
  <2>1. t # Nil
    BY StoreIsWritten, BytesAreStrings
  <2>2. PICK e : e = Place(keys, t, Len(keys)) /\ e = SearchStrings(keys, t)
    BY <2>1 DEF Place
  <2>3. e \in 0 .. n
    BY <1>1, <2>2, PlaceType
  <2>4. BackInv(keys, e, e - 1, Returned(keys, e - 1, <<>>))
    BY <2>2, NewWalk
  <2>5. MoveTo(e - 1, Walk("backward", t), <<>>)
    BY <1>8, <2>2 DEF SeekLT
  <2>6. /\ index' = e - 1 /\ walk'.way = "backward" /\ walk'.target = t
        /\ seen' = Returned(keys, e - 1, <<>>)
    BY <1>4, <1>5, <2>5
  <2>7. e - 1 \in -1 .. n
    BY <2>3
  <2>. QED BY <1>1, <2>2, <2>4, <2>6, <2>7 DEF WalkInv
<1>9. ASSUME FirstKey PROVE WalkInv(keys, index', walk', seen')
  <2>1. PICK i : i = IF keys # <<>> THEN 0 ELSE index
    OBVIOUS
  <2>2. MoveTo(i, Walk("forward", Nil), <<>>)
    BY <1>9, <2>1 DEF FirstKey
  <2>3. index' = i /\ walk'.way = "forward" /\ walk'.target = Nil /\ seen' = Returned(keys, i, <<>>)
    BY <1>4, <1>5, <2>2
  <2>4. i \in -1 .. n
    BY <1>2, <1>3, <2>1
  <2>5. ForthInv(keys, Place(keys, Nil, 0), i, Returned(keys, i, <<>>))
    <3>1. CASE keys # <<>>
      <4>1. Place(keys, Nil, 0) = i
        BY <2>1, <3>1 DEF Place
      <4>. QED BY <4>1, NewWalk
    <3>2. CASE keys = <<>>
      <4>1. Len(keys) = 0 /\ i \in -1 .. 0
        BY <1>1, <1>2, <1>3, <2>1, <3>2
      <4>. QED BY <4>1, EmptyWalk
    <3>. QED BY <3>1, <3>2
  <2>. QED BY <1>1, <2>3, <2>4, <2>5 DEF WalkInv
<1>10. ASSUME LastKey PROVE WalkInv(keys, index', walk', seen')
  <2>1. PICK i : i = IF keys # <<>> THEN Len(keys) - 1 ELSE index
    OBVIOUS
  <2>2. MoveTo(i, Walk("backward", Nil), <<>>)
    BY <1>10, <2>1 DEF LastKey
  <2>3. index' = i /\ walk'.way = "backward" /\ walk'.target = Nil /\ seen' = Returned(keys, i, <<>>)
    BY <1>4, <1>5, <2>2
  <2>4. i \in -1 .. n
    BY <1>1, <1>2, <1>3, <2>1
  <2>5. BackInv(keys, Place(keys, Nil, Len(keys)), i, Returned(keys, i, <<>>))
    <3>1. CASE keys # <<>>
      <4>1. Place(keys, Nil, Len(keys)) - 1 = i
        BY <2>1, <3>1 DEF Place
      <4>. QED BY <4>1, NewWalk
    <3>2. CASE keys = <<>>
      <4>1. Len(keys) = 0 /\ i \in -1 .. 0
        BY <1>1, <1>2, <1>3, <2>1, <3>2
      <4>. QED BY <4>1, EmptyWalk
    <3>. QED BY <3>1, <3>2
  <2>. QED BY <1>1, <2>3, <2>4, <2>5 DEF WalkInv
<1>11. ASSUME NextKey PROVE WalkInv(keys, index', walk', seen')
  <2>1. PICK k : k = IF engine = "memory" THEN NextIndex(index) ELSE PebbleNextIndex(index)
    OBVIOUS
  <2>2. PebbleNextIndex(index) = IF index < n THEN index + 1 ELSE n
    <3>1. PICK a \in Int : a = index + 1
      BY <1>2
    <3>2. Min({a, n}) = IF a <= n THEN a ELSE n
      <4>1. PICK m : m = Min({a, n})
        OBVIOUS
      <4>2. \E x \in {a, n} : \A y \in {a, n} : x =< y
        BY <3>1
      <4>3. m \in {a, n} /\ \A y \in {a, n} : m =< y
        BY <4>1, <4>2 DEF Min
      <4>. QED BY <3>1, <4>1, <4>3
    <3>. QED BY <1>1, <1>2, <3>1, <3>2 DEF PebbleNextIndex
  <2>3. /\ k \in -1 .. n
        /\ index \in 0 .. (n - 1) => k = index + 1
        /\ index = n => k = n
        /\ index = -1 /\ n = 0 => k = 0
    BY <1>1, <1>2, <2>1, <2>2 DEF NextIndex
  <2>4. MoveTo(k, Onward("forward"), seen)
    BY <1>11, <2>1 DEF NextKey
  <2>5. CASE walk.way = "forward"
    <3>1. Onward("forward") = walk /\ walk # NoWalk
      BY <1>6, <2>5 DEF Onward
    <3>2. index' = k /\ walk' = walk /\ seen' = Returned(keys, k, seen)
      BY <1>4, <2>4, <3>1
    <3>3. PICK p \in 0 .. Len(keys) : p = Place(keys, walk.target, 0)
      BY PlaceType DEF WalkInv
    <3>4. ForthInv(keys, p, index, seen)
      BY <2>5, <3>3 DEF WalkInv
    <3>5. ForthInv(keys, p, k, Returned(keys, k, seen))
      BY <1>1, <2>3, <3>4, ForthGoes
    <3>. QED BY <1>1, <2>3, <2>5, <3>2, <3>3, <3>5 DEF WalkInv
  <2>6. CASE walk.way # "forward"
    <3>1. index' = k /\ walk' = NoWalk
      BY <1>4, <2>4, <2>6 DEF Onward
    <3>. QED BY <1>1, <1>6, <2>3, <3>1 DEF WalkInv
  <2>. QED BY <2>5, <2>6
<1>12. ASSUME PrevKey PROVE WalkInv(keys, index', walk', seen')
  <2>1. PICK k : k = IF engine = "memory" THEN PrevIndex(index) ELSE PebblePrevIndex(index)
    OBVIOUS
  <2>2. PebblePrevIndex(index) = IF index >= 0 THEN index - 1 ELSE -1
    <3>1. PICK a \in Int : a = index - 1
      BY <1>2
    <3>2. PICK b \in Int : b = -1
      OBVIOUS
    <3>3. Max({a, b}) = IF a >= b THEN a ELSE b
      <4>1. PICK m : m = Max({a, b})
        OBVIOUS
      <4>2. \E x \in {a, b} : \A y \in {a, b} : x >= y
        BY <3>1, <3>2
      <4>3. m \in {a, b} /\ \A y \in {a, b} : m >= y
        BY <4>1, <4>2 DEF Max
      <4>. QED BY <3>1, <3>2, <4>1, <4>3
    <3>. QED BY <1>2, <3>1, <3>2, <3>3 DEF PebblePrevIndex
  <2>3. /\ k \in -1 .. n
        /\ index \in 0 .. (n - 1) => k = index - 1
        /\ index = -1 => k = -1
        /\ index = 0 /\ n = 0 => k = -1
    BY <1>1, <1>2, <2>1, <2>2 DEF PrevIndex
  <2>4. MoveTo(k, Onward("backward"), seen)
    BY <1>12, <2>1 DEF PrevKey
  <2>5. CASE walk.way = "backward"
    <3>1. Onward("backward") = walk /\ walk # NoWalk
      BY <1>6, <2>5 DEF Onward
    <3>2. index' = k /\ walk' = walk /\ seen' = Returned(keys, k, seen)
      BY <1>4, <2>4, <3>1
    <3>3. PICK e \in 0 .. Len(keys) : e = Place(keys, walk.target, Len(keys))
      BY PlaceType DEF WalkInv
    <3>4. BackInv(keys, e, index, seen)
      BY <2>5, <3>3 DEF WalkInv
    <3>5. BackInv(keys, e, k, Returned(keys, k, seen))
      BY <1>1, <2>3, <3>4, BackGoes
    <3>. QED BY <1>1, <2>3, <2>5, <3>2, <3>3, <3>5 DEF WalkInv
  <2>6. CASE walk.way # "backward"
    <3>1. index' = k /\ walk' = NoWalk
      BY <1>4, <2>4, <2>6 DEF Onward
    <3>. QED BY <1>1, <1>6, <2>3, <3>1 DEF WalkInv
  <2>. QED BY <2>5, <2>6
<1>. QED BY <1>7, <1>8, <1>9, <1>10, <1>11, <1>12 DEF Next

\* What a walk has returned is the start of its course, and all of it at the end.
LEMMA RunIsPrefix ==
    ASSUME NEW n \in Nat, NEW all, IsCourse(all, n), NEW c \in 0 .. n, NEW s, Run(s, all, c)
    PROVE  IsPrefix(s, all) /\ (c = n => s = all)
<1>1. PICK S : S = Strings
  OBVIOUS
<1>2. PICK u \in [1 .. n -> S] : u = all
  BY <1>1 DEF IsCourse
<1>3. u \in Seq(S) /\ Len(u) = n
  OBVIOUS
<1>4. PICK r \in [1 .. c -> S] : r = s /\ \A j \in 1 .. c : r[j] = u[j]
  <2>1. \A j \in 1 .. c : j \in 1 .. n
    OBVIOUS
  <2>2. [j \in 1 .. c |-> u[j]] \in [1 .. c -> S]
    BY <2>1
  <2>. QED BY <1>2, <2>2 DEF Run
<1>5. c \in Nat /\ r \in Seq(S) /\ Len(r) = c
  OBVIOUS
<1>6. IsPrefix(r, u)
  <2>1. Len(r) <= Len(u) /\ \A j \in 1 .. Len(r) : r[j] = u[j]
    BY <1>3, <1>4, <1>5
  <2>. QED BY <1>3, <1>5, <2>1, PrefixElements
<1>7. c = n => r = u
  BY <1>4
<1>. QED BY <1>2, <1>4, <1>6, <1>7

\* What the invariant says of a walk's keys.
LEMMA WalkReturns ==
    ASSUME NEW K \in Seq(Strings), NEW p \in 0 .. Len(K), NEW i, NEW s
    PROVE  /\ ForthInv(K, p, i, s) =>
                IsPrefix(s, Forth(K, p)) /\ (~ (i >= 0 /\ i < Len(K)) => s = Forth(K, p))
           /\ BackInv(K, p, i, s) =>
                IsPrefix(s, Back(K, p)) /\ (~ (i >= 0 /\ i < Len(K)) => s = Back(K, p))
<1>1. PICK n \in Nat : n = Len(K)
  OBVIOUS
<1>2. p \in Nat /\ p <= n
  BY <1>1
<1>3. PICK d \in Nat : d = n - p
  BY <1>2
<1>4. IsCourse(Forth(K, p), d) /\ IsCourse(Back(K, p), p)
  BY <1>1, <1>3, CourseType
<1>5. ASSUME ForthInv(K, p, i, s)
      PROVE  IsPrefix(s, Forth(K, p)) /\ (~ (i >= 0 /\ i < n) => s = Forth(K, p))
  <2>1. PICK c \in 0 .. d : /\ Run(s, Forth(K, p), c)
                            /\ \/ c >= 1 /\ i = p + (c - 1)
                               \/ c = d
    BY <1>1, <1>3, <1>5 DEF ForthInv
  <2>2. IsPrefix(s, Forth(K, p)) /\ (c = d => s = Forth(K, p))
    BY <1>4, <2>1, RunIsPrefix
  <2>3. c >= 1 /\ i = p + (c - 1) => i >= 0 /\ i < n
    BY <1>2, <1>3
  <2>. QED BY <2>1, <2>2, <2>3
<1>6. ASSUME BackInv(K, p, i, s)
      PROVE  IsPrefix(s, Back(K, p)) /\ (~ (i >= 0 /\ i < n) => s = Back(K, p))
  <2>1. PICK c \in 0 .. p : /\ Run(s, Back(K, p), c)
                            /\ \/ c >= 1 /\ i = p - c
                               \/ c = p
    BY <1>6 DEF BackInv
  <2>2. IsPrefix(s, Back(K, p)) /\ (c = p => s = Back(K, p))
    BY <1>2, <1>4, <2>1, RunIsPrefix
  <2>3. c >= 1 /\ i = p - c => i >= 0 /\ i < n
    BY <1>2
  <2>. QED BY <2>1, <2>2, <2>3
<1>. QED BY <1>1, <1>5, <1>6

\* The inductive invariant of an iterator: its keys are those of its options, and
\* its position and what it has returned are those of its walk.
IteratorInv ==
    /\ Sound(entries, engine, options)
    /\ keys = KeysOf(engine, Store, options)
    /\ WalkInv(keys, index, walk, seen)

\* The invariant says that walks are complete.
LEMMA InvariantCompletesWalks ==
    ASSUME IteratorInv
    PROVE  WalksAreComplete
<1>1. PICK store : store = Store
  OBVIOUS
<1>2. /\ Holds(store, entries) /\ Sound(entries, engine, options)
      /\ keys = KeysOf(engine, store, options)
  BY <1>1 DEF IteratorInv, Store, Holds
<1>3. /\ store \in SUBSET Strings
      /\ \E A \in SUBSET store :
            /\ Enumerates(keys, A)
            /\ Plain(options) \/ engine = "memory" => A = AskedKeys(store, options)
  BY <1>2, KeysAreSorted
<1>0. PICK A \in SUBSET store :
         /\ Enumerates(keys, A)
         /\ Plain(options) \/ engine = "memory" => A = AskedKeys(store, options)
  BY <1>3
<1>4. A \in SUBSET Strings
  BY <1>3
<1>5. /\ keys \in Seq(Strings) /\ Increasing(keys)
      /\ Forth(keys, 0) = Sorted(A) /\ Back(keys, Len(keys)) = Reverse(Sorted(A))
  BY <1>0, <1>4, WholeCourse
<1>6. PICK t : t = walk.target /\ (t = Nil \/ t \in Targets)
  BY DEF IteratorInv, WalkInv
<1>7. t # Nil => t \in Strings
  BY <1>6, StoreIsWritten, BytesAreStrings
<1>. SUFFICES ASSUME walk.way \in {"forward", "backward"},
                     Plain(options) \/ engine = "memory"
              PROVE  LET forward == walk.way = "forward"
                         onSide(k) == \/ walk.target = Nil
                                      \/ forward <=> ~ BytesLess(k, walk.target)
                         asked == Sorted({k \in Store : Asked(k, options) /\ onSide(k)})
                         all == IF forward THEN asked ELSE Reverse(asked)
                     IN  IsPrefix(seen, all) /\ (~ Valid(index) => seen = all)
  BY DEF WalksAreComplete
<1>8. A = {k \in store : Asked(k, options)}
  BY <1>0 DEF AskedKeys
<1>9. CASE walk.way = "forward"
  <2>1. PICK p \in 0 .. Len(keys) : p = Place(keys, t, 0)
    BY <1>5, <1>6, PlaceType
  <2>2. ForthInv(keys, p, index, seen)
    BY <1>6, <1>9, <2>1 DEF IteratorInv, WalkInv
  <2>3. PICK all : all = Forth(keys, p)
    OBVIOUS
  <2>4. IsPrefix(seen, all) /\ (~ Valid(index) => seen = all)
    BY <1>5, <2>2, <2>3, WalkReturns DEF Valid
  <2>5. PICK B : B = {k \in Store : /\ Asked(k, options)
                                    /\ \/ walk.target = Nil
                                       \/ walk.way = "forward" <=> ~ BytesLess(k, walk.target)}
    OBVIOUS
  <2>6. all = Sorted(B)
    <3>1. CASE t = Nil
      <4>1. B = A
        BY <1>1, <1>6, <1>8, <2>5, <3>1
      <4>2. p = 0
        BY <2>1, <3>1 DEF Place
      <4>. QED BY <1>5, <2>3, <4>1, <4>2
    <3>2. CASE t # Nil
      <4>1. B = {k \in A : ~ BytesLess(k, t)}
        BY <1>1, <1>6, <1>8, <1>9, <2>5, <3>2
      <4>2. p = SearchStrings(keys, t)
        BY <2>1, <3>2 DEF Place
      <4>3. Forth(keys, SearchStrings(keys, t)) = Sorted({k \in A : ~ BytesLess(k, t)})
        BY <1>0, <1>4, <1>7, <3>2, CourseIsAsked
      <4>. QED BY <2>3, <4>1, <4>2, <4>3
    <3>. QED BY <3>1, <3>2
  <2>. QED BY <1>9, <2>4, <2>5, <2>6
<1>10. CASE walk.way = "backward"
  <2>1. PICK e \in 0 .. Len(keys) : e = Place(keys, t, Len(keys))
    BY <1>5, <1>6, PlaceType
  <2>2. BackInv(keys, e, index, seen)
    BY <1>6, <1>10, <2>1 DEF IteratorInv, WalkInv
  <2>3. PICK all : all = Back(keys, e)
    OBVIOUS
  <2>4. IsPrefix(seen, all) /\ (~ Valid(index) => seen = all)
    BY <1>5, <2>2, <2>3, WalkReturns DEF Valid
  <2>5. PICK B : B = {k \in Store : /\ Asked(k, options)
                                    /\ \/ walk.target = Nil
                                       \/ walk.way = "forward" <=> ~ BytesLess(k, walk.target)}
    OBVIOUS
  <2>6. all = Reverse(Sorted(B))
    <3>1. CASE t = Nil
      <4>1. B = A
        BY <1>1, <1>6, <1>8, <2>5, <3>1
      <4>2. e = Len(keys)
        BY <2>1, <3>1 DEF Place
      <4>. QED BY <1>5, <2>3, <4>1, <4>2
    <3>2. CASE t # Nil
      <4>1. B = {k \in A : BytesLess(k, t)}
        BY <1>1, <1>6, <1>8, <1>10, <2>5, <3>2
      <4>2. e = SearchStrings(keys, t)
        BY <2>1, <3>2 DEF Place
      <4>3. Back(keys, SearchStrings(keys, t)) = Reverse(Sorted({k \in A : BytesLess(k, t)}))
        BY <1>0, <1>4, <1>7, <3>2, CourseIsAsked
      <4>. QED BY <2>3, <4>1, <4>2, <4>3
    <3>. QED BY <3>1, <3>2
  <2>7. walk.way # "forward"
    BY <1>10
  <2>. QED BY <2>4, <2>5, <2>6, <2>7
<1>. QED BY <1>9, <1>10

\* A walk by Next returns, once and in order, every key asked for from where it
\* started, and a walk by Prev those before, on both engines, whatever the store
\* holds and whatever the options, but for the prefixes that Pebble's upper bound
\* misses (First, Last, SeekGE, SeekLT, Next and Prev of both iterators).
THEOREM IteratorsMissNothing == Spec => []WalksAreComplete
<1>1. Init => IteratorInv
  <2>. SUFFICES ASSUME Init PROVE IteratorInv
    OBVIOUS
  <2>1. Sound(entries, engine, options)
    BY InitIsSound
  <2>2. PICK A : A \in SUBSET Strings /\ Enumerates(keys, A)
    <3>1. PICK store : Holds(store, entries) /\ keys = KeysOf(engine, store, options)
      BY DEF Init, Holds, Store
    <3>. QED BY <2>1, <3>1, KeysAreSorted
  <2>3. Len(keys) \in Nat
    BY <2>2 DEF Enumerates
  <2>4. index \in -1 .. Len(keys)
    BY <2>3 DEF Init
  <2>5. walk.target = Nil /\ walk.way = "fresh"
    BY DEF Init, Fresh, Walk
  <2>6. WalkInv(keys, index, walk, seen)
    BY <2>4, <2>5 DEF WalkInv
  <2>. QED BY <2>1, <2>6 DEF Init, IteratorInv
<1>2. IteratorInv /\ [Next]_vars => IteratorInv'
  <2>. SUFFICES ASSUME IteratorInv, [Next]_vars PROVE IteratorInv'
    OBVIOUS
  <2>1. /\ Sound(entries', engine', options')
        /\ entries' = entries /\ engine' = engine /\ options' = options /\ keys' = keys
    BY StepKeepsStore DEF IteratorInv
  <2>2. keys' = KeysOf(engine', Store', options')
    BY <2>1 DEF IteratorInv, Store
  <2>3. WalkInv(keys', index', walk', seen')
    <3>1. CASE Next
      <4>1. PICK A : A \in SUBSET Strings /\ Enumerates(keys, A)
        <5>1. PICK store : /\ Holds(store, entries) /\ Sound(entries, engine, options)
                           /\ keys = KeysOf(engine, store, options)
          BY DEF IteratorInv, Holds, Store
        <5>. QED BY <5>1, KeysAreSorted
      <4>2. keys \in Seq(Strings) /\ Increasing(keys)
        BY <4>1, WholeCourse
      <4>3. WalkInv(keys, index', walk', seen')
        BY <3>1, <4>2, StepKeepsWalk DEF IteratorInv, Sound
      <4>. QED BY <2>1, <4>3
    <3>2. CASE UNCHANGED vars
      BY <3>2 DEF vars, IteratorInv
    <3>. QED BY <3>1, <3>2
  <2>. QED BY <2>1, <2>2, <2>3 DEF IteratorInv
<1>3. IteratorInv => WalksAreComplete
  BY InvariantCompletesWalks
<1>. QED BY <1>1, <1>2, <1>3, PTL DEF Spec

-----------------------------------------------------------------------------
(* Nibbles in bytes.                                                       *)

\* A number is made of its quotient and remainder in one way.
LEMMA SplitNumber ==
    ASSUME NEW b \in Nat \ {0}, NEW a \in Nat, NEW r \in 0 .. (b - 1), NEW x, x = a * b + r
    PROVE  x \div b = a /\ x % b = r
<1>1. x \in Nat
  <2>1. a * b \in Nat
    OBVIOUS
  <2>. QED BY <2>1
<1>2. PICK q \in Nat, s \in 0 .. (b - 1) : q = x \div b /\ s = x % b /\ x = q * b + s
  BY <1>1, DivMod
<1>3. ASSUME NEW u \in Nat, NEW v \in Nat, u < v PROVE u * b + b <= v * b
  <2>1. PICK d \in Nat : v = (u + 1) + d
    <3>1. v - (u + 1) \in Nat /\ v = (u + 1) + (v - (u + 1))
      BY <1>3
    <3>. QED BY <3>1
  <2>2. v * b = (u * b + b) + d * b /\ d * b \in Nat /\ u * b \in Nat
    BY <2>1
  <2>. QED BY <2>2
<1>4. a * b \in Nat /\ q * b \in Nat
  OBVIOUS
<1>5. ~ (q < a)
  <2>. SUFFICES ASSUME q < a PROVE FALSE
    OBVIOUS
  <2>1. q * b + b <= a * b
    BY <1>3
  <2>. QED BY <1>2, <1>4, <2>1
<1>6. ~ (a < q)
  <2>. SUFFICES ASSUME a < q PROVE FALSE
    OBVIOUS
  <2>1. a * b + b <= q * b
    BY <1>3
  <2>. QED BY <1>2, <1>4, <2>1
<1>7. q = a
  BY <1>5, <1>6
<1>. QED BY <1>2, <1>4, <1>7

\* A position of a path is the first or the second nibble of a byte.
LEMMA Halves ==
    ASSUME NEW i \in Nat \ {0}
    PROVE  \E b \in Nat \ {0} : /\ b = (i + 1) \div 2
                                /\ \/ i = 2 * b - 1 /\ i % 2 = 1
                                   \/ i = 2 * b /\ i % 2 = 0
OBVIOUS

\* Of two nibbles, and of the byte they make.
LEMMA NibblesOfByte ==
    ASSUME NEW h \in 0 .. (NibbleBase - 1), NEW l \in 0 .. (NibbleBase - 1),
           NEW x, x = h * NibbleBase + l
    PROVE  High(x) = h /\ Low(x) = l /\ x \in Bytes
<1>1. PICK b \in Nat \ {0} : b = NibbleBase
  BY EncodingParameters
<1>2. x \div b = h /\ x % b = l
  BY <1>1, SplitNumber
<1>3. x \in Nat /\ x < b * b
  <2>1. PICK d \in Nat : b = (h + 1) + d
    <3>1. b - (h + 1) \in Nat /\ b = (h + 1) + (b - (h + 1))
      BY <1>1
    <3>. QED BY <3>1
  <2>2. b * b = ((h * b) + b) + d * b /\ d * b \in Nat /\ h * b \in Nat
    BY <1>1, <2>1
  <2>. QED BY <1>1, <2>2
<1>4. Byte \in Nat /\ Byte = b * b
  BY <1>1 DEF Byte
<1>. QED BY <1>1, <1>2, <1>3, <1>4 DEF High, Low, Bytes

\* A byte is made of its nibbles.
LEMMA ByteOfNibbles ==
    ASSUME NEW x \in Bytes
    PROVE  /\ High(x) \in 0 .. (NibbleBase - 1) /\ Low(x) \in 0 .. (NibbleBase - 1)
           /\ x = High(x) * NibbleBase + Low(x)
<1>1. PICK b \in Nat \ {0} : b = NibbleBase
  BY EncodingParameters
<1>2. Byte \in Nat /\ Byte = b * b
  BY <1>1 DEF Byte
<1>3. x \in Nat /\ x < b * b
  BY <1>2 DEF Bytes
<1>4. PICK q \in Nat, s \in 0 .. (b - 1) : q = x \div b /\ s = x % b /\ x = q * b + s
  BY <1>3, DivMod
<1>5. q < b
  <2>. SUFFICES ASSUME q >= b PROVE FALSE
    OBVIOUS
  <2>1. PICK d \in Nat : q = b + d
    <3>1. q - b \in Nat /\ q = b + (q - b)
      OBVIOUS
    <3>. QED BY <3>1
  <2>2. q * b = b * b + d * b /\ d * b \in Nat /\ b * b \in Nat
    BY <2>1
  <2>. QED BY <1>3, <1>4, <2>2
<1>. QED BY <1>1, <1>4, <1>5 DEF High, Low

-----------------------------------------------------------------------------
(* Parts of strings.                                                       *)

\* A string has another one after some bytes.
Has(k, from, t) == from + Len(t) <= Len(k) /\ \A i \in 1 .. Len(t) : k[from + i] = t[i]

\* What a string has there is its slice.
LEMMA SliceOfPart ==
    ASSUME NEW k \in Strings, NEW t \in Strings, NEW from \in Nat, Has(k, from, t),
           NEW n, n = Len(t)
    PROVE  Slice(k, from, n) = t
<1>1. k \in Seq(Nat) /\ t \in Seq(Nat)
  BY DEF Strings
<1>2. n \in Nat /\ Len(k) \in Nat /\ from + n <= Len(k)
  BY <1>1 DEF Has
<1>3. PICK u \in Seq(Nat) : u = SubSeq(k, from + 1, from + n)
  <2>1. SubSeq(k, from + 1, from + n) \in Seq(Nat)
    BY <1>1, <1>2
  <2>. QED BY <2>1
<1>4. Len(u) = n
  BY <1>1, <1>2, <1>3
<1>5. ASSUME NEW i \in 1 .. n PROVE u[i] = t[i]
  <2>1. u[i] = k[from + i]
    BY <1>1, <1>2, <1>3
  <2>2. k[from + i] = t[i]
    BY DEF Has
  <2>. QED BY <2>1, <2>2
<1>6. u = t
  <2>1. DOMAIN u = 1 .. n /\ DOMAIN t = 1 .. n
    BY <1>1, <1>4
  <2>2. u = [i \in DOMAIN u |-> u[i]] /\ t = [i \in DOMAIN t |-> t[i]]
    BY <1>1
  <2>. QED BY <1>5, <2>1, <2>2
<1>. QED BY <1>3, <1>6 DEF Slice

\* A concatenation has both parts, and what its first part has.
LEMMA ConcatHas ==
    ASSUME NEW s \in Strings, NEW t \in Strings
    PROVE  /\ s \o t \in Strings /\ Len(s \o t) = Len(s) + Len(t)
           /\ Has(s \o t, 0, s) /\ Has(s \o t, Len(s), t)
<1>1. s \in Seq(Nat) /\ t \in Seq(Nat) /\ Len(s) \in Nat /\ Len(t) \in Nat
  BY DEF Strings
<1>2. PICK k \in Seq(Nat) : k = s \o t /\ Len(k) = Len(s) + Len(t)
  <2>1. s \o t \in Seq(Nat) /\ Len(s \o t) = Len(s) + Len(t)
    BY <1>1
  <2>. QED BY <2>1
<1>3. ASSUME NEW i \in 1 .. Len(s) PROVE k[0 + i] = s[i]
  <2>1. (s \o t)[i] = s[i]
    BY <1>1
  <2>2. 0 + i = i
    OBVIOUS
  <2>. QED BY <1>2, <2>1, <2>2
<1>4. ASSUME NEW i \in 1 .. Len(t) PROVE k[Len(s) + i] = t[i]
  <2>0. PICK x \in Nat, y \in Nat : x = Len(s) /\ y = Len(t)
    BY <1>1
  <2>1. PICK m \in Nat : m = Len(s) + i /\ m > Len(s) /\ m <= Len(s) + Len(t) /\ m - Len(s) = i
    <3>1. i \in 1 .. y
      BY <2>0
    <3>2. x + i \in Nat /\ x + i > x /\ x + i <= x + y /\ (x + i) - x = i
      BY <3>1
    <3>. QED BY <2>0, <3>2
  <2>2. (s \o t)[m] = t[m - Len(s)]
    BY <1>1, <2>1
  <2>. QED BY <1>2, <2>1, <2>2
<1>5. Has(k, 0, s)
  BY <1>1, <1>2, <1>3 DEF Has
<1>6. Has(k, Len(s), t)
  BY <1>1, <1>2, <1>4 DEF Has
<1>. QED BY <1>2, <1>5, <1>6 DEF Strings

\* What a string has, its continuations have.
LEMMA ExtensionHas ==
    ASSUME NEW s \in Strings, NEW u \in Strings, NEW t \in Strings, NEW from \in Nat, Has(s, from, t)
    PROVE  Has(s \o u, from, t)
<1>1. s \in Seq(Nat) /\ u \in Seq(Nat) /\ t \in Seq(Nat)
  BY DEF Strings
<1>2. Len(s) \in Nat /\ Len(u) \in Nat /\ Len(t) \in Nat /\ from + Len(t) <= Len(s)
  BY <1>1 DEF Has
<1>3. PICK k \in Strings : k = s \o u /\ Len(k) = Len(s) + Len(u) /\ Has(k, 0, s)
  BY ConcatHas
<1>4. ASSUME NEW i \in 1 .. Len(t) PROVE k[from + i] = t[i]
  <2>1. PICK m \in 1 .. Len(s) : m = from + i /\ 0 + m = m
    BY <1>2
  <2>2. k[0 + m] = s[m]
    BY <1>3 DEF Has
  <2>3. s[from + i] = t[i]
    BY DEF Has
  <2>. QED BY <2>1, <2>2, <2>3
<1>. QED BY <1>2, <1>3, <1>4 DEF Has

-----------------------------------------------------------------------------
(* The bytes of a path.                                                    *)

\* A path of nibbles.
IsPath(p) == p \in Seq(0 .. (NibbleBase - 1))

\* The nibbles of a path are numbers, and there are numbers of them.
LEMMA PathType ==
    ASSUME NEW p, IsPath(p)
    PROVE  /\ p \in Strings /\ Len(p) \in Nat /\ DOMAIN p = 1 .. Len(p)
           /\ \A i \in 1 .. Len(p) : p[i] \in 0 .. (NibbleBase - 1) /\ p[i] \in Nat
<1>1. PICK nibbles \in SUBSET Nat : nibbles = 0 .. (NibbleBase - 1)
  BY EncodingParameters
<1>2. PICK q \in Seq(nibbles) : q = p
  BY <1>1 DEF IsPath
<1>3. Len(q) \in Nat /\ q \in [1 .. Len(q) -> nibbles]
  OBVIOUS
<1>4. q \in [1 .. Len(q) -> Nat]
  BY <1>3
<1>5. q \in Seq(Nat)
  BY <1>3, <1>4
<1>6. \A i \in 1 .. Len(q) : q[i] \in nibbles /\ q[i] \in Nat
  BY <1>3
<1>7. DOMAIN q = 1 .. Len(q)
  BY <1>3
<1>. QED BY <1>1, <1>2, <1>3, <1>5, <1>6, <1>7 DEF Strings

\* What the buffer holds after the first m nibbles.
PackedTo(p, m) ==
    [b \in 1 .. ((Len(p) + 1) \div 2) |->
        IF 2 * b <= m THEN p[2 * b - 1] * NibbleBase + p[2 * b]
        ELSE IF 2 * b - 1 <= m THEN p[2 * b - 1] * NibbleBase ELSE 0]

\* One more nibble.
LEMMA PackedStep ==
    ASSUME NEW nk, NEW p, p = nk.path, IsPath(p), NEW m \in Nat, NEW k \in 1 .. Len(p), k = m + 1
    PROVE  Put(nk, PackedTo(p, m), k) = PackedTo(p, k)
<1>1. PICK n \in Nat : n = Len(p)
  BY PathType
<1>2. PICK size \in Nat : size = (n + 1) \div 2
  OBVIOUS
<1>3. PICK c \in Nat \ {0} : /\ c = (k + 1) \div 2
                             /\ \/ k = 2 * c - 1 /\ k % 2 = 1
                                \/ k = 2 * c /\ k % 2 = 0
  <2>1. k \in Nat \ {0}
    BY <1>1
  <2>. QED BY <2>1, Halves
<1>. DEFINE now(b) == IF 2 * b <= m THEN p[2 * b - 1] * NibbleBase + p[2 * b]
                      ELSE IF 2 * b - 1 <= m THEN p[2 * b - 1] * NibbleBase ELSE 0
            next(b) == IF 2 * b <= k THEN p[2 * b - 1] * NibbleBase + p[2 * b]
                       ELSE IF 2 * b - 1 <= k THEN p[2 * b - 1] * NibbleBase ELSE 0
            put(b) == IF b # c THEN now(b)
                      ELSE IF k % 2 = 1 THEN p[k] * NibbleBase ELSE now(b) + p[k]
<1>4. ASSUME NEW b \in 1 .. size PROVE put(b) = next(b)
  <2>0. b \in Nat /\ b >= 1
    BY <1>2
  <2>1. CASE b # c
    <3>1. (2 * b <= m <=> 2 * b <= k) /\ (2 * b - 1 <= m <=> 2 * b - 1 <= k)
      BY <1>3, <2>0, <2>1
    <3>. QED BY <2>1, <3>1
  <2>2. CASE b = c /\ k = 2 * c - 1 /\ k % 2 = 1
    <3>1. ~ (2 * b <= k) /\ 2 * b - 1 <= k /\ k = 2 * b - 1
      BY <2>0, <2>2
    <3>. QED BY <2>2, <3>1
  <2>3. CASE b = c /\ k = 2 * c /\ k % 2 = 0
    <3>1. 2 * b <= k /\ ~ (2 * b <= m) /\ 2 * b - 1 <= m /\ k = 2 * b
      BY <2>0, <2>3
    <3>2. k % 2 # 1
      BY <2>3
    <3>3. put(b) = now(b) + p[k]
      BY <2>3, <3>2
    <3>4. now(b) = p[2 * b - 1] * NibbleBase
      BY <3>1
    <3>5. next(b) = p[2 * b - 1] * NibbleBase + p[2 * b]
      BY <3>1
    <3>. QED BY <3>1, <3>3, <3>4, <3>5
  <2>. QED BY <1>3, <2>1, <2>2, <2>3
<1>5. PackedTo(p, m) = [b \in 1 .. size |-> now(b)] /\ PackedTo(p, k) = [b \in 1 .. size |-> next(b)]
  BY <1>1, <1>2 DEF PackedTo
<1>6. Put(nk, PackedTo(p, m), k) = [b \in 1 .. size |-> put(b)]
  <2>1. PICK buf : buf = PackedTo(p, m)
    OBVIOUS
  <2>2. \A b \in 1 .. size : buf[b] = now(b)
    <3>. HIDE DEF now
    <3>. QED BY <1>5, <2>1
  <2>3. Put(nk, buf, k) = [b \in 1 .. size |-> IF b # c THEN buf[b]
                                               ELSE IF k % 2 = 1 THEN p[k] * NibbleBase
                                               ELSE buf[b] + p[k]]
    BY <1>1, <1>2, <1>3 DEF Put
  <2>4. Put(nk, buf, k) = [b \in 1 .. size |-> put(b)]
    <3>. HIDE DEF now
    <3>. QED BY <2>2, <2>3
  <2>. QED BY <2>1, <2>4
<1>. HIDE DEF put, next, now
<1>. QED BY <1>4, <1>5, <1>6

\* Nothing, and everything.
LEMMA PackedEnds ==
    ASSUME NEW p, IsPath(p)
    PROVE  /\ PackedTo(p, 0) = [i \in 1 .. ((Len(p) + 1) \div 2) |-> 0]
           /\ PackedTo(p, Len(p)) = Pack(p)
<1>1. PICK n \in Nat : n = Len(p)
  BY PathType
<1>2. PICK size \in Nat : size = (n + 1) \div 2
  OBVIOUS
<1>3. ASSUME NEW b \in 1 .. size
      PROVE  /\ ~ (2 * b <= 0) /\ ~ (2 * b - 1 <= 0) /\ 2 * b - 1 <= n
  BY <1>2
<1>4. PackedTo(p, 0) = [i \in 1 .. size |-> 0]
  BY <1>1, <1>2, <1>3 DEF PackedTo
<1>. DEFINE x(b) == p[2 * b - 1] * NibbleBase
            all(b) == IF 2 * b <= n THEN x(b) + p[2 * b]
                      ELSE IF 2 * b - 1 <= n THEN x(b) ELSE 0
            two(b) == x(b) + (IF 2 * b <= n THEN p[2 * b] ELSE 0)
<1>5. ASSUME NEW b \in 1 .. size PROVE all(b) = two(b)
  <2>1. CASE 2 * b <= n
    BY <2>1
  <2>2. CASE ~ (2 * b <= n)
    <3>1. PICK m \in 1 .. n : m = 2 * b - 1
      BY <1>2, <1>3
    <3>2. p[m] \in Nat
      BY <1>1, PathType
    <3>3. PICK y \in Nat, base \in Nat : y = p[2 * b - 1] /\ base = NibbleBase
      BY <3>1, <3>2, EncodingParameters
    <3>4. y * base \in Nat /\ y * base + 0 = y * base
      OBVIOUS
    <3>5. all(b) = y * base /\ two(b) = y * base + 0
      BY <1>3, <2>2, <3>3
    <3>. QED BY <3>4, <3>5
  <2>. QED BY <2>1, <2>2
<1>6. PackedTo(p, n) = [b \in 1 .. size |-> all(b)] /\ Pack(p) = [b \in 1 .. size |-> two(b)]
  BY <1>1, <1>2 DEF PackedTo, Pack
<1>7. PackedTo(p, n) = Pack(p)
  <2>. HIDE DEF all, two
  <2>. QED BY <1>5, <1>6
<1>. QED BY <1>1, <1>2, <1>4, <1>7

\* makeNodeKey puts the nibbles where EncodeNodeKey does.
LEMMA NodeKeyIsEncoded ==
    ASSUME NEW nk, IsPath(nk.path)
    PROVE  NodeStorageKey(nk) =
              <<Tags["n"]>> \o BigEndian(nk.version, VersionSize)
                  \o BigEndian(Len(nk.path), CountSize) \o Pack(nk.path)
<1>. DEFINE f == CHOOSE g : IsPacking(g, nk)
            ids == [i \in DOMAIN nk.path |-> i]
<1>0. nk.path \in Seq(Nat)
  BY PathType DEF Strings
<1>1. IsPacking(f, nk)
  BY <1>0, PackingExists
<1>. HIDE DEF f
<1>2. PICK path : path = nk.path /\ IsPath(path)
  OBVIOUS
<1>3. PICK n \in Nat : n = Len(path) /\ DOMAIN path = 1 .. n
  BY <1>2, PathType
<1>4. PICK zero : zero = [i \in 1 .. ((Len(nk.path) + 1) \div 2) |-> 0]
  OBVIOUS
<1>5. DOMAIN ids = 1 .. n /\ \A i \in 1 .. n : ids[i] = i
  BY <1>2, <1>3
<1>. DEFINE body(S) == IF S = {} THEN zero ELSE Put(nk, f[S \ {Max(S)}], ids[Max(S)])
<1>6. \A S \in SUBSET (1 .. n) : f[S] = body(S)
  <2>1. f = [S \in SUBSET (1 .. n) |-> body(S)]
    BY <1>1, <1>4, <1>5 DEF IsPacking
  <2>. HIDE DEF body
  <2>. QED BY <2>1
<1>. DEFINE T == {k \in Nat : k <= n => f[1 .. k] = PackedTo(path, k)}
<1>7. 0 \in T
  <2>1. 1 .. 0 = {}
    OBVIOUS
  <2>2. f[1 .. 0] = zero
    BY <1>6, <2>1
  <2>3. f[1 .. 0] = PackedTo(path, 0)
    BY <1>2, <1>4, <2>2, PackedEnds
  <2>. QED BY <2>3
<1>8. ASSUME NEW k \in Nat, k \in T PROVE k + 1 \in T
  <2>. SUFFICES ASSUME k + 1 <= n PROVE f[1 .. (k + 1)] = PackedTo(path, k + 1)
    OBVIOUS
  <2>1. f[1 .. k] = PackedTo(path, k)
    BY <1>8
  <2>2. PICK m \in 1 .. n : m = k + 1
    OBVIOUS
  <2>3. 1 .. m \in SUBSET (1 .. n) /\ 1 .. m # {} /\ (1 .. m) \ {m} = 1 .. k
    <3>1. 1 .. m \subseteq 1 .. n /\ m \in 1 .. m
      BY <2>2
    <3>2. ASSUME NEW x PROVE x \in (1 .. m) \ {m} <=> x \in 1 .. k
      BY <2>2
    <3>3. (1 .. m) \ {m} = 1 .. k
      BY <3>2
    <3>. QED BY <3>1, <3>3
  <2>4. Max(1 .. m) = m
    <3>1. 1 .. m \in SUBSET (1 .. (k + 1)) /\ k + 1 \in 1 .. m
      BY <2>2
    <3>2. Max(1 .. m) = k + 1
      BY <3>1, MaxIsLast
    <3>. QED BY <2>2, <3>2
  <2>5. f[1 .. m] = Put(nk, PackedTo(path, k), m)
    <3>1. f[1 .. m] = Put(nk, f[(1 .. m) \ {Max(1 .. m)}], ids[Max(1 .. m)])
      BY <1>6, <2>3
    <3>. QED BY <1>5, <2>1, <2>3, <2>4, <3>1
  <2>6. Put(nk, PackedTo(path, k), m) = PackedTo(path, m)
    <3>1. m \in 1 .. Len(path)
      BY <1>3
    <3>. QED BY <1>2, <2>2, <3>1, PackedStep
  <2>. QED BY <2>2, <2>5, <2>6
<1>9. f[1 .. n] = PackedTo(path, n)
  <2>1. n \in T
    <3>. HIDE DEF T
    <3>. QED BY <1>7, <1>8, Induction
  <2>. QED BY <2>1
<1>10. f[DOMAIN ids] = Pack(nk.path)
  BY <1>2, <1>3, <1>5, <1>9, PackedEnds
<1>. QED BY <1>10, NodeKeyIsFold DEF f

\* A byte holds two nibbles of a path, or the last and none.
PackedByte(p, b, x) ==
    \E h, l \in 0 .. (NibbleBase - 1) :
        /\ x = h * NibbleBase + l /\ 2 * b - 1 \in 1 .. Len(p) /\ h = p[2 * b - 1]
        /\ l = IF 2 * b <= Len(p) THEN p[2 * b] ELSE 0

\* The bytes of a path are bytes, and half as many.
LEMMA PackType ==
    ASSUME NEW p, IsPath(p)
    PROVE  /\ Pack(p) \in Strings /\ Len(Pack(p)) = (Len(p) + 1) \div 2
           /\ \A b \in 1 .. Len(Pack(p)) : PackedByte(p, b, Pack(p)[b])
<1>1. PICK n \in Nat : n = Len(p)
  BY PathType
<1>2. PICK size \in Nat : size = (n + 1) \div 2
  OBVIOUS
<1>3. ASSUME NEW b \in 1 .. size
      PROVE  \E h, l \in 0 .. (NibbleBase - 1) :
                /\ p[2 * b - 1] * NibbleBase + (IF 2 * b <= n THEN p[2 * b] ELSE 0) = h * NibbleBase + l
                /\ 2 * b - 1 \in 1 .. n /\ h = p[2 * b - 1]
                /\ l = IF 2 * b <= n THEN p[2 * b] ELSE 0
  <2>1. PICK m \in 1 .. n : m = 2 * b - 1
    BY <1>2
  <2>2. p[m] \in 0 .. (NibbleBase - 1)
    BY <1>1, PathType
  <2>3. CASE 2 * b <= n
    <3>1. PICK k \in 1 .. n : k = 2 * b
      BY <2>3
    <3>2. p[k] \in 0 .. (NibbleBase - 1)
      BY <1>1, PathType
    <3>. QED BY <2>1, <2>2, <2>3, <3>1, <3>2
  <2>4. CASE ~ (2 * b <= n)
    <3>1. 0 \in 0 .. (NibbleBase - 1)
      BY EncodingParameters
    <3>. QED BY <2>1, <2>2, <2>4, <3>1
  <2>. QED BY <2>3, <2>4
<1>4. PICK d : d = Pack(p)
  OBVIOUS
<1>5. d = [b \in 1 .. size |-> p[2 * b - 1] * NibbleBase + (IF 2 * b <= n THEN p[2 * b] ELSE 0)]
  BY <1>1, <1>2, <1>4 DEF Pack
<1>6. ASSUME NEW b \in 1 .. size
      PROVE  \E h, l \in 0 .. (NibbleBase - 1) :
                /\ d[b] = h * NibbleBase + l /\ 2 * b - 1 \in 1 .. n /\ h = p[2 * b - 1]
                /\ l = IF 2 * b <= n THEN p[2 * b] ELSE 0
  <2>1. d[b] = p[2 * b - 1] * NibbleBase + (IF 2 * b <= n THEN p[2 * b] ELSE 0)
    BY <1>5
  <2>. QED BY <1>3, <2>1
<1>7. \A b \in 1 .. size : d[b] \in Nat
  <2>1. ASSUME NEW b \in 1 .. size PROVE d[b] \in Nat
    <3>1. PICK h, l \in 0 .. (NibbleBase - 1) : d[b] = h * NibbleBase + l
      BY <1>6
    <3>2. PICK base \in Nat : base = NibbleBase
      BY EncodingParameters
    <3>3. h \in Nat /\ l \in Nat
      BY <3>2
    <3>4. h * base + l \in Nat
      BY <3>3
    <3>. QED BY <3>1, <3>2, <3>4
  <2>. QED BY <2>1
<1>8. d \in [1 .. size -> Nat]
  <2>1. DOMAIN d = 1 .. size /\ d = [b \in DOMAIN d |-> d[b]]
    BY <1>5
  <2>. QED BY <1>7, <2>1
<1>9. d \in Seq(Nat) /\ Len(d) = size
  BY <1>8
<1>10. \A b \in 1 .. size : PackedByte(p, b, d[b])
  BY <1>1, <1>6 DEF PackedByte
<1>. QED BY <1>1, <1>2, <1>4, <1>9, <1>10 DEF Strings

\* The nibbles come back from the bytes.
LEMMA UnpackPack ==
    ASSUME NEW p, IsPath(p)
    PROVE  Unpack(Pack(p), Len(p)) = p
<1>1. PICK n \in Nat : n = Len(p) /\ DOMAIN p = 1 .. n
  BY PathType
<1>2. PICK d : d = Pack(p) /\ d \in Strings /\ Len(d) = (n + 1) \div 2
  BY <1>1, PackType
<1>3. ASSUME NEW i \in 1 .. n
      PROVE  (IF i % 2 = 1 THEN High(d[(i + 1) \div 2]) ELSE Low(d[(i + 1) \div 2])) = p[i]
  <2>1. PICK b \in Nat \ {0} : /\ b = (i + 1) \div 2
                               /\ \/ i = 2 * b - 1 /\ i % 2 = 1
                                  \/ i = 2 * b /\ i % 2 = 0
    <3>1. i \in Nat \ {0}
      OBVIOUS
    <3>. QED BY <3>1, Halves
  <2>2. b \in 1 .. Len(d)
    BY <1>2, <2>1
  <2>3. PICK h, l \in 0 .. (NibbleBase - 1) :
           /\ d[b] = h * NibbleBase + l /\ h = p[2 * b - 1]
           /\ l = IF 2 * b <= n THEN p[2 * b] ELSE 0
    <3>1. PackedByte(p, b, d[b])
      BY <1>2, <2>2, PackType
    <3>. QED BY <1>1, <3>1 DEF PackedByte
  <2>4. High(d[b]) = h /\ Low(d[b]) = l
    BY <2>3, NibblesOfByte
  <2>5. CASE i = 2 * b - 1 /\ i % 2 = 1
    BY <2>1, <2>3, <2>4, <2>5
  <2>6. CASE i = 2 * b /\ i % 2 = 0
    <3>1. 2 * b <= n /\ i % 2 # 1
      BY <2>6
    <3>. QED BY <2>1, <2>3, <2>4, <2>6, <3>1
  <2>. QED BY <2>1, <2>5, <2>6
<1>4. Unpack(d, n) =
        [i \in 1 .. n |-> IF i % 2 = 1 THEN High(d[(i + 1) \div 2]) ELSE Low(d[(i + 1) \div 2])]
  BY DEF Unpack
<1>5. p = [i \in 1 .. n |-> p[i]]
  <2>1. p \in Seq(Nat)
    BY PathType DEF Strings
  <2>. QED BY <1>1, <2>1
<1>6. Unpack(d, n) = p
  BY <1>3, <1>4, <1>5
<1>. QED BY <1>1, <1>2, <1>6

\* Strings with the same elements are the same.
LEMMA SameString ==
    ASSUME NEW s \in Strings, NEW t \in Strings, Len(s) = Len(t), \A i \in 1 .. Len(s) : s[i] = t[i]
    PROVE  s = t
<1>1. s \in Seq(Nat) /\ t \in Seq(Nat)
  BY DEF Strings
<1>2. s = [i \in 1 .. Len(s) |-> s[i]] /\ t = [i \in 1 .. Len(t) |-> t[i]]
  BY <1>1
<1>. QED BY <1>2

\* Strings in a row, put together from either end.
ThreeAlike(a, b, c) == (a \o b) \o c = a \o (b \o c)
FourAlike(a, b, c, d) == ((a \o b) \o c) \o d = a \o ((b \o c) \o d)

\* Putting strings together is associative.
LEMMA ConcatAssociates ==
    ASSUME NEW a \in Strings, NEW b \in Strings, NEW c \in Strings
    PROVE  ThreeAlike(a, b, c)
<1>1. PICK x \in Nat, y \in Nat, z \in Nat : x = Len(a) /\ y = Len(b) /\ z = Len(c)
  BY DEF Strings
<1>2. PICK ab \in Strings : ab = a \o b /\ Len(ab) = x + y /\ Has(ab, 0, a) /\ Has(ab, x, b)
  BY <1>1, ConcatHas
<1>3. PICK bc \in Strings : bc = b \o c /\ Len(bc) = y + z /\ Has(bc, 0, b) /\ Has(bc, y, c)
  BY <1>1, ConcatHas
<1>4. PICK l \in Strings : /\ l = ab \o c /\ Len(l) = (x + y) + z
                           /\ Has(l, 0, ab) /\ Has(l, x + y, c)
  <2>1. PICK l \in Strings : /\ l = ab \o c /\ Len(l) = Len(ab) + Len(c)
                             /\ Has(l, 0, ab) /\ Has(l, Len(ab), c)
    BY ConcatHas
  <2>2. Len(l) = (x + y) + z /\ Has(l, x + y, c)
    BY <1>1, <1>2, <2>1
  <2>. QED BY <2>1, <2>2
<1>5. PICK r \in Strings : /\ r = a \o bc /\ Len(r) = x + (y + z)
                           /\ Has(r, 0, a) /\ Has(r, x, bc)
  BY <1>1, <1>3, ConcatHas
<1>6. ASSUME NEW i \in 1 .. (x + y) PROVE l[i] = ab[i]
  <2>1. l[0 + i] = ab[i] /\ 0 + i = i
    BY <1>2, <1>4 DEF Has
  <2>. QED BY <2>1
<1>7. ASSUME NEW i \in 1 .. x PROVE l[i] = a[i] /\ r[i] = a[i]
  <2>1. r[0 + i] = a[i] /\ ab[0 + i] = a[i] /\ 0 + i = i
    BY <1>1, <1>2, <1>5 DEF Has
  <2>2. i \in 1 .. (x + y)
    OBVIOUS
  <2>. QED BY <1>6, <2>1, <2>2
<1>8. ASSUME NEW j \in 1 .. y PROVE l[x + j] = b[j] /\ r[x + j] = b[j]
  <2>1. x + j \in 1 .. (x + y) /\ j \in 1 .. (y + z) /\ 0 + j = j
    OBVIOUS
  <2>2. l[x + j] = ab[x + j]
    BY <1>6, <2>1
  <2>3. ab[x + j] = b[j]
    BY <1>1, <1>2 DEF Has
  <2>4. r[x + j] = bc[j]
    BY <1>3, <1>5, <2>1 DEF Has
  <2>5. bc[0 + j] = b[j]
    BY <1>1, <1>3 DEF Has
  <2>. QED BY <2>1, <2>2, <2>3, <2>4, <2>5
<1>9. ASSUME NEW j \in 1 .. z PROVE l[(x + y) + j] = c[j] /\ r[(x + y) + j] = c[j]
  <2>1. l[(x + y) + j] = c[j]
    BY <1>1, <1>4 DEF Has
  <2>2. y + j \in 1 .. (y + z) /\ x + (y + j) = (x + y) + j
    OBVIOUS
  <2>3. r[x + (y + j)] = bc[y + j]
    BY <1>3, <1>5, <2>2 DEF Has
  <2>4. bc[y + j] = c[j]
    BY <1>1, <1>3 DEF Has
  <2>. QED BY <2>1, <2>2, <2>3, <2>4
<1>10. ASSUME NEW i \in 1 .. ((x + y) + z) PROVE l[i] = r[i]
  <2>1. CASE i <= x
    BY <1>7, <2>1
  <2>2. CASE x < i /\ i <= x + y
    <3>1. PICK j \in 1 .. y : i = x + j
      <4>1. i - x \in 1 .. y /\ i = x + (i - x)
        BY <2>2
      <4>. QED BY <4>1
    <3>. QED BY <1>8, <3>1
  <2>3. CASE x + y < i
    <3>1. PICK j \in 1 .. z : i = (x + y) + j
      <4>1. i - (x + y) \in 1 .. z /\ i = (x + y) + (i - (x + y))
        BY <2>3
      <4>. QED BY <4>1
    <3>. QED BY <1>9, <3>1
  <2>. QED BY <2>1, <2>2, <2>3
<1>11. Len(l) = Len(r) /\ Len(l) = (x + y) + z
  BY <1>4, <1>5
<1>12. l = r
  BY <1>10, <1>11, SameString
<1>. QED BY <1>2, <1>3, <1>4, <1>5, <1>12 DEF ThreeAlike

\* Four strings in a row.
LEMMA FourParts ==
    ASSUME NEW a \in Strings, NEW b \in Strings, NEW c \in Strings, NEW d \in Strings
    PROVE  FourAlike(a, b, c, d)
<1>1. PICK bc \in Strings : bc = b \o c
  BY ConcatHas
<1>2. ThreeAlike(a, b, c) /\ ThreeAlike(a, bc, d)
  BY ConcatAssociates
<1>. QED BY <1>1, <1>2 DEF ThreeAlike, FourAlike

\* A number in a field.
LEMMA FieldType ==
    ASSUME NEW v \in Nat, NEW n \in Nat, v < Power(n)
    PROVE  BigEndian(v, n) \in Strings /\ Len(BigEndian(v, n)) = n /\ FromBigEndian(BigEndian(v, n)) = v
<1>1. PICK d \in [1 .. n -> Bytes] : d = BigEndian(v, n)
  BY BigEndianType
<1>2. d \in Seq(Bytes) /\ Len(d) = n
  OBVIOUS
<1>3. d \in Strings
  BY <1>2, BytesAreStrings
<1>4. FromBigEndian(d) = v
  BY <1>1, BigEndianInverse
<1>. QED BY <1>1, <1>2, <1>3, <1>4

-----------------------------------------------------------------------------
(* Node keys.                                                              *)

\* What the key of a stored node is.
IsNodeKey(nk) ==
    /\ nk = [version |-> nk.version, path |-> nk.path]
    /\ nk.version \in Versions /\ IsPath(nk.path) /\ Len(nk.path) <= MaxTreeDepth

\* The fields of an encoded node key.
LEMMA NodeKeyFields ==
    ASSUME NEW nk, IsNodeKey(nk)
    PROVE  /\ BigEndian(nk.version, VersionSize) \in Strings
           /\ Len(BigEndian(nk.version, VersionSize)) = VersionSize /\ VersionSize \in Nat
           /\ FromBigEndian(BigEndian(nk.version, VersionSize)) = nk.version
           /\ BigEndian(Len(nk.path), CountSize) \in Strings
           /\ Len(BigEndian(Len(nk.path), CountSize)) = CountSize /\ CountSize \in Nat
           /\ FromBigEndian(BigEndian(Len(nk.path), CountSize)) = Len(nk.path)
           /\ Pack(nk.path) \in Strings /\ Len(Pack(nk.path)) = (Len(nk.path) + 1) \div 2
           /\ Len(nk.path) \in Nat
<1>1. VersionSize \in Nat /\ CountSize \in Nat
  BY EncodingParameters
<1>2. nk.version \in Nat /\ nk.version < Power(VersionSize)
  BY VersionFits DEF IsNodeKey
<1>3. PICK n \in Nat : n = Len(nk.path)
  BY PathType DEF IsNodeKey
<1>4. n < Power(CountSize)
  <2>1. PICK m \in Nat : m = MaxTreeDepth
    BY EncodingParameters DEF MaxTreeDepth
  <2>2. PICK p \in Nat : p = Power(CountSize)
    BY <1>1, PowersMultiply
  <2>3. n <= m /\ m < p
    BY <1>3, <2>1, <2>2, EncodingParameters DEF IsNodeKey
  <2>. QED BY <2>2, <2>3
<1>5. Pack(nk.path) \in Strings /\ Len(Pack(nk.path)) = (n + 1) \div 2
  BY <1>3, PackType DEF IsNodeKey
<1>. QED BY <1>1, <1>2, <1>3, <1>4, <1>5, FieldType

\* A string is three in a row, of these lengths, and can be cut up again.
InRow(k, a, b, c, x, y, z) ==
    /\ k \in Strings /\ Len(k) = (x + y) + z
    /\ Slice(k, 0, x) = a /\ Slice(k, x, y) = b /\ Slice(k, x + y, z) = c

\* Three strings in a row, read back.
LEMMA ThreeParts ==
    ASSUME NEW a \in Strings, NEW b \in Strings, NEW c \in Strings, NEW k, k = (a \o b) \o c,
           NEW x \in Nat, NEW y \in Nat, NEW z \in Nat, x = Len(a), y = Len(b), z = Len(c)
    PROVE  InRow(k, a, b, c, x, y, z)
<1>1. x = Len(a) /\ y = Len(b) /\ z = Len(c)
  OBVIOUS
<1>2. PICK ab \in Strings : ab = a \o b /\ Len(ab) = x + y /\ Has(ab, 0, a) /\ Has(ab, x, b)
  <2>1. /\ a \o b \in Strings /\ Len(a \o b) = Len(a) + Len(b)
        /\ Has(a \o b, 0, a) /\ Has(a \o b, Len(a), b)
    BY ConcatHas
  <2>. QED BY <1>1, <2>1
<1>3. k \in Strings /\ Len(k) = Len(ab) + Len(c) /\ Has(k, Len(ab), c)
  BY <1>2, ConcatHas
<1>4. PICK m \in Nat : m = x + y
  OBVIOUS
<1>5. Has(k, m, c) /\ Len(k) = (x + y) + z
  BY <1>1, <1>2, <1>3, <1>4
<1>6. Has(k, 0, a) /\ Has(k, x, b)
  <2>1. PICK nought \in Nat : nought = 0
    OBVIOUS
  <2>2. Has(ab \o c, nought, a)
    BY <1>2, <2>1, ExtensionHas
  <2>3. Has(ab \o c, x, b)
    BY <1>2, ExtensionHas
  <2>. QED BY <1>2, <2>1, <2>2, <2>3
<1>7. Slice(k, 0, x) = a
  <2>1. PICK nought \in Nat : nought = 0
    OBVIOUS
  <2>2. Slice(k, nought, x) = a
    BY <1>1, <1>3, <1>6, <2>1, SliceOfPart
  <2>. QED BY <2>1, <2>2
<1>8. Slice(k, x, y) = b
  BY <1>1, <1>3, <1>6, SliceOfPart
<1>9. Slice(k, m, z) = c
  BY <1>1, <1>3, <1>5, SliceOfPart
<1>. QED BY <1>3, <1>4, <1>5, <1>7, <1>8, <1>9 DEF InRow

\* An encoded node key is decoded.
LEMMA NodeKeyDecodes ==
    ASSUME NEW nk, IsNodeKey(nk)
    PROVE  DecodeNodeKey(EncodeNodeKey(nk)) = nk
<1>. DEFINE V == BigEndian(nk.version, VersionSize)
            C == BigEndian(Len(nk.path), CountSize)
            P == Pack(nk.path)
<1>1. PICK vs \in Nat, cs \in Nat, n \in Nat : vs = VersionSize /\ cs = CountSize /\ n = Len(nk.path)
  BY NodeKeyFields
<1>2. /\ V \in Strings /\ Len(V) = vs /\ FromBigEndian(V) = nk.version
      /\ C \in Strings /\ Len(C) = cs /\ FromBigEndian(C) = n
      /\ P \in Strings /\ Len(P) = (n + 1) \div 2
  BY <1>1, NodeKeyFields
<1>3. PICK data : data = (V \o C) \o P
  OBVIOUS
<1>4. data = EncodeNodeKey(nk)
  BY <1>3 DEF EncodeNodeKey
<1>5. PICK size \in Nat : size = (n + 1) \div 2
  OBVIOUS
<1>6. /\ data \in Strings /\ Len(data) = (vs + cs) + size
      /\ Slice(data, 0, vs) = V /\ Slice(data, vs, cs) = C /\ Slice(data, vs + cs, size) = P
  <2>. HIDE DEF V, C, P
  <2>1. vs = Len(V) /\ cs = Len(C) /\ size = Len(P) /\ V \in Strings /\ C \in Strings /\ P \in Strings
    BY <1>2, <1>5
  <2>2. InRow(data, V, C, P, vs, cs, size)
    BY <1>3, <2>1, ThreeParts
  <2>. QED BY <2>2 DEF InRow
<1>7. n <= MaxTreeDepth /\ MaxTreeDepth \in Nat
  BY <1>1, EncodingParameters DEF IsNodeKey, MaxTreeDepth
<1>8. PICK head \in Nat : head = vs + cs
  OBVIOUS
<1>9. Len(data) - head = size /\ ~ (Len(data) < head) /\ ~ (Len(data) < head + (n + 1) \div 2)
  BY <1>5, <1>6, <1>8
<1>10. ~ (n > MaxTreeDepth)
  BY <1>7
<1>11. DecodeNodeKey(data) = NodeKey(FromBigEndian(V), Unpack(P, n))
  <2>. HIDE DEF V, C, P
  <2>. QED BY <1>1, <1>2, <1>6, <1>8, <1>9, <1>10 DEF DecodeNodeKey
<1>12. Unpack(P, n) = nk.path
  BY <1>1, UnpackPack DEF IsNodeKey
<1>. QED BY <1>2, <1>4, <1>11, <1>12 DEF NodeKey, IsNodeKey

\* The storage key of a node is its encoded key after the tag, and parses.
LEMMA NodeKeyParses ==
    ASSUME NEW nk, IsNodeKey(nk)
    PROVE  /\ NodeStorageKey(nk) = <<Tags["n"]>> \o EncodeNodeKey(nk)
           /\ ParseNodeKey(NodeStorageKey(nk)) = nk
<1>. DEFINE V == BigEndian(nk.version, VersionSize)
            C == BigEndian(Len(nk.path), CountSize)
            P == Pack(nk.path)
<1>1. PICK vs \in Nat, cs \in Nat, n \in Nat : vs = VersionSize /\ cs = CountSize /\ n = Len(nk.path)
  BY NodeKeyFields
<1>2. /\ V \in Strings /\ Len(V) = vs /\ FromBigEndian(V) = nk.version
      /\ C \in Strings /\ Len(C) = cs /\ FromBigEndian(C) = n
      /\ P \in Strings /\ Len(P) = (n + 1) \div 2
  BY <1>1, NodeKeyFields
<1>3. PICK tag \in Strings : tag = <<Tags["n"]>> /\ tag # <<>> /\ tag[1] = Tags["n"] /\ Len(tag) = 1
  <2>1. <<Tags["n"]>> \in Strings /\ <<Tags["n"]>> # <<>> /\ <<Tags["n"]>>[1] = Tags["n"]
    BY TagIsKey
  <2>2. PICK x \in Nat : x = Tags["n"]
    BY TagIsKey
  <2>3. Len(<<x>>) = 1
    OBVIOUS
  <2>. QED BY <2>1, <2>2, <2>3
<1>4. PICK k : k = ((tag \o V) \o C) \o P
  OBVIOUS
<1>5. k = NodeStorageKey(nk)
  BY <1>3, <1>4, NodeKeyIsEncoded DEF IsNodeKey
<1>6. PICK tv \in Strings : /\ tv = tag \o V /\ Len(tv) = 1 + vs /\ Has(tv, 1, V)
                            /\ tv # <<>> /\ tv[1] = Tags["n"]
  <2>1. tag \o V \in Strings /\ Len(tag \o V) = Len(tag) + Len(V) /\ Has(tag \o V, Len(tag), V)
    <3>. HIDE DEF V
    <3>. QED BY <1>2, ConcatHas
  <2>2. tag \o V # <<>> /\ (tag \o V)[1] = tag[1]
    <3>. HIDE DEF V
    <3>. QED BY <1>2, <1>3, ExtendedKey
  <2>. QED BY <1>2, <1>3, <2>1, <2>2
<1>7. PICK size \in Nat : size = (n + 1) \div 2
  OBVIOUS
<1>8. PICK m \in Nat : m = 1 + vs
  OBVIOUS
<1>9. /\ k \in Strings /\ Len(k) = (m + cs) + size
      /\ Slice(k, m, cs) = C /\ Slice(k, m + cs, size) = P /\ Slice(k, 0, m) = tv
  <2>1. k = (tv \o C) \o P
    BY <1>4, <1>6
  <2>. HIDE DEF V, C, P
  <2>2. m = Len(tv) /\ cs = Len(C) /\ size = Len(P) /\ C \in Strings /\ P \in Strings
    BY <1>2, <1>6, <1>7, <1>8
  <2>3. InRow(k, tv, C, P, m, cs, size)
    BY <2>1, <2>2, ThreeParts
  <2>. QED BY <2>3 DEF InRow
<1>10. Slice(k, 1, vs) = V /\ k[1] = Tags["n"]
  <2>. HIDE DEF V, C, P
  <2>1. PICK tvc \in Strings : tvc = tv \o C /\ Has(tvc, 1, V) /\ tvc # <<>> /\ tvc[1] = Tags["n"]
    <3>1. PICK one \in Nat : one = 1
      OBVIOUS
    <3>2. Has(tv \o C, one, V)
      BY <1>2, <1>6, <3>1, ExtensionHas
    <3>3. tv \o C \in Strings /\ tv \o C # <<>> /\ (tv \o C)[1] = tv[1]
      BY <1>2, <1>6, ExtendedKey
    <3>. QED BY <1>6, <3>1, <3>2, <3>3
  <2>2. PICK one \in Nat : one = 1
    OBVIOUS
  <2>3. Has(tvc \o P, one, V)
    BY <1>2, <2>1, <2>2, ExtensionHas
  <2>4. k = tvc \o P
    BY <1>4, <1>6, <2>1
  <2>5. k[1] = Tags["n"]
    BY <1>2, <2>1, <2>4, ExtendedKey
  <2>6. Slice(k, one, vs) = V
    BY <1>2, <1>9, <2>3, <2>4, SliceOfPart
  <2>. QED BY <2>2, <2>5, <2>6
<1>11. PICK head \in Nat : head = m + cs /\ head = (1 + vs) + cs
  BY <1>8
<1>12. Len(k) - head = size /\ ~ (Len(k) < head) /\ Len(k) = head + (n + 1) \div 2
  BY <1>7, <1>9, <1>11
<1>13. ~ (n > MaxTreeDepth)
  BY <1>1, EncodingParameters DEF IsNodeKey, MaxTreeDepth
<1>14. ParseNodeKey(k) = NodeKey(FromBigEndian(V), Unpack(P, n))
  <2>. HIDE DEF V, C, P
  <2>. QED BY <1>1, <1>2, <1>8, <1>9, <1>10, <1>11, <1>12, <1>13 DEF ParseNodeKey
<1>15. Unpack(P, n) = nk.path
  BY <1>1, UnpackPack DEF IsNodeKey
<1>16. ParseNodeKey(k) = nk
  BY <1>2, <1>14, <1>15 DEF NodeKey, IsNodeKey
<1>17. k = tag \o ((V \o C) \o P)
  <2>. HIDE DEF V, C, P
  <2>1. FourAlike(tag, V, C, P)
    BY <1>2, FourParts
  <2>. QED BY <1>4, <2>1 DEF FourAlike
<1>. QED BY <1>3, <1>5, <1>16, <1>17 DEF EncodeNodeKey

-----------------------------------------------------------------------------
(* Storage keys, read back and told apart.                                 *)

\* The key of a stored node.
LEMMA NodeEntry ==
    ASSUME NEW e \in Entries, e.kind = "node"
    PROVE  IsNodeKey(e.key)
<1>1. PICK B : B = 0 .. (NibbleBase - 1)
  OBVIOUS
<1>2. e.key \in [version : Versions, path : Seq(B)] /\ Len(e.key.path) <= MaxTreeDepth
  BY <1>1, StoreIsWritten DEF Stored
<1>3. e.key = [version |-> e.key.version, path |-> e.key.path]
  BY <1>2
<1>4. e.key.version \in Versions /\ e.key.path \in Seq(B)
  BY <1>2
<1>. QED BY <1>1, <1>2, <1>3, <1>4 DEF IsNodeKey, IsPath

\* The tag of a key tells the kind of its entry.
LEMMA TagTellsKind ==
    ASSUME NEW e \in Entries, NEW f \in Entries, StorageKey(e) = StorageKey(f)
    PROVE  e.kind = f.kind
<1>1. /\ e.kind \in {"root", "node", "value", "keyed"}
      /\ f.kind \in {"root", "node", "value", "keyed"}
  BY StoreIsWritten
<1>2. /\ TagOf(e) \in {"k", "n", "r", "v"} /\ IsKey(StorageKey(e), TagOf(e))
      /\ TagOf(f) \in {"k", "n", "r", "v"} /\ IsKey(StorageKey(f), TagOf(f))
  BY StorageKeyType
<1>3. Tags[TagOf(e)] = Tags[TagOf(f)]
  BY <1>2 DEF IsKey
<1>4. TagOf(e) = TagOf(f)
  BY <1>2, <1>3, EncodingParameters
<1>. QED BY <1>1, <1>4 DEF TagOf

\* What is put after a tag can be taken off again.
LEMMA AfterTag ==
    ASSUME NEW t \in {"k", "n", "r", "v"}, NEW n \in Nat, NEW s \in [1 .. n -> Bytes]
    PROVE  Slice(<<Tags[t]>> \o s, 1, n) = s
<1>1. PICK tag \in Strings : tag = <<Tags[t]>> /\ Len(tag) = 1
  <2>1. PICK x \in Nat : x = Tags[t]
    BY TagIsKey
  <2>2. <<x>> \in Strings /\ Len(<<x>>) = 1
    BY <2>1, TagIsKey
  <2>. QED BY <2>1, <2>2
<1>2. s \in Strings /\ n = Len(s)
  <2>1. s \in Seq(Bytes) /\ Len(s) = n
    OBVIOUS
  <2>. QED BY <2>1, BytesAreStrings
<1>3. tag \o s \in Strings /\ Has(tag \o s, Len(tag), s)
  BY <1>2, ConcatHas
<1>4. PICK k \in Strings, one \in Nat : k = tag \o s /\ one = 1 /\ Has(k, one, s)
  BY <1>1, <1>3
<1>5. Slice(k, one, n) = s
  BY <1>2, <1>4, SliceOfPart
<1>. QED BY <1>1, <1>4, <1>5

\* A key tells its entry.
LEMMA KeyTellsEntry ==
    ASSUME NEW e \in Entries, NEW f \in Entries, StorageKey(e) = StorageKey(f)
    PROVE  e = f
<1>1. e.kind = f.kind /\ e.kind \in {"root", "node", "value", "keyed"}
  BY TagTellsKind, StoreIsWritten
<1>2. NameOf(e) = NameOf(f)
  <2>1. CASE e.kind = "root"
    <3>1. e.version \in Versions /\ f.version \in Versions
      BY <1>1, <2>1, StoreIsWritten DEF Stored
    <3>2. RootKey(e.version) = RootKey(f.version)
      BY <1>1, <2>1 DEF StorageKey
    <3>3. e.version = f.version
      BY <3>1, <3>2, RootKeyParses
    <3>. QED BY <1>1, <2>1, <3>3 DEF NameOf
  <2>2. CASE e.kind = "node"
    <3>1. IsNodeKey(e.key) /\ IsNodeKey(f.key)
      BY <1>1, <2>2, NodeEntry
    <3>2. NodeStorageKey(e.key) = NodeStorageKey(f.key)
      BY <1>1, <2>2 DEF StorageKey
    <3>3. e.key = f.key
      BY <3>1, <3>2, NodeKeyParses
    <3>. QED BY <1>1, <2>2, <3>3 DEF NameOf
  <2>3. CASE e.kind = "value"
    <3>1. PICK n \in Nat : n = HashSize
      BY EncodingParameters
    <3>2. e.hash \in [1 .. n -> Bytes] /\ f.hash \in [1 .. n -> Bytes]
      BY <1>1, <2>3, <3>1, StoreIsWritten DEF Stored
    <3>3. <<Tags["v"]>> \o e.hash = <<Tags["v"]>> \o f.hash
      BY <1>1, <2>3 DEF StorageKey, ValueKey
    <3>4. /\ Slice(<<Tags["v"]>> \o e.hash, 1, n) = e.hash
          /\ Slice(<<Tags["v"]>> \o f.hash, 1, n) = f.hash
      BY <3>2, AfterTag
    <3>. QED BY <1>1, <2>3, <3>3, <3>4 DEF NameOf
  <2>4. CASE e.kind = "keyed"
    <3>1. PICK n \in Nat : n = KeySize
      BY EncodingParameters
    <3>2. e.key \in [1 .. n -> Bytes] /\ f.key \in [1 .. n -> Bytes]
      BY <1>1, <2>4, <3>1, StoreIsWritten DEF Stored
    <3>3. <<Tags["k"]>> \o e.key = <<Tags["k"]>> \o f.key
      BY <1>1, <2>4 DEF StorageKey, ValueKeyByKey
    <3>4. /\ Slice(<<Tags["k"]>> \o e.key, 1, n) = e.key
          /\ Slice(<<Tags["k"]>> \o f.key, 1, n) = f.key
      BY <3>2, AfterTag
    <3>. QED BY <1>1, <2>4, <3>3, <3>4 DEF NameOf
  <2>. QED BY <1>1, <2>1, <2>2, <2>3, <2>4
<1>. QED BY <1>1, <1>2, StoreIsWritten

\* Root keys parse as versions, and no other key does.
LEMMA OnlyRootsParse ==
    ASSUME NEW e \in Entries
    PROVE  ParseRootKey(StorageKey(e)) = IF e.kind = "root" THEN e.version ELSE NoVersion
<1>1. CASE e.kind = "root"
  <2>1. e.version \in Versions
    BY <1>1, StoreIsWritten DEF Stored
  <2>2. StorageKey(e) = RootKey(e.version)
    BY <1>1 DEF StorageKey
  <2>. QED BY <1>1, <2>1, <2>2, RootKeyParses
<1>2. CASE e.kind # "root"
  <2>1. ~ IsPrefix(RootKeyPrefix, StorageKey(e))
    BY <1>2, RootKeysStart
  <2>. QED BY <1>2, <2>1 DEF ParseRootKey
<1>. QED BY <1>1, <1>2

\* Node keys parse as node keys, and no other key does.
LEMMA OnlyNodesParse ==
    ASSUME NEW e \in Entries
    PROVE  ParseNodeKey(StorageKey(e)) = IF e.kind = "node" THEN e.key ELSE NoNodeKey
<1>1. CASE e.kind = "node"
  <2>1. IsNodeKey(e.key)
    BY <1>1, NodeEntry
  <2>2. StorageKey(e) = NodeStorageKey(e.key)
    BY <1>1 DEF StorageKey
  <2>. QED BY <1>1, <2>1, <2>2, NodeKeyParses
<1>2. CASE e.kind # "node"
  <2>1. TagOf(e) # "n"
    BY <1>2, StoreIsWritten DEF TagOf
  <2>2. TagOf(e) \in {"k", "n", "r", "v"} /\ IsKey(StorageKey(e), TagOf(e))
    BY StorageKeyType
  <2>3. StorageKey(e)[1] # Tags["n"]
    BY <2>1, <2>2, EncodingParameters DEF IsKey
  <2>. QED BY <1>2, <2>3 DEF ParseNodeKey
<1>. QED BY <1>1, <1>2

\* What a store holds can be told apart and read back from its keys.
LEMMA KeysReadBack ==
    ASSUME Sound(entries, engine, options)
    PROVE  StorageKeysAreFaithful
<1>1. entries \subseteq Entries
  BY DEF Sound
<1>2. ASSUME NEW e \in entries, NEW f \in entries, e # f
      PROVE  StorageKey(e) # StorageKey(f)
  BY <1>1, <1>2, KeyTellsEntry
<1>3. ASSUME NEW e \in entries
      PROVE  /\ ParseRootKey(StorageKey(e)) = IF e.kind = "root" THEN e.version ELSE NoVersion
             /\ ParseNodeKey(StorageKey(e)) = IF e.kind = "node" THEN e.key ELSE NoNodeKey
             /\ e.kind = "node" =>
                  /\ StorageKey(e) = <<Tags["n"]>> \o EncodeNodeKey(e.key)
                  /\ DecodeNodeKey(EncodeNodeKey(e.key)) = e.key
  <2>1. e \in Entries
    BY <1>1
  <2>2. ASSUME e.kind = "node"
        PROVE  /\ StorageKey(e) = <<Tags["n"]>> \o EncodeNodeKey(e.key)
               /\ DecodeNodeKey(EncodeNodeKey(e.key)) = e.key
    <3>1. IsNodeKey(e.key)
      BY <2>1, <2>2, NodeEntry
    <3>2. StorageKey(e) = NodeStorageKey(e.key)
      BY <2>2 DEF StorageKey
    <3>. QED BY <3>1, <3>2, NodeKeyParses, NodeKeyDecodes
  <2>3. ParseRootKey(StorageKey(e)) = IF e.kind = "root" THEN e.version ELSE NoVersion
    BY <2>1, OnlyRootsParse
  <2>4. ParseNodeKey(StorageKey(e)) = IF e.kind = "node" THEN e.key ELSE NoNodeKey
    BY <2>1, OnlyNodesParse
  <2>. QED BY <2>2, <2>3, <2>4
<1>. QED BY <1>2, <1>3 DEF StorageKeysAreFaithful

-----------------------------------------------------------------------------
(* The order of storage keys.                                              *)

\* Of two numbers, the multiple of the larger is at least one more.
LEMMA NextMultiple ==
    ASSUME NEW b \in Nat, NEW u \in Nat, NEW v \in Nat, u < v
    PROVE  u * b + b <= v * b /\ u * b \in Nat /\ v * b \in Nat
<1>1. PICK d \in Nat : v = (u + 1) + d
  <2>1. v - (u + 1) \in Nat /\ v = (u + 1) + (v - (u + 1))
    OBVIOUS
  <2>. QED BY <2>1
<1>2. v * b = (u * b + b) + d * b /\ d * b \in Nat /\ u * b \in Nat
  BY <1>1
<1>. QED BY <1>2

\* What two numbers read so far have to do with each other, where their bytes
\* differ first at position i.
Apart(g, h, i, k) ==
    /\ g[k] \in Nat /\ h[k] \in Nat
    /\ IF k < i THEN g[k] = h[k] ELSE g[k] < h[k]

\* One more byte.
LEMMA ReadingStep ==
    ASSUME NEW b \in Nat, NEW x \in 0 .. (b - 1), NEW y \in 0 .. (b - 1),
           NEW g, NEW h, NEW i \in Nat \ {0}, NEW k \in Nat, Apart(g, h, i, k),
           g[k + 1] = g[k] * b + x, h[k + 1] = h[k] * b + y,
           k + 1 < i => x = y, k + 1 = i => x < y
    PROVE  Apart(g, h, i, k + 1)
<1>1. PICK u \in Nat, v \in Nat : u = g[k] /\ v = h[k]
  BY DEF Apart
<1>2. u * b \in Nat /\ v * b \in Nat
  OBVIOUS
<1>3. PICK p, q : p = g[k + 1] /\ q = h[k + 1] /\ p = u * b + x /\ q = v * b + y
  BY <1>1
<1>4. p \in Nat /\ q \in Nat
  BY <1>2, <1>3
<1>5. IF k + 1 < i THEN p = q ELSE p < q
  <2>1. CASE k + 1 < i
    <3>1. u = v
      BY <1>1, <2>1 DEF Apart
    <3>. QED BY <1>3, <2>1, <3>1
  <2>2. CASE k + 1 = i
    <3>1. u = v
      BY <1>1, <2>2 DEF Apart
    <3>. QED BY <1>2, <1>3, <2>2, <3>1
  <2>3. CASE k + 1 > i
    <3>1. u < v
      BY <1>1, <2>3 DEF Apart
    <3>2. u * b + b <= v * b
      BY <3>1, NextMultiple
    <3>. QED BY <1>2, <1>3, <2>3, <3>2
  <2>. QED BY <2>1, <2>2, <2>3
<1>. QED BY <1>3, <1>4, <1>5 DEF Apart

\* Big-endian bytes are in the order of the numbers they stand for.
LEMMA NumbersInOrder ==
    ASSUME NEW n \in Nat, NEW a \in [1 .. n -> Bytes], NEW b \in [1 .. n -> Bytes], BytesLess(a, b)
    PROVE  FromBigEndian(a) \in Nat /\ FromBigEndian(b) \in Nat /\ FromBigEndian(a) < FromBigEndian(b)
<1>1. a \in Strings /\ b \in Strings /\ Len(a) = n /\ Len(b) = n
  <2>1. a \in Seq(Bytes) /\ b \in Seq(Bytes) /\ Len(a) = n /\ Len(b) = n
    OBVIOUS
  <2>. QED BY <2>1, BytesAreStrings
<1>2. PICK i \in Nat \ {0} : DecidedAt(a, b, i)
  BY <1>1, LessIsDecided
<1>3. i \in 1 .. n
  <2>. SUFFICES ASSUME i \notin 1 .. n PROVE FALSE
    OBVIOUS
  <2>1. Pad(a, i) = -1 /\ Pad(b, i) = -1
    BY <1>1 DEF Pad
  <2>. QED BY <1>2, <2>1 DEF DecidedAt
<1>4. a[i] < b[i] /\ \A j \in 1 .. (i - 1) : a[j] = b[j]
  <2>1. ASSUME NEW j \in 1 .. n PROVE Pad(a, j) = a[j] /\ Pad(b, j) = b[j]
    BY <1>1 DEF Pad
  <2>. QED BY <1>2, <1>3, <2>1 DEF DecidedAt
<1>5. PICK B \in Nat : B = Byte /\ Bytes = 0 .. (B - 1)
  BY ByteIsPositive DEF Bytes
<1>6. a \in [1 .. n -> Nat] /\ b \in [1 .. n -> Nat]
  BY <1>5
<1>7. PICK g : IsReading(g, a, n)
  BY <1>6, NumberSteps
<1>8. PICK h : IsReading(h, b, n)
  BY <1>6, NumberSteps
<1>. DEFINE T == {k \in Nat : k <= n => Apart(g, h, i, k)}
<1>9. 0 \in T
  <2>1. g[0] = 0 /\ h[0] = 0
    BY <1>7, <1>8 DEF IsReading
  <2>. QED BY <2>1 DEF Apart
<1>10. ASSUME NEW k \in Nat, k \in T PROVE k + 1 \in T
  <2>. SUFFICES ASSUME k + 1 <= n PROVE Apart(g, h, i, k + 1)
    OBVIOUS
  <2>1. Apart(g, h, i, k)
    BY <1>10
  <2>2. PICK m \in 1 .. n : m = k + 1 /\ m - 1 = k
    OBVIOUS
  <2>3. g[m] = g[m - 1] * Byte + a[m] /\ h[m] = h[m - 1] * Byte + b[m]
    BY <1>7, <1>8 DEF IsReading
  <2>4. PICK x \in 0 .. (B - 1), y \in 0 .. (B - 1) : x = a[m] /\ y = b[m]
    BY <1>5
  <2>5. g[k + 1] = g[k] * B + x /\ h[k + 1] = h[k] * B + y
    BY <1>5, <2>2, <2>3, <2>4
  <2>6. (k + 1 < i => x = y) /\ (k + 1 = i => x < y)
    BY <1>4, <2>2, <2>4
  <2>. QED BY <2>1, <2>5, <2>6, ReadingStep
<1>11. n \in T
  <2>. HIDE DEF T
  <2>. QED BY <1>9, <1>10, Induction
<1>12. Apart(g, h, i, n)
  BY <1>11
<1>. QED BY <1>3, <1>7, <1>8, <1>12 DEF Apart, IsReading

\* Big-endian numbers are in the order of what they stand for.
LEMMA BigEndianOrder ==
    ASSUME NEW n \in Nat, NEW u \in Nat, u < Power(n), NEW v \in Nat, v < Power(n)
    PROVE  BytesLess(BigEndian(u, n), BigEndian(v, n)) <=> u < v
<1>1. PICK a \in [1 .. n -> Bytes], b \in [1 .. n -> Bytes] : a = BigEndian(u, n) /\ b = BigEndian(v, n)
  BY BigEndianType
<1>2. FromBigEndian(a) = u /\ FromBigEndian(b) = v
  BY <1>1, BigEndianInverse
<1>3. a \in Strings /\ b \in Strings
  BY <1>1, FieldType
<1>4. ASSUME BytesLess(a, b) PROVE u < v
  BY <1>2, <1>4, NumbersInOrder
<1>5. ASSUME u < v PROVE BytesLess(a, b)
  <2>1. a # b
    BY <1>2, <1>5
  <2>2. CASE BytesLess(b, a)
    <3>1. v < u
      BY <1>2, <2>2, NumbersInOrder
    <3>. QED BY <1>5, <3>1
  <2>. QED BY <1>3, <2>1, <2>2, LessTotal
<1>. QED BY <1>1, <1>4, <1>5

\* A string is one of length x and another one.
Joined(k, s, t, x) ==
    /\ k \in Strings
    /\ \A j \in 1 .. x : Pad(k, j) = s[j]
    /\ \A j \in Nat \ {0} : Pad(k, x + j) = Pad(t, j)

\* The bytes of a concatenation.
LEMMA ConcatPad ==
    ASSUME NEW s \in Strings, NEW t \in Strings, NEW x \in Nat, x = Len(s), NEW k, k = s \o t
    PROVE  Joined(k, s, t, x)
<1>1. PICK y \in Nat : y = Len(t)
  BY DEF Strings
<1>2. k \in Strings /\ Len(k) = x + y /\ Has(k, 0, s) /\ Has(k, x, t)
  <2>1. /\ s \o t \in Strings /\ Len(s \o t) = Len(s) + Len(t)
        /\ Has(s \o t, 0, s) /\ Has(s \o t, Len(s), t)
    BY ConcatHas
  <2>. QED BY <1>1, <2>1
<1>3. ASSUME NEW j \in 1 .. x PROVE Pad(k, j) = s[j]
  <2>1. k[0 + j] = s[j] /\ 0 + j = j
    BY <1>2 DEF Has
  <2>2. j \in 1 .. (x + y)
    BY <1>1
  <2>. QED BY <1>2, <2>1, <2>2 DEF Pad
<1>4. ASSUME NEW j \in Nat \ {0} PROVE Pad(k, x + j) = Pad(t, j)
  <2>1. CASE j \in 1 .. y
    <3>1. k[x + j] = t[j]
      BY <1>1, <1>2, <2>1 DEF Has
    <3>2. x + j \in 1 .. (x + y)
      BY <2>1
    <3>. QED BY <1>1, <1>2, <2>1, <3>1, <3>2 DEF Pad
  <2>2. CASE j \notin 1 .. y
    <3>1. x + j \notin 1 .. (x + y)
      BY <2>2
    <3>. QED BY <1>1, <1>2, <2>2, <3>1 DEF Pad
  <2>. QED BY <2>1, <2>2
<1>. QED BY <1>2, <1>3, <1>4 DEF Joined

\* Strings of one length decide the order of what they begin.
LEMMA HeadDecides ==
    ASSUME NEW a \in Strings, NEW b \in Strings, Len(a) = Len(b), BytesLess(a, b),
           NEW c \in Strings, NEW d \in Strings
    PROVE  BytesLess(a \o c, b \o d)
<1>1. PICK x \in Nat : x = Len(a) /\ x = Len(b)
  BY DEF Strings
<1>2. PICK i \in Nat \ {0} : DecidedAt(a, b, i)
  BY LessIsDecided
<1>3. i \in 1 .. x
  <2>. SUFFICES ASSUME i \notin 1 .. x PROVE FALSE
    OBVIOUS
  <2>1. Pad(a, i) = -1 /\ Pad(b, i) = -1
    BY <1>1 DEF Pad
  <2>. QED BY <1>2, <2>1 DEF DecidedAt
<1>4. PICK k, l : k = a \o c /\ l = b \o d
  OBVIOUS
<1>5. Joined(k, a, c, x) /\ Joined(l, b, d, x)
  BY <1>1, <1>4, ConcatPad
<1>6. ASSUME NEW j \in 1 .. x PROVE Pad(k, j) = Pad(a, j) /\ Pad(l, j) = Pad(b, j)
  BY <1>1, <1>5 DEF Pad, Joined
<1>7. DecidedAt(k, l, i)
  BY <1>2, <1>3, <1>6 DEF DecidedAt
<1>8. k \in Strings /\ l \in Strings
  BY <1>5 DEF Joined
<1>. QED BY <1>4, <1>7, <1>8, LessIsDecided

\* After the same string the order is that of what follows.
LEMMA TailDecides ==
    ASSUME NEW a \in Strings, NEW c \in Strings, NEW d \in Strings, BytesLess(c, d)
    PROVE  BytesLess(a \o c, a \o d)
<1>1. PICK x \in Nat : x = Len(a)
  BY DEF Strings
<1>2. PICK i \in Nat \ {0} : DecidedAt(c, d, i)
  BY LessIsDecided
<1>3. PICK k, l : k = a \o c /\ l = a \o d
  OBVIOUS
<1>4. Joined(k, a, c, x) /\ Joined(l, a, d, x)
  BY <1>1, <1>3, ConcatPad
<1>5. /\ k \in Strings /\ l \in Strings
      /\ \A j \in 1 .. x : Pad(k, j) = Pad(l, j)
      /\ \A j \in Nat \ {0} : Pad(k, x + j) = Pad(c, j)
      /\ \A j \in Nat \ {0} : Pad(l, x + j) = Pad(d, j)
  BY <1>4 DEF Joined
<1>6. PICK m \in Nat \ {0} : m = x + i
  OBVIOUS
<1>7. Pad(k, m) < Pad(l, m)
  BY <1>2, <1>5, <1>6 DEF DecidedAt
<1>8. ASSUME NEW j \in 1 .. (m - 1) PROVE Pad(k, j) = Pad(l, j)
  <2>1. CASE j <= x
    BY <1>5, <2>1
  <2>2. CASE j > x
    <3>1. PICK h \in 1 .. (i - 1) : j = x + h
      <4>1. j - x \in 1 .. (i - 1) /\ j = x + (j - x)
        BY <1>6, <2>2
      <4>. QED BY <4>1
    <3>2. Pad(c, h) = Pad(d, h)
      BY <1>2 DEF DecidedAt
    <3>. QED BY <1>5, <3>1, <3>2
  <2>. QED BY <2>1, <2>2
<1>9. DecidedAt(k, l, m)
  BY <1>7, <1>8 DEF DecidedAt
<1>. QED BY <1>3, <1>5, <1>9, LessIsDecided

\* Two sequences part at a position, or one goes as far as the other one.
PartAt(p, q, i) ==
    /\ i \in 1 .. Len(p) /\ i \in 1 .. Len(q) /\ p[i] # q[i]
    /\ \A j \in 1 .. (i - 1) : p[j] = q[j]
Agree(p, q) == \A j \in 1 .. Len(p) : j \in 1 .. Len(q) => p[j] = q[j]

\* Comparing two paths looks where they part.
LEMMA PathsCompared ==
    ASSUME NEW p \in Strings, NEW q \in Strings
    PROVE  \/ /\ Agree(p, q) /\ ComparePaths(p, q) = Sign(Len(p) - Len(q))
              /\ CommonPrefixLength(p, q) = Min({Len(p), Len(q)})
           \/ \E i \in Nat \ {0} : /\ PartAt(p, q, i) /\ ComparePaths(p, q) = Sign(p[i] - q[i])
                                   /\ CommonPrefixLength(p, q) = i - 1
<1>1. PICK x \in Nat, y \in Nat : /\ x = Len(p) /\ y = Len(q) /\ DOMAIN p = 1 .. x /\ DOMAIN q = 1 .. y
  BY DEF Strings
<1>2. PICK D : D = {i \in DOMAIN p \cap DOMAIN q : p[i] # q[i]}
  OBVIOUS
<1>3. /\ ComparePaths(p, q) = IF D # {} THEN Sign(p[Min(D)] - q[Min(D)]) ELSE Sign(Len(p) - Len(q))
      /\ CommonPrefixLength(p, q) = IF D # {} THEN Min(D) - 1 ELSE Min({Len(p), Len(q)})
  BY <1>2 DEF ComparePaths, CommonPrefixLength
<1>4. CASE D = {}
  <2>1. Agree(p, q)
    BY <1>1, <1>2, <1>4 DEF Agree
  <2>. QED BY <1>3, <1>4, <2>1
<1>5. CASE D # {}
  <2>1. D \in SUBSET Nat
    BY <1>1, <1>2
  <2>2. \E n \in D : \A m \in D : n <= m
    BY <1>5, <2>1, LeastElement
  <2>3. PICK i \in D : i = Min(D) /\ \A m \in D : i <= m
    BY <2>2 DEF Min
  <2>4. i \in 1 .. x /\ i \in 1 .. y /\ p[i] # q[i] /\ i \in Nat \ {0}
    BY <1>1, <1>2, <2>3
  <2>5. ASSUME NEW j \in 1 .. (i - 1) PROVE p[j] = q[j]
    <3>1. j \in DOMAIN p \cap DOMAIN q /\ ~ (i <= j)
      BY <1>1, <2>4
    <3>2. j \notin D
      BY <2>3, <3>1
    <3>. QED BY <1>2, <3>1, <3>2
  <2>6. PartAt(p, q, i)
    BY <1>1, <2>4, <2>5 DEF PartAt
  <2>. QED BY <1>3, <1>5, <2>3, <2>4, <2>6
<1>. QED BY <1>4, <1>5

\* Two packed bytes whose nibbles are in order.
LEMMA BytesOfNibbles ==
    ASSUME NEW b \in Nat, NEW h \in 0 .. (b - 1), NEW l \in 0 .. (b - 1),
           NEW g \in 0 .. (b - 1), NEW m \in 0 .. (b - 1), h < g \/ (h = g /\ l < m)
    PROVE  h * b + l < g * b + m
<1>1. h * b \in Nat /\ g * b \in Nat
  OBVIOUS
<1>2. CASE h < g
  <2>1. h * b + b <= g * b
    BY <1>2, NextMultiple
  <2>. QED BY <1>1, <2>1
<1>3. CASE h = g /\ l < m
  BY <1>1, <1>3
<1>. QED BY <1>2, <1>3

\* Paths of one length are packed in their order.
LEMMA PackedInOrder ==
    ASSUME NEW p, IsPath(p), NEW q, IsPath(q), Len(p) = Len(q), NEW i \in Nat, PartAt(p, q, i), p[i] < q[i]
    PROVE  BytesLess(Pack(p), Pack(q))
<1>1. PICK n \in Nat : n = Len(p) /\ n = Len(q) /\ i \in 1 .. n
  BY PathType DEF PartAt
<1>2. PICK size \in Nat : size = (n + 1) \div 2
  OBVIOUS
<1>3. PICK s \in Strings, t \in Strings :
         /\ s = Pack(p) /\ t = Pack(q) /\ Len(s) = size /\ Len(t) = size
         /\ \A c \in 1 .. size : PackedByte(p, c, s[c]) /\ PackedByte(q, c, t[c])
  <2>1. /\ Pack(p) \in Strings /\ Len(Pack(p)) = (Len(p) + 1) \div 2
        /\ \A c \in 1 .. Len(Pack(p)) : PackedByte(p, c, Pack(p)[c])
    BY PackType
  <2>2. /\ Pack(q) \in Strings /\ Len(Pack(q)) = (Len(q) + 1) \div 2
        /\ \A c \in 1 .. Len(Pack(q)) : PackedByte(q, c, Pack(q)[c])
    BY PackType
  <2>3. Len(Pack(p)) = size /\ Len(Pack(q)) = size
    BY <1>1, <1>2, <2>1, <2>2
  <2>. QED BY <2>1, <2>2, <2>3
<1>4. PICK b \in Nat \ {0} : b = (i + 1) \div 2 /\ (i = 2 * b - 1 \/ i = 2 * b)
  BY <1>1, Halves
<1>5. b \in 1 .. size
  BY <1>1, <1>2, <1>4
<1>6. PICK N \in Nat : N = NibbleBase
  BY EncodingParameters
<1>7. ASSUME NEW c \in 1 .. (b - 1) PROVE s[c] = t[c]
  <2>1. PackedByte(p, c, s[c]) /\ PackedByte(q, c, t[c])
    BY <1>3, <1>5
  <2>2. 2 * c - 1 \in 1 .. (i - 1) /\ 2 * c \in 1 .. (i - 1) /\ 2 * c <= n
    BY <1>1, <1>4
  <2>3. p[2 * c - 1] = q[2 * c - 1] /\ p[2 * c] = q[2 * c]
    BY <2>2 DEF PartAt
  <2>. QED BY <1>1, <2>1, <2>2, <2>3 DEF PackedByte
<1>8. s[b] < t[b]
  <2>1. PICK h, l \in 0 .. (N - 1) :
           /\ s[b] = h * N + l /\ h = p[2 * b - 1] /\ l = IF 2 * b <= n THEN p[2 * b] ELSE 0
    <3>1. PackedByte(p, b, s[b])
      BY <1>3, <1>5
    <3>. QED BY <1>1, <1>6, <3>1 DEF PackedByte
  <2>2. PICK g, m \in 0 .. (N - 1) :
           /\ t[b] = g * N + m /\ g = q[2 * b - 1] /\ m = IF 2 * b <= n THEN q[2 * b] ELSE 0
    <3>1. PackedByte(q, b, t[b])
      BY <1>3, <1>5
    <3>. QED BY <1>1, <1>6, <3>1 DEF PackedByte
  <2>3. h < g \/ (h = g /\ l < m)
    <3>1. CASE i = 2 * b - 1
      BY <2>1, <2>2, <3>1
    <3>2. CASE i = 2 * b
      <4>1. 2 * b - 1 \in 1 .. (i - 1) /\ 2 * b <= n
        BY <1>1, <3>2
      <4>2. p[2 * b - 1] = q[2 * b - 1]
        BY <4>1 DEF PartAt
      <4>3. h = g
        BY <2>1, <2>2, <4>2
      <4>4. l = p[i] /\ m = q[i]
        BY <2>1, <2>2, <3>2, <4>1
      <4>. QED BY <4>3, <4>4
    <3>. QED BY <1>4, <3>1, <3>2
  <2>4. h * N + l < g * N + m
    BY <2>3, BytesOfNibbles
  <2>. QED BY <2>1, <2>2, <2>4
<1>9. DecidedAt(s, t, b)
  <2>1. ASSUME NEW c \in 1 .. b PROVE Pad(s, c) = s[c] /\ Pad(t, c) = t[c]
    BY <1>3, <1>5 DEF Pad
  <2>2. Pad(s, b) < Pad(t, b)
    BY <1>8, <2>1
  <2>3. ASSUME NEW c \in 1 .. (b - 1) PROVE Pad(s, c) = Pad(t, c)
    BY <1>7, <2>1
  <2>. QED BY <2>2, <2>3 DEF DecidedAt
<1>. QED BY <1>3, <1>9, LessIsDecided

\* The order of strings goes one way.
LEMMA LessOneWay ==
    ASSUME NEW a \in Strings, NEW b \in Strings, BytesLess(a, b)
    PROVE  ~ BytesLess(b, a)
BY LessIrreflexive, LessTransitive

\* Sequences that part do so at the same place, whichever is named first.
LEMMA PartsBothWays ==
    ASSUME NEW p, NEW q, NEW i, PartAt(p, q, i)
    PROVE  PartAt(q, p, i)
BY DEF PartAt

\* Sequences of one length that agree are equal.
LEMMA AgreeIsEqual ==
    ASSUME NEW p \in Strings, NEW q \in Strings, Len(p) = Len(q), Agree(p, q)
    PROVE  p = q
BY SameString DEF Agree

\* Paths of one length are packed in the order of Compare.
LEMMA PackOrder ==
    ASSUME NEW p, IsPath(p), NEW q, IsPath(q), Len(p) = Len(q)
    PROVE  BytesLess(Pack(p), Pack(q)) <=> ComparePaths(p, q) = -1
<1>1. /\ p \in Strings /\ q \in Strings /\ Len(p) \in Nat
      /\ \A i \in 1 .. Len(p) : p[i] \in Nat /\ q[i] \in Nat
  BY PathType
<1>2. Pack(p) \in Strings /\ Pack(q) \in Strings
  BY PackType
<1>3. CASE Agree(p, q) /\ ComparePaths(p, q) = Sign(Len(p) - Len(q))
  <2>1. p = q
    BY <1>1, <1>3, AgreeIsEqual
  <2>2. ComparePaths(p, q) # -1
    BY <1>1, <1>3 DEF Sign
  <2>3. ~ BytesLess(Pack(p), Pack(q))
    BY <1>2, <2>1, LessIrreflexive
  <2>. QED BY <2>2, <2>3
<1>4. CASE \E i \in Nat \ {0} : PartAt(p, q, i) /\ ComparePaths(p, q) = Sign(p[i] - q[i])
  <2>1. PICK i \in Nat \ {0} : PartAt(p, q, i) /\ ComparePaths(p, q) = Sign(p[i] - q[i])
    BY <1>4
  <2>2. p[i] \in Nat /\ q[i] \in Nat /\ p[i] # q[i] /\ PartAt(q, p, i)
    BY <1>1, <2>1, PartsBothWays DEF PartAt
  <2>3. CASE p[i] < q[i]
    <3>1. BytesLess(Pack(p), Pack(q))
      BY <2>1, <2>3, PackedInOrder
    <3>2. ComparePaths(p, q) = -1
      BY <2>1, <2>2, <2>3 DEF Sign
    <3>. QED BY <3>1, <3>2
  <2>4. CASE q[i] < p[i]
    <3>1. BytesLess(Pack(q), Pack(p))
      BY <2>2, <2>4, PackedInOrder
    <3>2. ComparePaths(p, q) # -1
      BY <2>1, <2>2, <2>4 DEF Sign
    <3>. QED BY <1>2, <3>1, <3>2, LessOneWay
  <2>. QED BY <2>2, <2>3, <2>4
<1>. QED BY <1>1, <1>3, <1>4, PathsCompared

\* The key of a root, and its bytes in order.
LEMMA RootOrder ==
    ASSUME NEW u \in Versions, NEW v \in Versions
    PROVE  BytesLess(RootKey(u), RootKey(v)) <=> u < v
<1>1. u \in Nat /\ v \in Nat /\ u < Power(VersionSize) /\ v < Power(VersionSize)
  BY VersionFits
<1>2. PICK n \in Nat : n = VersionSize
  BY EncodingParameters
<1>3. PICK tag \in Strings : tag = RootKeyPrefix
  BY TagIsKey DEF RootKeyPrefix
<1>4. PICK a \in Strings, b \in Strings : a = BigEndian(u, n) /\ b = BigEndian(v, n)
  BY <1>1, <1>2, FieldType
<1>5. /\ BytesLess(a, b) <=> u < v
      /\ BytesLess(b, a) <=> v < u
  BY <1>1, <1>2, <1>4, BigEndianOrder
<1>6. RootKey(u) = tag \o a /\ RootKey(v) = tag \o b
  BY <1>2, <1>3, <1>4 DEF RootKey
<1>7. tag \o a \in Strings /\ tag \o b \in Strings
  BY ConcatHas
<1>8. CASE u < v
  <2>1. BytesLess(tag \o a, tag \o b)
    BY <1>5, <1>8, TailDecides
  <2>. QED BY <1>6, <1>8, <2>1
<1>9. CASE v < u
  <2>1. BytesLess(tag \o b, tag \o a)
    BY <1>5, <1>9, TailDecides
  <2>2. ~ BytesLess(tag \o a, tag \o b)
    BY <1>7, <2>1, LessOneWay
  <2>. QED BY <1>1, <1>6, <1>9, <2>2
<1>10. CASE u = v
  <2>1. ~ BytesLess(tag \o a, tag \o b)
    BY <1>4, <1>7, <1>10, LessIrreflexive
  <2>. QED BY <1>1, <1>6, <1>10, <2>1
<1>. QED BY <1>1, <1>8, <1>9, <1>10

\* The key of a node from its end.
LEMMA NodeKeyInParts ==
    ASSUME NEW nk, IsNodeKey(nk)
    PROVE  NodeStorageKey(nk) =
              <<Tags["n"]>> \o (BigEndian(nk.version, VersionSize)
                                  \o (BigEndian(Len(nk.path), CountSize) \o Pack(nk.path)))
<1>1. PICK a \in Strings, c \in Strings, p \in Strings :
         /\ a = BigEndian(nk.version, VersionSize)
         /\ c = BigEndian(Len(nk.path), CountSize) /\ p = Pack(nk.path)
  BY NodeKeyFields
<1>2. ThreeAlike(a, c, p)
  BY ConcatAssociates
<1>. QED BY <1>1, <1>2, NodeKeyParses DEF EncodeNodeKey, ThreeAlike

\* Keys of nodes: the version decides first.
LEMMA NodeVersionDecides ==
    ASSUME NEW j, IsNodeKey(j), NEW k, IsNodeKey(k), j.version < k.version
    PROVE  BytesLess(NodeStorageKey(j), NodeStorageKey(k))
<1>1. PICK tag \in Strings : tag = <<Tags["n"]>>
  BY TagIsKey
<1>2. PICK n \in Nat : n = VersionSize
  BY EncodingParameters
<1>3. PICK a \in Strings, b \in Strings :
         a = BigEndian(j.version, VersionSize) /\ b = BigEndian(k.version, VersionSize)
         /\ Len(a) = n /\ Len(b) = n
  BY <1>2, NodeKeyFields
<1>4. PICK c \in Strings, p \in Strings : c = BigEndian(Len(j.path), CountSize) /\ p = Pack(j.path)
  BY NodeKeyFields
<1>5. PICK d \in Strings, q \in Strings : d = BigEndian(Len(k.path), CountSize) /\ q = Pack(k.path)
  BY NodeKeyFields
<1>6. BytesLess(a, b)
  <2>1. /\ j.version \in Nat /\ j.version < Power(VersionSize)
        /\ k.version \in Nat /\ k.version < Power(VersionSize)
    BY VersionFits DEF IsNodeKey
  <2>. QED BY <1>2, <1>3, <2>1, BigEndianOrder
<1>7. PICK cp \in Strings, dq \in Strings : cp = c \o p /\ dq = d \o q
  BY ConcatHas
<1>8. PICK x \in Strings, y \in Strings : x = a \o cp /\ y = b \o dq
  BY ConcatHas
<1>9. BytesLess(x, y)
  BY <1>3, <1>6, <1>8, HeadDecides
<1>10. BytesLess(tag \o x, tag \o y)
  BY <1>9, TailDecides
<1>11. NodeStorageKey(j) = tag \o x /\ NodeStorageKey(k) = tag \o y
  BY <1>1, <1>3, <1>4, <1>5, <1>7, <1>8, NodeKeyInParts
<1>. QED BY <1>10, <1>11

\* Keys of nodes of one version and depth: the path decides.
LEMMA NodePathDecides ==
    ASSUME NEW j, IsNodeKey(j), NEW k, IsNodeKey(k), j.version = k.version,
           Len(j.path) = Len(k.path), BytesLess(Pack(j.path), Pack(k.path))
    PROVE  BytesLess(NodeStorageKey(j), NodeStorageKey(k))
<1>1. PICK tag \in Strings : tag = <<Tags["n"]>>
  BY TagIsKey
<1>2. PICK a \in Strings, c \in Strings :
         a = BigEndian(j.version, VersionSize) /\ c = BigEndian(Len(j.path), CountSize)
  BY NodeKeyFields
<1>3. PICK p \in Strings, q \in Strings : p = Pack(j.path) /\ q = Pack(k.path)
  BY NodeKeyFields
<1>4. PICK ac \in Strings : ac = a \o c
  BY ConcatHas
<1>5. PICK x \in Strings, y \in Strings : x = ac \o p /\ y = ac \o q
  BY ConcatHas
<1>6. BytesLess(x, y)
  BY <1>3, <1>5, TailDecides
<1>7. BytesLess(tag \o x, tag \o y)
  BY <1>6, TailDecides
<1>8. NodeStorageKey(j) = tag \o x
  BY <1>1, <1>2, <1>3, <1>4, <1>5, NodeKeyParses DEF EncodeNodeKey
<1>9. NodeStorageKey(k) = tag \o y
  BY <1>1, <1>2, <1>3, <1>4, <1>5, NodeKeyParses DEF EncodeNodeKey
<1>. QED BY <1>7, <1>8, <1>9

\* Keys of nodes of one depth are in the order of NodeKey.Compare.
LEMMA NodeOrder ==
    ASSUME NEW j, IsNodeKey(j), NEW k, IsNodeKey(k), Len(j.path) = Len(k.path),
           NodeStorageKey(j) \in Strings, NodeStorageKey(k) \in Strings
    PROVE  BytesLess(NodeStorageKey(j), NodeStorageKey(k)) <=> CompareNodeKeys(j, k) = -1
<1>1. j.version \in Nat /\ k.version \in Nat
  BY VersionFits DEF IsNodeKey
<1>2. CASE j.version < k.version
  <2>1. CompareNodeKeys(j, k) = -1
    BY <1>1, <1>2 DEF CompareNodeKeys, Sign
  <2>. QED BY <1>2, <2>1, NodeVersionDecides
<1>3. CASE k.version < j.version
  <2>1. CompareNodeKeys(j, k) # -1
    BY <1>1, <1>3 DEF CompareNodeKeys, Sign
  <2>2. BytesLess(NodeStorageKey(k), NodeStorageKey(j))
    BY <1>3, NodeVersionDecides
  <2>. QED BY <2>1, <2>2, LessOneWay
<1>4. CASE j.version = k.version
  <2>1. CompareNodeKeys(j, k) = ComparePaths(j.path, k.path)
    BY <1>4 DEF CompareNodeKeys
  <2>2. IsPath(j.path) /\ IsPath(k.path)
    BY DEF IsNodeKey
  <2>3. BytesLess(Pack(j.path), Pack(k.path)) <=> ComparePaths(j.path, k.path) = -1
    BY <2>2, PackOrder
  <2>4. Pack(j.path) \in Strings /\ Pack(k.path) \in Strings
    BY <2>2, PackType
  <2>5. CASE BytesLess(Pack(j.path), Pack(k.path))
    BY <1>4, <2>1, <2>3, <2>5, NodePathDecides
  <2>6. CASE BytesLess(Pack(k.path), Pack(j.path))
    <3>1. BytesLess(NodeStorageKey(k), NodeStorageKey(j))
      BY <1>4, <2>6, NodePathDecides
    <3>2. ~ BytesLess(NodeStorageKey(j), NodeStorageKey(k))
      BY <3>1, LessOneWay
    <3>3. ~ BytesLess(Pack(j.path), Pack(k.path))
      BY <2>4, <2>6, LessOneWay
    <3>. QED BY <2>1, <2>3, <3>2, <3>3
  <2>7. CASE Pack(j.path) = Pack(k.path)
    <3>1. j.path = k.path
      BY <2>2, <2>7, UnpackPack
    <3>2. j = k
      BY <1>4, <3>1 DEF IsNodeKey
    <3>3. ~ BytesLess(NodeStorageKey(j), NodeStorageKey(k))
      BY <3>2, LessIrreflexive
    <3>4. ~ BytesLess(Pack(j.path), Pack(k.path))
      BY <2>4, <2>7, LessIrreflexive
    <3>. QED BY <2>1, <2>3, <3>3, <3>4
  <2>. QED BY <2>4, <2>5, <2>6, <2>7, LessTotal
<1>. QED BY <1>1, <1>2, <1>3, <1>4

\* What a store holds is in the order of versions and paths.
LEMMA KeysAreOrdered ==
    ASSUME Sound(entries, engine, options)
    PROVE  StorageOrderIsVersionOrder
<1>1. entries \subseteq Entries
  BY DEF Sound
<1>2. ASSUME NEW e \in entries, NEW f \in entries, e.kind = "root", f.kind = "root"
      PROVE  BytesLess(StorageKey(e), StorageKey(f)) <=> e.version < f.version
  <2>1. e.version \in Versions /\ f.version \in Versions
    BY <1>1, <1>2, StoreIsWritten DEF Stored
  <2>2. StorageKey(e) = RootKey(e.version) /\ StorageKey(f) = RootKey(f.version)
    BY <1>2 DEF StorageKey
  <2>. QED BY <2>1, <2>2, RootOrder
<1>3. ASSUME NEW e \in entries, NEW f \in entries, e.kind = "node", f.kind = "node"
      PROVE  /\ e.key.version < f.key.version => BytesLess(StorageKey(e), StorageKey(f))
             /\ Len(e.key.path) = Len(f.key.path) =>
                  (BytesLess(StorageKey(e), StorageKey(f)) <=> CompareNodeKeys(e.key, f.key) = -1)
  <2>1. IsNodeKey(e.key) /\ IsNodeKey(f.key)
    BY <1>1, <1>3, NodeEntry
  <2>2. StorageKey(e) = NodeStorageKey(e.key) /\ StorageKey(f) = NodeStorageKey(f.key)
    BY <1>3 DEF StorageKey
  <2>3. StorageKey(e) \in Strings /\ StorageKey(f) \in Strings
    BY <1>1, StorageKeyType DEF IsKey
  <2>4. e.key.version < f.key.version => BytesLess(NodeStorageKey(e.key), NodeStorageKey(f.key))
    BY <2>1, NodeVersionDecides
  <2>5. Len(e.key.path) = Len(f.key.path) =>
          (BytesLess(NodeStorageKey(e.key), NodeStorageKey(f.key)) <=> CompareNodeKeys(e.key, f.key) = -1)
    BY <2>1, <2>2, <2>3, NodeOrder
  <2>. QED BY <2>2, <2>4, <2>5
<1>. QED BY <1>2, <1>3 DEF StorageOrderIsVersionOrder

-----------------------------------------------------------------------------
(* Nibble paths.                                                           *)

\* The nibbles of a key.
LEMMA ExtractedNibbles ==
    ASSUME NEW n \in Nat, NEW key \in [1 .. n -> Bytes], NEW b \in 1 .. n
    PROVE  /\ ExtractNibble(key, (2 * b - 1) - 1) = High(key[b])
           /\ ExtractNibble(key, 2 * b - 1) = Low(key[b])
<1>1. PICK d \in Nat : d = (2 * b - 1) - 1 /\ d \div 2 + 1 = b /\ d % 2 = 0
  OBVIOUS
<1>2. PICK e \in Nat : e = 2 * b - 1 /\ e \div 2 + 1 = b /\ e % 2 # 0
  OBVIOUS
<1>3. ExtractNibble(key, d) = High(key[b])
  BY <1>1 DEF ExtractNibble
<1>4. ExtractNibble(key, e) = Low(key[b])
  BY <1>2 DEF ExtractNibble
<1>. QED BY <1>1, <1>2, <1>3, <1>4

\* The nibbles of the first k bytes of a key.
NibblesTo(key, k) == [i \in 1 .. 2 * k |-> ExtractNibble(key, i - 1)]

\* They are a path, two of each byte.
LEMMA NibblesType ==
    ASSUME NEW n \in Nat, NEW key \in [1 .. n -> Bytes], NEW k \in 0 .. n
    PROVE  /\ IsPath(NibblesTo(key, k)) /\ NibblesTo(key, k) \in Strings
           /\ Len(NibblesTo(key, k)) = 2 * k
           /\ \A b \in 1 .. k : /\ NibblesTo(key, k)[2 * b - 1] = High(key[b])
                                /\ NibblesTo(key, k)[2 * b] = Low(key[b])
<1>. DEFINE p == NibblesTo(key, k)
<1>1. PICK nibbles : nibbles = 0 .. (NibbleBase - 1)
  OBVIOUS
<1>2. ASSUME NEW i \in 1 .. 2 * k PROVE ExtractNibble(key, i - 1) \in nibbles
  <2>1. PICK b \in Nat \ {0} : i = 2 * b - 1 \/ i = 2 * b
    <3>1. i \in Nat \ {0}
      OBVIOUS
    <3>. QED BY <3>1, Halves
  <2>2. b \in 1 .. n
    BY <2>1
  <2>3. key[b] \in Bytes
    BY <2>2
  <2>4. High(key[b]) \in nibbles /\ Low(key[b]) \in nibbles
    BY <1>1, <2>3, ByteOfNibbles
  <2>. QED BY <2>1, <2>2, <2>4, ExtractedNibbles
<1>3. p \in [1 .. 2 * k -> nibbles]
  BY <1>2 DEF NibblesTo
<1>4. PICK m \in Nat : m = 2 * k
  OBVIOUS
<1>5. p \in Seq(nibbles) /\ Len(p) = m
  <2>. HIDE DEF p
  <2>. QED BY <1>3, <1>4
<1>6. IsPath(p)
  BY <1>1, <1>5 DEF IsPath
<1>7. p \in Strings
  <2>. HIDE DEF p
  <2>. QED BY <1>6, PathType
<1>8. ASSUME NEW b \in 1 .. k
      PROVE  p[2 * b - 1] = High(key[b]) /\ p[2 * b] = Low(key[b])
  <2>1. b \in 1 .. n /\ 2 * b - 1 \in 1 .. 2 * k /\ 2 * b \in 1 .. 2 * k
    OBVIOUS
  <2>2. /\ p[2 * b - 1] = ExtractNibble(key, (2 * b - 1) - 1)
        /\ p[2 * b] = ExtractNibble(key, 2 * b - 1)
    BY <2>1 DEF NibblesTo
  <2>. QED BY <2>1, <2>2, ExtractedNibbles
<1>. QED BY <1>4, <1>5, <1>6, <1>7, <1>8

\* The path of a key.
LEMMA PathOfKey ==
    ASSUME NEW key
    PROVE  ToNibblePath(key) = NibblesTo(key, KeySize)
BY DEF ToNibblePath, NibblesTo, MaxTreeDepth

\* The bytes of a key's path are the key.
LEMMA PathIsKey ==
    ASSUME NEW n \in Nat, NEW key \in [1 .. n -> Bytes], NEW p, p = NibblesTo(key, n)
    PROVE  ToBytes(p) = key /\ Pack(p) = key
<1>1. /\ Len(p) = 2 * n
      /\ \A b \in 1 .. n : p[2 * b - 1] = High(key[b]) /\ p[2 * b] = Low(key[b])
  <2>1. n \in 0 .. n
    OBVIOUS
  <2>. QED BY <2>1, NibblesType
<1>2. ASSUME NEW b \in 1 .. n PROVE p[2 * b - 1] * NibbleBase + p[2 * b] = key[b]
  <2>1. key[b] \in Bytes
    OBVIOUS
  <2>2. key[b] = High(key[b]) * NibbleBase + Low(key[b])
    BY <2>1, ByteOfNibbles
  <2>. QED BY <1>1, <2>2
<1>3. PICK m \in Nat : m = 2 * n /\ m % 2 = 0 /\ m \div 2 = n /\ (m + 1) \div 2 = n
  OBVIOUS
<1>4. key = [b \in 1 .. n |-> key[b]]
  OBVIOUS
<1>5. ToBytes(p) = [b \in 1 .. n |-> p[2 * b - 1] * NibbleBase + p[2 * b]]
  BY <1>1, <1>3 DEF ToBytes
<1>6. Pack(p) = [b \in 1 .. n |-> p[2 * b - 1] * NibbleBase + (IF 2 * b <= m THEN p[2 * b] ELSE 0)]
  BY <1>1, <1>3 DEF Pack
<1>7. ASSUME NEW b \in 1 .. n
      PROVE  p[2 * b - 1] * NibbleBase + (IF 2 * b <= m THEN p[2 * b] ELSE 0) = key[b]
  <2>1. 2 * b <= m
    BY <1>3
  <2>. QED BY <1>2, <2>1
<1>. QED BY <1>2, <1>4, <1>5, <1>6, <1>7

\* The two nibbles of a byte.
Two(b) == <<High(b), Low(b)>>

\* They are a string of two.
LEMMA TwoNibbles ==
    ASSUME NEW b \in Bytes
    PROVE  Two(b) \in Strings /\ Len(Two(b)) = 2 /\ Two(b)[1] = High(b) /\ Two(b)[2] = Low(b)
<1>1. High(b) \in 0 .. (NibbleBase - 1) /\ Low(b) \in 0 .. (NibbleBase - 1)
  BY ByteOfNibbles
<1>2. PICK h \in Nat, l \in Nat : h = High(b) /\ l = Low(b)
  BY <1>1, EncodingParameters
<1>3. <<h, l>> \in Seq(Nat) /\ Len(<<h, l>>) = 2 /\ <<h, l>>[1] = h /\ <<h, l>>[2] = l
  OBVIOUS
<1>. QED BY <1>2, <1>3 DEF Two, Strings

\* One more byte of a path.
LEMMA NibblesStep ==
    ASSUME NEW n \in Nat, NEW key \in [1 .. n -> Bytes], NEW k \in 0 .. n, NEW m \in 1 .. n, m = k + 1
    PROVE  NibblesTo(key, k) \o Two(key[m]) = NibblesTo(key, m)
<1>1. PICK p \in Strings : /\ p = NibblesTo(key, k) /\ Len(p) = 2 * k
                           /\ \A b \in 1 .. k : p[2 * b - 1] = High(key[b]) /\ p[2 * b] = Low(key[b])
  BY NibblesType
<1>2. PICK q \in Strings : /\ q = NibblesTo(key, m) /\ Len(q) = 2 * m
                           /\ \A b \in 1 .. m : q[2 * b - 1] = High(key[b]) /\ q[2 * b] = Low(key[b])
  <2>1. m \in 0 .. n
    OBVIOUS
  <2>. QED BY <2>1, NibblesType
<1>3. PICK t \in Strings : t = Two(key[m]) /\ Len(t) = 2 /\ t[1] = High(key[m]) /\ t[2] = Low(key[m])
  <2>1. key[m] \in Bytes
    OBVIOUS
  <2>. QED BY <2>1, TwoNibbles
<1>4. PICK r \in Strings : r = p \o t /\ Len(r) = 2 * k + 2 /\ Has(r, 0, p) /\ Has(r, 2 * k, t)
  <2>1. /\ p \o t \in Strings /\ Len(p \o t) = Len(p) + Len(t)
        /\ Has(p \o t, 0, p) /\ Has(p \o t, Len(p), t)
    BY ConcatHas
  <2>. QED BY <1>1, <1>3, <2>1
<1>5. ASSUME NEW b \in 1 .. m PROVE r[2 * b - 1] = High(key[b]) /\ r[2 * b] = Low(key[b])
  <2>1. CASE b <= k
    <3>1. 2 * b - 1 \in 1 .. 2 * k /\ 2 * b \in 1 .. 2 * k /\ b \in 1 .. k
      BY <2>1
    <3>2. r[0 + (2 * b - 1)] = p[2 * b - 1] /\ r[0 + 2 * b] = p[2 * b]
      BY <1>1, <1>4, <3>1 DEF Has
    <3>3. 0 + (2 * b - 1) = 2 * b - 1 /\ 0 + 2 * b = 2 * b
      OBVIOUS
    <3>. QED BY <1>1, <3>1, <3>2, <3>3
  <2>2. CASE b = m
    <3>1. 2 * b - 1 = 2 * k + 1 /\ 2 * b = 2 * k + 2 /\ 1 \in 1 .. 2 /\ 2 \in 1 .. 2
      BY <2>2
    <3>2. r[2 * k + 1] = t[1] /\ r[2 * k + 2] = t[2]
      BY <1>3, <1>4, <3>1 DEF Has
    <3>. QED BY <1>3, <2>2, <3>1, <3>2
  <2>. QED BY <2>1, <2>2
<1>6. Len(r) = Len(q) /\ Len(r) = 2 * m
  BY <1>2, <1>4
<1>7. ASSUME NEW i \in 1 .. (2 * m) PROVE r[i] = q[i]
  <2>1. PICK b \in Nat \ {0} : i = 2 * b - 1 \/ i = 2 * b
    <3>1. i \in Nat \ {0}
      OBVIOUS
    <3>. QED BY <3>1, Halves
  <2>2. b \in 1 .. m
    BY <2>1
  <2>. QED BY <1>2, <1>5, <2>1, <2>2
<1>8. r = q
  BY <1>6, <1>7, SameString
<1>. QED BY <1>1, <1>2, <1>3, <1>4, <1>8

\* The loop of NewNibblePath.
IsNibbles(f, data) ==
    f = [S \in SUBSET DOMAIN data |->
            IF S = {} THEN <<>>
            ELSE f[S \ {Max(S)}] \o <<High(data[Max(S)]), Low(data[Max(S)])>>]

\* NewNibblePath is what its loop ends with.
LEMMA NibblesIsFold ==
    ASSUME NEW data
    PROVE  NewNibblePath(data) = (CHOOSE f : IsNibbles(f, data))[DOMAIN data]
BY DEF NewNibblePath, FoldLeft, MapThenFoldSet, IsNibbles

\* The loop runs.
LEMMA NibblesExist ==
    ASSUME NEW n \in Nat, NEW data \in [1 .. n -> Bytes]
    PROVE  \E f : IsNibbles(f, data)
<1>. DEFINE F == [k \in 1 .. n |-> [x \in Strings |-> x \o Two(data[k])]]
<1>1. F \in [1 .. n -> [Strings -> Strings]]
  <2>1. ASSUME NEW k \in 1 .. n, NEW x \in Strings PROVE x \o Two(data[k]) \in Strings
    <3>1. data[k] \in Bytes
      OBVIOUS
    <3>2. PICK t \in Strings : t = Two(data[k])
      BY <3>1, TwoNibbles
    <3>3. x \o t \in Strings
      BY ConcatHas
    <3>. QED BY <3>2, <3>3
  <2>. QED BY <2>1
<1>2. <<>> \in Strings
  BY DEF Strings
<1>3. PICK f \in [SUBSET (1 .. n) -> Strings] : IsFold(f, <<>>, F, n)
  <2>1. PICK base \in Strings : base = <<>>
    BY <1>2
  <2>2. PICK X : X = Strings
    OBVIOUS
  <2>. HIDE DEF F
  <2>3. \E f \in [SUBSET (1 .. n) -> X] : IsFold(f, base, F, n)
    BY <1>1, <2>2, FoldExists
  <2>. QED BY <2>1, <2>2, <2>3
<1>. DEFINE body(S) == IF S = {} THEN <<>> ELSE f[S \ {Max(S)}] \o Two(data[Max(S)])
<1>4. ASSUME NEW S \in SUBSET (1 .. n) PROVE f[S] = body(S)
  <2>1. f[S] = IF S = {} THEN <<>> ELSE F[Max(S)][f[S \ {Max(S)}]]
    BY <1>3 DEF IsFold
  <2>2. CASE S # {}
    <3>1. PICK m \in 1 .. n : m = Max(S)
      BY <2>2, MaxOfPositions
    <3>2. PICK x \in Strings : x = f[S \ {m}]
      OBVIOUS
    <3>3. F[m][x] = x \o Two(data[m])
      OBVIOUS
    <3>. QED BY <2>1, <2>2, <3>1, <3>2, <3>3
  <2>. QED BY <2>1, <2>2
<1>5. DOMAIN data = 1 .. n
  OBVIOUS
<1>6. f = [S \in SUBSET (1 .. n) |-> body(S)]
  BY <1>4
<1>7. IsNibbles(f, data)
  BY <1>5, <1>6 DEF IsNibbles, Two
<1>. QED BY <1>7

\* NewNibblePath and ToNibblePath make the same path of a key.
LEMMA NewPathIsPath ==
    ASSUME NEW n \in Nat, NEW key \in [1 .. n -> Bytes]
    PROVE  NewNibblePath(key) = NibblesTo(key, n)
<1>. DEFINE f == CHOOSE h : IsNibbles(h, key)
<1>1. IsNibbles(f, key)
  BY NibblesExist
<1>2. NewNibblePath(key) = f[1 .. n]
  BY NibblesIsFold
<1>. HIDE DEF f
<1>. DEFINE T == {k \in Nat : k <= n => f[1 .. k] = NibblesTo(key, k)}
<1>3. 0 \in T
  <2>1. f[{}] = <<>> /\ 1 .. 0 = {}
    BY <1>1 DEF IsNibbles
  <2>2. NibblesTo(key, 0) = <<>>
    <3>1. 0 \in 0 .. n
      OBVIOUS
    <3>2. PICK p \in Strings : p = NibblesTo(key, 0) /\ Len(p) = 2 * 0
      BY <3>1, NibblesType
    <3>3. p \in Seq(Nat) /\ Len(p) = 0
      BY <3>2 DEF Strings
    <3>. QED BY <3>2, <3>3
  <2>. QED BY <2>1, <2>2
<1>4. ASSUME NEW k \in Nat, k \in T PROVE k + 1 \in T
  <2>. SUFFICES ASSUME k + 1 <= n PROVE f[1 .. (k + 1)] = NibblesTo(key, k + 1)
    OBVIOUS
  <2>1. f[1 .. k] = NibblesTo(key, k)
    BY <1>4
  <2>2. PICK m \in 1 .. n : m = k + 1 /\ k \in 0 .. n
    OBVIOUS
  <2>3. 1 .. m \in SUBSET (1 .. n) /\ 1 .. m # {} /\ (1 .. m) \ {m} = 1 .. k
    <3>1. 1 .. m \subseteq 1 .. n /\ m \in 1 .. m
      BY <2>2
    <3>2. ASSUME NEW x PROVE x \in (1 .. m) \ {m} <=> x \in 1 .. k
      BY <2>2
    <3>3. (1 .. m) \ {m} = 1 .. k
      BY <3>2
    <3>. QED BY <3>1, <3>3
  <2>4. Max(1 .. m) = m
    <3>1. 1 .. m \in SUBSET (1 .. (k + 1)) /\ k + 1 \in 1 .. m
      BY <2>2
    <3>2. Max(1 .. m) = k + 1
      BY <3>1, MaxIsLast
    <3>. QED BY <2>2, <3>2
  <2>5. f[1 .. m] = f[1 .. k] \o Two(key[m])
    <3>1. DOMAIN key = 1 .. n
      OBVIOUS
    <3>2. f[1 .. m] = f[(1 .. m) \ {Max(1 .. m)}] \o Two(key[Max(1 .. m)])
      BY <1>1, <2>3, <3>1 DEF IsNibbles, Two
    <3>. QED BY <2>3, <2>4, <3>2
  <2>6. NibblesTo(key, k) \o Two(key[m]) = NibblesTo(key, m)
    BY <2>2, NibblesStep
  <2>. QED BY <2>1, <2>2, <2>5, <2>6
<1>5. n \in T
  <2>. HIDE DEF T
  <2>. QED BY <1>3, <1>4, Induction
<1>6. f[1 .. n] = NibblesTo(key, n)
  BY <1>5
<1>. QED BY <1>2, <1>6

\* How far two paths go together.
LEMMA GoTogether ==
    ASSUME NEW p \in Strings, NEW q \in Strings
    PROVE  \E n \in Nat : /\ n = CommonPrefixLength(p, q) /\ n <= Len(p) /\ n <= Len(q)
                          /\ \A j \in 1 .. n : p[j] = q[j]
                          /\ n < Len(p) /\ n < Len(q) => p[n + 1] # q[n + 1]
<1>1. PICK x \in Nat, y \in Nat : x = Len(p) /\ y = Len(q)
  BY DEF Strings
<1>2. CASE Agree(p, q) /\ CommonPrefixLength(p, q) = Min({Len(p), Len(q)})
  <2>1. PICK n \in {x, y} : n = Min({x, y}) /\ \A z \in {x, y} : n <= z
    <3>1. \E n \in {x, y} : \A z \in {x, y} : n <= z
      OBVIOUS
    <3>. QED BY <3>1 DEF Min
  <2>2. n \in Nat /\ n <= x /\ n <= y /\ (n = x \/ n = y)
    BY <2>1
  <2>3. ASSUME NEW j \in 1 .. n PROVE p[j] = q[j]
    BY <1>1, <1>2, <2>2 DEF Agree
  <2>4. Min({Len(p), Len(q)}) = n
    BY <1>1, <2>1
  <2>5. n = CommonPrefixLength(p, q)
    BY <1>2, <2>4
  <2>6. ~ (n < Len(p) /\ n < Len(q))
    BY <1>1, <2>2
  <2>. QED BY <1>1, <2>2, <2>3, <2>5, <2>6
<1>3. CASE \E i \in Nat \ {0} : PartAt(p, q, i) /\ CommonPrefixLength(p, q) = i - 1
  <2>1. PICK i \in Nat \ {0} : PartAt(p, q, i) /\ CommonPrefixLength(p, q) = i - 1
    BY <1>3
  <2>2. PICK n \in Nat : n = i - 1 /\ n + 1 = i
    OBVIOUS
  <2>3. n <= x /\ n <= y /\ p[n + 1] # q[n + 1] /\ \A j \in 1 .. n : p[j] = q[j]
    BY <1>1, <2>1, <2>2 DEF PartAt
  <2>. QED BY <1>1, <2>1, <2>2, <2>3
<1>. QED BY <1>2, <1>3, PathsCompared

\* The first n nibbles of a path.
LEMMA FirstPart ==
    ASSUME NEW p \in Strings, NEW n \in Nat, n <= Len(p)
    PROVE  /\ SubSeq(p, 1, n) \in Strings /\ Len(SubSeq(p, 1, n)) = n
           /\ \A j \in 1 .. n : SubSeq(p, 1, n)[j] = p[j]
           /\ PathPrefix(p, n) = SubSeq(p, 1, n)
<1>1. PICK x \in Nat : x = Len(p)
  BY DEF Strings
<1>2. p \in Seq(Nat)
  BY DEF Strings
<1>3. SubSeq(p, 1, n) \in Seq(Nat) /\ Len(SubSeq(p, 1, n)) = n
  BY <1>1, <1>2
<1>4. \A j \in 1 .. n : SubSeq(p, 1, n)[j] = p[j]
  BY <1>1, <1>2
<1>5. Min({n, x}) = n
  BY <1>1 DEF Min
<1>. QED BY <1>1, <1>3, <1>4, <1>5 DEF Strings, PathPrefix

\* Equal first parts.
LEMMA FirstParts ==
    ASSUME NEW p \in Strings, NEW q \in Strings, NEW n \in Nat, n <= Len(p), n <= Len(q),
           \A j \in 1 .. n : p[j] = q[j]
    PROVE  SubSeq(p, 1, n) = SubSeq(q, 1, n)
BY SameStart DEF Strings

\* What is common to two paths, by the definition of common prefixes.
LEMMA CommonPart ==
    ASSUME NEW p \in Strings, NEW q \in Strings, NEW o
    PROVE  o \in CommonPrefixes({p, q}) <=>
              \E l \in Nat : /\ l <= Len(p) /\ l <= Len(q) /\ o = SubSeq(p, 1, l)
                             /\ \A j \in 1 .. l : p[j] = q[j]
<1>1. PICK x \in Nat, y \in Nat : x = Len(p) /\ y = Len(q)
  BY DEF Strings
<1>2. o \in CommonPrefixes({p, q}) <=>
         /\ o \in Prefixes(p) \cup Prefixes(q)
         /\ IsPrefix(o, p) /\ IsPrefix(o, q)
  BY DEF CommonPrefixes
<1>3. /\ o \in Prefixes(p) <=> \E l \in 0 .. x : o = SubSeq(p, 1, l)
      /\ o \in Prefixes(q) <=> \E l \in 0 .. y : o = SubSeq(q, 1, l)
  BY <1>1 DEF Prefixes
<1>4. ASSUME NEW s \in Strings, NEW l \in 0 .. Len(s), o = SubSeq(s, 1, l)
      PROVE  /\ o \in Strings /\ Len(o) = l
             /\ IsPrefix(o, p) <=> l <= x /\ \A j \in 1 .. l : s[j] = p[j]
             /\ IsPrefix(o, q) <=> l <= y /\ \A j \in 1 .. l : s[j] = q[j]
  <2>1. l \in Nat /\ l <= Len(s)
    BY DEF Strings
  <2>2. o \in Strings /\ Len(o) = l /\ \A j \in 1 .. l : o[j] = s[j]
    BY <1>4, <2>1, FirstPart
  <2>3. /\ IsPrefix(o, p) <=> Len(o) <= Len(p) /\ \A j \in 1 .. Len(o) : o[j] = p[j]
        /\ IsPrefix(o, q) <=> Len(o) <= Len(q) /\ \A j \in 1 .. Len(o) : o[j] = q[j]
    <3>1. o \in Seq(Nat) /\ p \in Seq(Nat) /\ q \in Seq(Nat)
      BY <2>2 DEF Strings
    <3>2. IsPrefix(o, p) <=> Len(o) <= Len(p) /\ \A j \in 1 .. Len(o) : o[j] = p[j]
      BY <3>1, PrefixElements
    <3>3. IsPrefix(o, q) <=> Len(o) <= Len(q) /\ \A j \in 1 .. Len(o) : o[j] = q[j]
      BY <3>1, PrefixElements
    <3>. QED BY <3>2, <3>3
  <2>. QED BY <1>1, <2>1, <2>2, <2>3
<1>5. ASSUME o \in CommonPrefixes({p, q})
      PROVE  \E l \in Nat : /\ l <= x /\ l <= y /\ o = SubSeq(p, 1, l)
                            /\ \A j \in 1 .. l : p[j] = q[j]
  <2>1. CASE o \in Prefixes(p)
    <3>1. PICK l \in 0 .. x : o = SubSeq(p, 1, l)
      BY <1>3, <2>1
    <3>2. l <= y /\ \A j \in 1 .. l : p[j] = q[j]
      BY <1>1, <1>2, <1>4, <1>5, <3>1
    <3>. QED BY <3>1, <3>2
  <2>2. CASE o \in Prefixes(q)
    <3>1. PICK l \in 0 .. y : o = SubSeq(q, 1, l)
      BY <1>3, <2>2
    <3>2. l <= x /\ \A j \in 1 .. l : q[j] = p[j]
      BY <1>1, <1>2, <1>4, <1>5, <3>1
    <3>3. l \in Nat /\ l <= Len(p) /\ l <= Len(q) /\ \A j \in 1 .. l : p[j] = q[j]
      BY <1>1, <3>2
    <3>4. SubSeq(p, 1, l) = SubSeq(q, 1, l)
      BY <3>3, FirstParts
    <3>. QED BY <1>1, <3>1, <3>3, <3>4
  <2>. QED BY <1>2, <1>5, <2>1, <2>2
<1>6. ASSUME NEW l \in Nat, l <= x, l <= y, o = SubSeq(p, 1, l), \A j \in 1 .. l : p[j] = q[j]
      PROVE  o \in CommonPrefixes({p, q})
  <2>1. l \in 0 .. x /\ l \in 0 .. Len(p)
    BY <1>1, <1>6
  <2>2. o \in Prefixes(p)
    BY <1>3, <1>6, <2>1
  <2>3. IsPrefix(o, p) /\ IsPrefix(o, q)
    BY <1>4, <1>6, <2>1
  <2>. QED BY <1>2, <2>2, <2>3
<1>. QED BY <1>1, <1>5, <1>6

\* CommonPrefixLength is the length of the longest common prefix.
LEMMA PrefixIsLongest ==
    ASSUME NEW p \in Strings, NEW q \in Strings, NEW n, n = CommonPrefixLength(p, q)
    PROVE  PathPrefix(p, n) = LongestCommonPrefix({p, q})
<1>1. PICK x \in Nat, y \in Nat : x = Len(p) /\ y = Len(q)
  BY DEF Strings
<1>2. /\ n \in Nat /\ n <= x /\ n <= y /\ \A j \in 1 .. n : p[j] = q[j]
      /\ n < x /\ n < y => p[n + 1] # q[n + 1]
  <2>1. PICK m \in Nat : /\ m = CommonPrefixLength(p, q) /\ m <= Len(p) /\ m <= Len(q)
                         /\ \A j \in 1 .. m : p[j] = q[j]
                         /\ m < Len(p) /\ m < Len(q) => p[m + 1] # q[m + 1]
    BY GoTogether
  <2>2. m = n
    BY <2>1
  <2>. QED BY <1>1, <2>1, <2>2
<1>. DEFINE c == SubSeq(p, 1, n)
            C == CommonPrefixes({p, q})
<1>3. c \in Strings /\ Len(c) = n /\ PathPrefix(p, n) = c
  BY <1>1, <1>2, FirstPart
<1>4. c \in C
  BY <1>1, <1>2, CommonPart
<1>5. ASSUME NEW o \in C PROVE \E l \in 0 .. n : Len(o) = l /\ o = SubSeq(p, 1, l)
  <2>1. PICK l \in Nat : /\ l <= Len(p) /\ l <= Len(q) /\ o = SubSeq(p, 1, l)
                         /\ \A j \in 1 .. l : p[j] = q[j]
    BY CommonPart
  <2>2. l <= n
    <3>. SUFFICES ASSUME n < l PROVE FALSE
      BY <1>2
    <3>1. n + 1 \in 1 .. l /\ n < x /\ n < y
      BY <1>1, <1>2, <2>1
    <3>. QED BY <1>2, <2>1, <3>1
  <2>3. Len(o) = l
    BY <2>1, FirstPart
  <2>. QED BY <1>2, <2>1, <2>2, <2>3
<1>. HIDE DEF c, C
<1>6. \A o \in C : Len(o) <= Len(c)
  BY <1>2, <1>3, <1>5
<1>7. ASSUME NEW o \in C, \A other \in C : Len(other) <= Len(o) PROVE o = c
  <2>1. PICK l \in 0 .. n : Len(o) = l /\ o = SubSeq(p, 1, l)
    BY <1>5
  <2>2. n <= l
    BY <1>3, <1>4, <1>7, <2>1
  <2>3. l = n
    BY <1>2, <2>1, <2>2
  <2>. QED BY <2>1, <2>3 DEF c
<1>8. (CHOOSE longest \in C : \A other \in C : Len(other) <= Len(longest)) = c
  BY <1>4, <1>6, <1>7
<1>. QED BY <1>3, <1>8 DEF LongestCommonPrefix, C

\* A path is its first part and the rest.
LEMMA CutPath ==
    ASSUME NEW p \in Strings, NEW n \in Nat, n <= Len(p)
    PROVE  PathPrefix(p, n) \o Skip(p, n) = p
<1>1. PICK x \in Nat : x = Len(p)
  BY DEF Strings
<1>2. p \in Seq(Nat) /\ n <= x
  BY <1>1 DEF Strings
<1>3. PICK a \in Strings : /\ a = PathPrefix(p, n) /\ Len(a) = n /\ \A j \in 1 .. n : a[j] = p[j]
  BY FirstPart
<1>4. PICK b \in Strings : b = Skip(p, n) /\ Len(b) = x - n /\ \A j \in 1 .. (x - n) : b[j] = p[n + j]
  <2>1. CASE n >= x
    <3>1. Skip(p, n) = <<>> /\ n = x
      BY <1>1, <1>2, <2>1 DEF Skip
    <3>2. <<>> \in Strings /\ Len(<<>>) = 0 /\ x - n = 0
      BY <3>1 DEF Strings
    <3>. QED BY <3>1, <3>2
  <2>2. CASE n < x /\ n = 0
    <3>1. Skip(p, n) = p
      BY <1>1, <2>2 DEF Skip
    <3>2. x - n = x /\ \A j \in 1 .. x : n + j = j
      BY <2>2
    <3>. QED BY <1>1, <3>1, <3>2
  <2>3. CASE n < x /\ n > 0
    <3>1. Skip(p, n) = SubSeq(p, n + 1, x)
      BY <1>1, <2>3 DEF Skip
    <3>2. SubSeq(p, n + 1, x) \in Seq(Nat) /\ Len(SubSeq(p, n + 1, x)) = x - n
      BY <1>1, <1>2, <2>3
    <3>3. ASSUME NEW j \in 1 .. (x - n) PROVE SubSeq(p, n + 1, x)[j] = p[n + j]
      BY <1>1, <1>2, <2>3
    <3>. QED BY <3>1, <3>2, <3>3 DEF Strings
  <2>. QED BY <1>2, <2>1, <2>2, <2>3
<1>5. PICK y \in Nat : y = x - n /\ x = n + y
  BY <1>2
<1>6. PICK r \in Strings : r = a \o b /\ Len(r) = n + y /\ Has(r, 0, a) /\ Has(r, n, b)
  <2>1. /\ a \o b \in Strings /\ Len(a \o b) = Len(a) + Len(b)
        /\ Has(a \o b, 0, a) /\ Has(a \o b, Len(a), b)
    BY ConcatHas
  <2>. QED BY <1>3, <1>4, <1>5, <2>1
<1>7. ASSUME NEW i \in 1 .. x PROVE r[i] = p[i]
  <2>1. CASE i <= n
    <3>1. r[0 + i] = a[i] /\ 0 + i = i
      BY <1>3, <1>6, <2>1 DEF Has
    <3>. QED BY <1>3, <2>1, <3>1
  <2>2. CASE i > n
    <3>1. PICK j \in 1 .. y : i = n + j
      <4>1. i - n \in 1 .. y /\ i = n + (i - n)
        BY <1>5, <2>2
      <4>. QED BY <4>1
    <3>2. r[n + j] = b[j]
      BY <1>4, <1>5, <1>6 DEF Has
    <3>3. b[j] = p[n + j]
      BY <1>4, <1>5
    <3>. QED BY <3>1, <3>2, <3>3
  <2>. QED BY <2>1, <2>2
<1>8. Len(r) = x /\ Len(r) = Len(p)
  BY <1>1, <1>5, <1>6
<1>9. r = p
  BY <1>7, <1>8, SameString
<1>. QED BY <1>3, <1>4, <1>6, <1>9

\* A path begins another one if they go together to its end.
LEMMA PrefixGoesTogether ==
    ASSUME NEW p \in Strings, NEW q \in Strings, NEW n, n = CommonPrefixLength(p, q)
    PROVE  IsPathPrefix(p, q) <=> n = Len(p)
<1>1. PICK x \in Nat, y \in Nat : x = Len(p) /\ y = Len(q) /\ DOMAIN p = 1 .. x
  BY DEF Strings
<1>2. /\ n \in Nat /\ n <= x /\ n <= y /\ \A j \in 1 .. n : p[j] = q[j]
      /\ n < x /\ n < y => p[n + 1] # q[n + 1]
  <2>1. PICK m \in Nat : /\ m = CommonPrefixLength(p, q) /\ m <= Len(p) /\ m <= Len(q)
                         /\ \A j \in 1 .. m : p[j] = q[j]
                         /\ m < Len(p) /\ m < Len(q) => p[m + 1] # q[m + 1]
    BY GoTogether
  <2>2. m = n
    BY <2>1
  <2>. QED BY <1>1, <2>1, <2>2
<1>3. IsPathPrefix(p, q) <=> x <= y /\ \A i \in 1 .. x : p[i] = q[i]
  BY <1>1 DEF IsPathPrefix
<1>4. ASSUME n = x PROVE x <= y /\ \A i \in 1 .. x : p[i] = q[i]
  BY <1>2, <1>4
<1>5. ASSUME x <= y, \A i \in 1 .. x : p[i] = q[i] PROVE n = x
  <2>. SUFFICES ASSUME n # x PROVE FALSE
    OBVIOUS
  <2>1. n < x /\ n < y /\ n + 1 \in 1 .. x
    BY <1>2, <1>5
  <2>. QED BY <1>2, <1>5, <2>1
<1>. QED BY <1>1, <1>3, <1>4, <1>5

\* Compare is zero for equal paths, and turns around with its arguments.
LEMMA CompareTurnsAround ==
    ASSUME NEW p \in Strings, NEW q \in Strings
    PROVE  /\ ComparePaths(p, q) = 0 <=> p = q
           /\ ComparePaths(p, q) = - ComparePaths(q, p)
<1>1. PICK x \in Nat, y \in Nat : /\ x = Len(p) /\ y = Len(q)
                                  /\ \A i \in 1 .. x : p[i] \in Nat
                                  /\ \A i \in 1 .. y : q[i] \in Nat
  <2>1. p \in Seq(Nat) /\ q \in Seq(Nat)
    BY DEF Strings
  <2>2. Len(p) \in Nat /\ \A i \in 1 .. Len(p) : p[i] \in Nat
    BY <2>1
  <2>3. Len(q) \in Nat /\ \A i \in 1 .. Len(q) : q[i] \in Nat
    BY <2>1
  <2>. QED BY <2>2, <2>3
<1>2. CASE Agree(p, q) /\ ComparePaths(p, q) = Sign(Len(p) - Len(q))
  <2>1. ASSUME NEW i \in Nat \ {0}, PartAt(q, p, i) PROVE FALSE
    BY <1>2, <2>1 DEF Agree, PartAt
  <2>2. ComparePaths(q, p) = Sign(Len(q) - Len(p))
    BY <2>1, PathsCompared
  <2>3. ComparePaths(p, q) = Sign(x - y) /\ ComparePaths(q, p) = Sign(y - x)
    BY <1>1, <1>2, <2>2
  <2>4. Sign(x - y) = - Sign(y - x) /\ (Sign(x - y) = 0 <=> x = y)
    BY DEF Sign
  <2>5. x = y <=> p = q
    BY <1>1, <1>2, AgreeIsEqual
  <2>. QED BY <2>3, <2>4, <2>5
<1>3. CASE \E i \in Nat \ {0} : PartAt(p, q, i) /\ ComparePaths(p, q) = Sign(p[i] - q[i])
  <2>1. PICK i \in Nat \ {0} : PartAt(p, q, i) /\ ComparePaths(p, q) = Sign(p[i] - q[i])
    BY <1>3
  <2>2. ~ Agree(q, p)
    BY <2>1 DEF Agree, PartAt
  <2>3. PICK k \in Nat \ {0} : PartAt(q, p, k) /\ ComparePaths(q, p) = Sign(q[k] - p[k])
    BY <2>2, PathsCompared
  <2>4. k = i
    <3>1. ~ (k < i)
      BY <2>1, <2>3 DEF PartAt
    <3>2. ~ (i < k)
      BY <2>1, <2>3 DEF PartAt
    <3>. QED BY <3>1, <3>2
  <2>5. PICK u \in Nat, v \in Nat : u = p[i] /\ v = q[i] /\ u # v
    BY <1>1, <2>1 DEF PartAt
  <2>6. ComparePaths(p, q) = Sign(u - v) /\ ComparePaths(q, p) = Sign(v - u)
    BY <2>1, <2>3, <2>4, <2>5
  <2>7. Sign(u - v) = - Sign(v - u) /\ Sign(u - v) # 0
    BY <2>5 DEF Sign
  <2>8. p # q
    BY <2>5
  <2>. QED BY <2>6, <2>7, <2>8
<1>. QED BY <1>2, <1>3, PathsCompared

\* A node key is the child, at the last nibble of its path, of its parent.
LEMMA ChildOfParent ==
    ASSUME NEW nk, IsNodeKey(nk), nk.path # <<>>
    PROVE  Child(ParentKey(nk), Last(nk.path), nk.version) = nk
<1>1. PICK p \in Strings : p = nk.path /\ p # <<>>
  BY PathType DEF IsNodeKey
<1>2. p \in Seq(Nat) /\ Len(p) \in Nat /\ Len(p) > 0
  BY <1>1 DEF Strings
<1>3. PICK x \in Nat : Len(p) = x + 1 /\ x = Len(p) - 1 /\ x <= Len(p)
  <2>1. Len(p) - 1 \in Nat /\ Len(p) = (Len(p) - 1) + 1 /\ Len(p) - 1 <= Len(p)
    BY <1>2
  <2>. QED BY <2>1
<1>4. PICK a \in Seq(Nat) : a = PathPrefix(p, x) /\ Len(a) = x /\ \A j \in 1 .. x : a[j] = p[j]
  <2>1. /\ SubSeq(p, 1, x) \in Strings /\ Len(SubSeq(p, 1, x)) = x
        /\ \A j \in 1 .. x : SubSeq(p, 1, x)[j] = p[j]
        /\ PathPrefix(p, x) = SubSeq(p, 1, x)
    BY <1>3, FirstPart
  <2>2. PICK b \in Strings : b = PathPrefix(p, x) /\ b = SubSeq(p, 1, x)
    BY <2>1
  <2>. QED BY <2>1, <2>2 DEF Strings
<1>5. PICK l \in Nat : l = Last(p) /\ l = p[x + 1]
  <2>1. Last(p) = p[Len(p)] /\ p[Len(p)] \in Nat
    BY <1>2 DEF Last
  <2>. QED BY <1>3, <2>1
<1>6. PICK r \in Seq(Nat) : r = Append(a, l) /\ Len(r) = x + 1
  <2>1. Append(a, l) \in Seq(Nat) /\ Len(Append(a, l)) = Len(a) + 1
    OBVIOUS
  <2>. QED BY <1>4, <2>1
<1>7. ASSUME NEW i \in 1 .. (x + 1) PROVE r[i] = p[i]
  <2>1. r[i] = IF i <= Len(a) THEN a[i] ELSE l
    BY <1>4, <1>6
  <2>2. CASE i <= x
    BY <1>4, <2>1, <2>2
  <2>3. CASE i = x + 1
    BY <1>4, <1>5, <2>1, <2>3
  <2>. QED BY <2>2, <2>3
<1>8. r = p
  <2>1. r \in Strings /\ Len(r) = Len(p) /\ Len(r) = x + 1
    BY <1>3, <1>6 DEF Strings
  <2>. QED BY <1>7, <2>1, SameString
<1>9. ParentKey(nk) = [version |-> nk.version, path |-> a]
  BY <1>1, <1>3, <1>4 DEF ParentKey, NodeKey
<1>10. Child(ParentKey(nk), Last(nk.path), nk.version) = [version |-> nk.version, path |-> r]
  BY <1>1, <1>5, <1>6, <1>9 DEF Child, NodeKey
<1>. QED BY <1>1, <1>8, <1>10 DEF IsNodeKey

\* What a store holds keeps paths and keys together.
LEMMA KeysArePaths ==
    ASSUME Sound(entries, engine, options)
    PROVE  PathsAreFaithful
<1>1. entries \subseteq Entries
  BY DEF Sound
<1>2. PICK n \in Nat : n = KeySize
  BY EncodingParameters
<1>. DEFINE ks == {e.key : e \in {x \in entries : x.kind = "keyed"}}
            nodes == {x \in entries : x.kind = "node"}
            paths == {ToNibblePath(k) : k \in ks} \cup {e.key.path : e \in nodes}
<1>3. ASSUME NEW k \in ks
      PROVE  k \in [1 .. n -> Bytes] /\ ToNibblePath(k) = NibblesTo(k, n) /\ IsPath(ToNibblePath(k))
  <2>1. k \in [1 .. n -> Bytes]
    BY <1>1, <1>2, StoreIsWritten DEF Stored
  <2>2. ToNibblePath(k) = NibblesTo(k, n)
    BY <1>2, PathOfKey
  <2>3. n \in 0 .. n
    OBVIOUS
  <2>4. IsPath(NibblesTo(k, n))
    <3>. HIDE DEF ks
    <3>. QED BY <2>1, <2>3, NibblesType
  <2>. QED BY <2>1, <2>2, <2>4
<1>4. ASSUME NEW e \in nodes PROVE IsNodeKey(e.key)
  BY <1>1, NodeEntry
<1>5. ASSUME NEW p \in paths PROVE p \in Strings
  <2>1. IsPath(p)
    BY <1>3, <1>4 DEF IsNodeKey
  <2>. QED BY <2>1, PathType
<1>. HIDE DEF ks, nodes, paths
<1>6. ASSUME NEW k \in ks PROVE ToBytes(ToNibblePath(k)) = k /\ NewNibblePath(k) = ToNibblePath(k)
  BY <1>3, PathIsKey, NewPathIsPath
<1>7. ASSUME NEW k \in ks, NEW l \in ks
      PROVE  BytesLess(k, l) <=> ComparePaths(ToNibblePath(k), ToNibblePath(l)) = -1
  <2>1. PICK p : p = ToNibblePath(k) /\ IsPath(p) /\ Pack(p) = k /\ Len(p) = 2 * n
    <3>1. n \in 0 .. n
      OBVIOUS
    <3>. QED BY <1>3, <3>1, PathIsKey, NibblesType
  <2>2. PICK q : q = ToNibblePath(l) /\ IsPath(q) /\ Pack(q) = l /\ Len(q) = 2 * n
    <3>1. n \in 0 .. n
      OBVIOUS
    <3>. QED BY <1>3, <3>1, PathIsKey, NibblesType
  <2>3. BytesLess(Pack(p), Pack(q)) <=> ComparePaths(p, q) = -1
    BY <2>1, <2>2, PackOrder
  <2>. QED BY <2>1, <2>2, <2>3
<1>8. ASSUME NEW p \in paths, NEW q \in paths, NEW c, c = CommonPrefixLength(p, q)
      PROVE  /\ PathPrefix(p, c) = LongestCommonPrefix({p, q})
             /\ IsPathPrefix(p, q) <=> c = Len(p)
             /\ PathPrefix(p, c) \o Skip(p, c) = p
             /\ ComparePaths(p, q) = 0 <=> p = q
             /\ ComparePaths(p, q) = - ComparePaths(q, p)
  <2>1. p \in Strings /\ q \in Strings
    BY <1>5
  <2>2. c \in Nat /\ c <= Len(p)
    BY <1>8, <2>1, GoTogether
  <2>3. PathPrefix(p, c) = LongestCommonPrefix({p, q})
    BY <1>8, <2>1, PrefixIsLongest
  <2>4. IsPathPrefix(p, q) <=> c = Len(p)
    BY <1>8, <2>1, PrefixGoesTogether
  <2>5. PathPrefix(p, c) \o Skip(p, c) = p
    BY <2>1, <2>2, CutPath
  <2>6. ComparePaths(p, q) = 0 <=> p = q
    BY <2>1, CompareTurnsAround
  <2>7. ComparePaths(p, q) = - ComparePaths(q, p)
    BY <2>1, CompareTurnsAround
  <2>. QED BY <2>3, <2>4, <2>5, <2>6, <2>7
<1>9. ASSUME NEW e \in nodes, e.key.path # <<>>
      PROVE  Child(ParentKey(e.key), Last(e.key.path), e.key.version) = e.key
  BY <1>4, <1>9, ChildOfParent
<1>. QED BY <1>6, <1>7, <1>8, <1>9 DEF PathsAreFaithful, ks, nodes, paths

\* Keys keep what they stand for in bytes and nibbles: storage keys are read back
\* and stay apart, they are in the order of versions and paths, and paths are the
\* keys they come from (pkg/storage/keys.go, pkg/types/nodekey.go, key.go), for
\* every size of the fields and every content of a store.
THEOREM KeysAreReadBack == Spec => []KeysAreFaithful
<1>. DEFINE Inv == Sound(entries, engine, options)
<1>1. Init => Inv
  BY InitIsSound
<1>2. Inv /\ [Next]_vars => Inv'
  BY StepKeepsStore DEF Sound
<1>3. Inv => KeysAreFaithful
  BY KeysReadBack, KeysAreOrdered, KeysArePaths DEF KeysAreFaithful
<1>. QED BY <1>1, <1>2, <1>3, PTL DEF Spec
=============================================================================

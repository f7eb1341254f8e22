-------------------------- MODULE TensorLayoutProofs --------------------------
(***************************************************************************)
(* Induction over the naturals, for sets, and what the recursive functions of *)
(* TensorLayout.tla compute for every sequence of lengths.                   *)
(***************************************************************************)
EXTENDS TensorLayout, WellFoundedInduction, FiniteSetTheorems, TLAPS

-----------------------------------------------------------------------------
\* What fits ck::index_t keeps its value.
LEMMA IndexFits ==
  /\ \A n \in Nat: n < IndexLimit => Index(n) = n
  /\ \A v \in Seq(Nat): FitsIndex(v) => IndexVector(v) = v
<1>1. \A n \in Nat: n < IndexLimit => Index(n) = n
  <2> SUFFICES ASSUME NEW n \in Nat, n < IndexLimit PROVE Index(n) = n
    OBVIOUS
  <2> DEFINE L == IndexLimit
  <2>1. n + L \in Nat /\ 2 * L \in Nat /\ 0 < 2 * L /\ n + L < 2 * L
    BY IndexAssumption
  <2>2. \A a, b \in Nat: a < b => a % b = a
    OBVIOUS
  <2>3. (n + L) % (2 * L) = n + L
    BY <2>1, <2>2
  <2> QED BY <2>1, <2>3, IndexAssumption DEF Index
<1>2. ASSUME NEW v \in Seq(Nat), FitsIndex(v) PROVE IndexVector(v) = v
  <2>1. \A i \in DOMAIN v: v[i] \in Nat /\ v[i] < IndexLimit
    BY <1>2 DEF FitsIndex
  <2>2. \A i \in DOMAIN v: Index(v[i]) = v[i]
    BY <1>1, <2>1
  <2>3. v = [i \in DOMAIN v |-> v[i]]
    OBVIOUS
  <2> QED BY <2>2, <2>3 DEF IndexVector
<1> QED BY <1>1, <1>2

\* Every set of naturals that has a member has a least one.
LEMMA LeastNatural ==
  ASSUME NEW T \in SUBSET Nat, T # {}
  PROVE  \E x \in T: \A y \in T: x <= y
<1> DEFINE Less == OpToRel(<, Nat)
<1>1. IsWellFoundedOn(Less, Nat)
  BY NatLessThanWellFounded
<1>2. Less = {p \in Nat \X Nat: p[1] < p[2]}
  BY DEF OpToRel
<1> HIDE DEF Less
<1>3. PICK x \in T: \A y \in T: ~ (<<y, x>> \in Less)
  BY <1>1, WFMin
<1>4. \A y \in T: ~ (y < x)
  BY <1>2, <1>3
<1>5. x \in Nat /\ T \subseteq Nat
  OBVIOUS
<1> QED BY <1>4, <1>5

\* Induction: a set with 0 and the successor of each member has all naturals.
LEMMA NaturalsIn ==
  ASSUME NEW T, 0 \in T, \A n \in Nat: n \in T => n + 1 \in T
  PROVE  Nat \subseteq T
<1> SUFFICES ASSUME Nat \ T # {} PROVE FALSE
  OBVIOUS
<1>1. PICK x \in Nat \ T: \A y \in Nat \ T: x <= y
  BY LeastNatural
<1>2. x # 0 /\ x - 1 \in Nat /\ x = (x - 1) + 1
  BY <1>1
<1>3. x - 1 \in T
  BY <1>1, <1>2
<1> QED BY <1>1, <1>2, <1>3

LEMMA Multiples ==
  ASSUME NEW l \in Nat, NEW m \in Nat, NEW n \in Nat
  PROVE  /\ l * m \in Nat /\ l * (m + 1) = l * m + l
         /\ m < n => l * m + l <= l * n
         /\ l * m < l * n => m < n
<1>1. \A a, b \in Nat: a * b \in Nat
  OBVIOUS
<1>2. \A a, b, d \in Nat: a * (b + d) = a * b + a * d
  OBVIOUS
<1>3. \A a, b \in Nat: b <= a => l * b <= l * a
  <2> SUFFICES ASSUME NEW a \in Nat, NEW b \in Nat, b <= a PROVE l * b <= l * a
    OBVIOUS
  <2> DEFINE d == a - b
  <2>1. d \in Nat /\ a = b + d
    OBVIOUS
  <2> HIDE DEF d
  <2>2. l * a = l * b + l * d /\ l * b \in Nat /\ l * d \in Nat
    BY <1>1, <1>2, <2>1
  <2> QED BY <2>2
<1>4. l * (m + 1) = l * m + l
  OBVIOUS
<1>5. m < n => l * (m + 1) <= l * n
  BY <1>3
<1>6. l * m < l * n => m < n
  <2>1. n <= m => l * n <= l * m
    BY <1>3
  <2> QED BY <1>1, <2>1
<1> QED BY <1>1, <1>4, <1>5, <1>6

\* Division with a rest.
LEMMA Division ==
  ASSUME NEW l \in Nat, l # 0, NEW t \in Nat
  PROVE  \E m \in Nat, a \in 0..l - 1: t = l * m + a
<1> DEFINE T == {s \in Nat: \E m \in Nat, a \in 0..l - 1: s = l * m + a}
<1>1. 0 \in T
  <2>1. 0 = l * 0 + 0 /\ 0 \in 0..l - 1
    OBVIOUS
  <2> QED BY <2>1
<1>2. ASSUME NEW s \in Nat, s \in T PROVE s + 1 \in T
  <2>1. PICK m \in Nat, a \in 0..l - 1: s = l * m + a
    BY <1>2
  <2>2. l * m \in Nat /\ l * (m + 1) = l * m + l
    BY Multiples
  <2>3. CASE a + 1 < l
    <3>1. s + 1 = l * m + (a + 1) /\ a + 1 \in 0..l - 1
      BY <2>1, <2>2, <2>3
    <3>2. \A k \in Nat, b \in 0..l - 1: s + 1 = l * k + b => s + 1 \in T
      OBVIOUS
    <3> HIDE DEF T
    <3> QED BY <3>1, <3>2
  <2>4. CASE ~ (a + 1 < l)
    <3>1. s + 1 = l * (m + 1) + 0 /\ 0 \in 0..l - 1 /\ m + 1 \in Nat
      BY <2>1, <2>2, <2>4
    <3>2. \A k \in Nat, b \in 0..l - 1: s + 1 = l * k + b => s + 1 \in T
      OBVIOUS
    <3> HIDE DEF T
    <3> QED BY <3>1, <3>2
  <2> QED BY <2>3, <2>4
<1>3. Nat \subseteq T
  <2> HIDE DEF T
  <2> QED BY <1>1, <1>2, NaturalsIn
<1> QED BY <1>3

\* f starts at base and goes from n - 1 to n by Step, up to L.
StepOver(Step, V) == Step \in [Nat \X V -> V]
FoldsUpTo(f, L, base, Step, V) ==
  /\ f \in [0..L -> V]
  /\ f[0] = base
  /\ \A n \in 1..L: f[n] = Step[<<n, f[n - 1]>>]

\* A function defined by such a recursion exists.
LEMMA RecursiveFunction ==
  ASSUME NEW V, NEW base \in V, NEW Step, StepOver(Step, V), NEW L \in Nat
  PROVE  \E f: FoldsUpTo(f, L, base, Step, V)
<1> DEFINE Rec(f, N) == FoldsUpTo(f, N, base, Step, V)
           Exists == {N \in Nat: \E f: Rec(f, N)}
<1> USE DEF FoldsUpTo, StepOver
<1>1. 0 \in Exists
  <2>1. Rec([n \in 0..0 |-> base], 0)
    OBVIOUS
  <2> QED BY <2>1
<1>2. ASSUME NEW N \in Nat, N \in Exists PROVE N + 1 \in Exists
  <2>1. PICK f: Rec(f, N)
    BY <1>2
  <2> DEFINE g == [n \in 0..N + 1 |-> IF n <= N THEN f[n] ELSE Step[<<N + 1, f[N]>>]]
  <2>2. /\ \A n \in 0..N: g[n] = f[n] /\ f[n] \in V
        /\ g[N + 1] = Step[<<N + 1, f[N]>>] /\ f[N] \in V
        /\ DOMAIN g = 0..N + 1 /\ g = [n \in 0..N + 1 |-> g[n]]
    BY <2>1
  <2>3. g[N + 1] \in V
    BY <2>2
  <2> HIDE DEF g
  <2>4. \A n \in 0..N + 1: g[n] \in V
    <3>1. \A n \in 0..N + 1: n \in 0..N \/ n = N + 1
      OBVIOUS
    <3> QED BY <2>2, <2>3, <3>1
  <2>5. g \in [0..N + 1 -> V]
    BY <2>2, <2>4
  <2>6. \A n \in 1..N + 1: g[n] = Step[<<n, g[n - 1]>>]
    <3>1. ASSUME NEW n \in 1..N PROVE g[n] = Step[<<n, g[n - 1]>>]
      <4>1. n \in 0..N /\ n - 1 \in 0..N
        OBVIOUS
      <4> QED BY <2>1, <2>2, <4>1
    <3>2. g[N + 1] = Step[<<N + 1, g[N + 1 - 1]>>]
      <4>1. N + 1 - 1 = N /\ N \in 0..N
        OBVIOUS
      <4> QED BY <2>2, <4>1
    <3>3. \A n \in 1..N + 1: n \in 1..N \/ n = N + 1
      OBVIOUS
    <3> QED BY <3>1, <3>2, <3>3
  <2>7. g[0] = base
    <3>1. 0 \in 0..N
      OBVIOUS
    <3> QED BY <2>1, <2>2, <3>1
  <2> QED BY <2>5, <2>6, <2>7
<1>3. Nat \subseteq Exists
  <2> HIDE DEF Exists
  <2> QED BY <1>1, <1>2, NaturalsIn
<1>4. PICK f: Rec(f, L)
  BY <1>3
<1> QED BY <1>4

-----------------------------------------------------------------------------
\* ElementsFromLengths multiplies the lengths one after the other.
LEMMA Products ==
  ASSUME NEW s \in Seq(Nat)
  PROVE  \E f \in [0..Len(s) -> Nat]:
           /\ f[0] = 1
           /\ \A n \in 1..Len(s): f[n] = s[n] * f[n - 1]
           /\ ElementsFromLengths(s) = f[Len(s)]
<1> DEFINE L == Len(s)
           Product(f) == f = [n \in 0..L |-> IF n = 0 THEN 1 ELSE s[n] * f[n - 1]]
           Step == [p \in Nat \X Nat |-> IF p[1] \in 1..L THEN s[p[1]] * p[2] ELSE 0]
<1>1. L \in Nat /\ 1 \in Nat
  OBVIOUS
<1>2. StepOver(Step, Nat)
  <2>1. ASSUME NEW p \in Nat \X Nat, p[1] \in 1..L PROVE s[p[1]] * p[2] \in Nat
    <3>1. s[p[1]] \in Nat /\ p[2] \in Nat
      BY <2>1
    <3> QED BY <3>1
  <2> QED BY <2>1 DEF StepOver
<1>3. \A n \in 1..L, y \in Nat: Step[<<n, y>>] = s[n] * y
  OBVIOUS
<1> HIDE DEF Step, L
<1>4. PICK f: FoldsUpTo(f, L, 1, Step, Nat)
  BY <1>1, <1>2, RecursiveFunction
<1>5. \A n \in 0..L: f[n] = IF n = 0 THEN 1 ELSE s[n] * f[n - 1]
  <2>1. \A n \in 1..L: n \in 0..L /\ n - 1 \in 0..L /\ f[n - 1] \in Nat /\ n # 0
    BY <1>1, <1>4 DEF FoldsUpTo
  <2>2. \A n \in 1..L: f[n] = s[n] * f[n - 1]
    BY <1>3, <1>4, <2>1 DEF FoldsUpTo
  <2>3. f[0] = 1
    BY <1>1, <1>4 DEF FoldsUpTo
  <2> QED BY <1>1, <2>2, <2>3
<1>6. Product(f)
  BY <1>4, <1>5 DEF FoldsUpTo
<1> USE DEF L
<1> DEFINE product == CHOOSE g: Product(g)
<1>7. Product(product)
  BY <1>6
<1>8. ElementsFromLengths(s) = product[L]
  BY DEF ElementsFromLengths
<1> HIDE DEF product
<1>9. product[0] = 1 /\ \A n \in 1..L: product[n] = s[n] * product[n - 1]
  BY <1>1, <1>7
<1> DEFINE Typed == {N \in Nat: N <= L => product[N] \in Nat}
<1>10. 0 \in Typed
  BY <1>9
<1>11. ASSUME NEW N \in Nat, N \in Typed PROVE N + 1 \in Typed
  <2> SUFFICES ASSUME N + 1 <= L PROVE product[N + 1] \in Nat
    OBVIOUS
  <2>1. product[N] \in Nat /\ s[N + 1] \in Nat /\ product[N + 1] = s[N + 1] * product[N]
    BY <1>9, <1>11
  <2> QED BY <2>1
<1>12. Nat \subseteq Typed
  <2> HIDE DEF Typed
  <2> QED BY <1>10, <1>11, NaturalsIn
<1>13. product \in [0..L -> Nat]
  BY <1>7, <1>12
<1> QED BY <1>8, <1>9, <1>13

LEMMA NoLengths == ElementsFromLengths(<<>>) = 1
<1>1. <<>> \in Seq(Nat) /\ Len(<<>>) = 0
  OBVIOUS
<1>2. \E f \in [0..0 -> Nat]: f[0] = 1 /\ ElementsFromLengths(<<>>) = f[0]
  BY <1>1, Products
<1> QED BY <1>2

\* A product of naturals is 1 only if each of them is.
LEMMA UnitProduct ==
  ASSUME NEW s \in Seq(Nat), ElementsFromLengths(s) = 1
  PROVE  \A i \in 1..Len(s): s[i] = 1
<1>1. PICK f \in [0..Len(s) -> Nat]: /\ f[0] = 1
                                     /\ \A n \in 1..Len(s): f[n] = s[n] * f[n - 1]
                                     /\ ElementsFromLengths(s) = f[Len(s)]
  BY Products
<1> DEFINE Units == {N \in Nat: N <= Len(s) /\ f[N] = 1 => \A i \in 1..N: s[i] = 1}
<1>2. 0 \in Units
  OBVIOUS
<1>3. ASSUME NEW a \in Nat, NEW b \in Nat, a * b = 1 PROVE a = 1 /\ b = 1
  <2>1. a # 0 /\ b # 0
    BY <1>3
  <2>2. a <= a * b /\ b <= a * b
    BY <2>1
  <2> QED BY <1>3, <2>1, <2>2
<1>4. ASSUME NEW N \in Nat, N \in Units PROVE N + 1 \in Units
  <2> SUFFICES ASSUME N + 1 <= Len(s), f[N + 1] = 1 PROVE \A i \in 1..N + 1: s[i] = 1
    OBVIOUS
  <2>1. f[N] \in Nat /\ s[N + 1] \in Nat /\ s[N + 1] * f[N] = 1
    BY <1>1
  <2>2. f[N] = 1 /\ s[N + 1] = 1
    BY <1>3, <2>1
  <2>3. \A i \in 1..N: s[i] = 1
    BY <1>4, <2>2
  <2> QED BY <2>2, <2>3
<1>5. Nat \subseteq Units
  <2> HIDE DEF Units
  <2> QED BY <1>2, <1>4, NaturalsIn
<1>6. Len(s) \in Nat /\ f[Len(s)] = 1
  BY <1>1
<1>7. Len(s) \in Units
  BY <1>5, <1>6
<1> QED BY <1>6, <1>7

\* The last stride of a packed row-major tensor is 1, and no other is unless
\* the lengths after it are all 1.
LEMMA RowMajorStrides ==
  ASSUME NEW lengths \in Seq(Nat), NEW i \in 1..Len(lengths)
  PROVE  /\ Len(StridesFromLengths(lengths, FALSE)) = Len(lengths)
         /\ i = Len(lengths) => StridesFromLengths(lengths, FALSE)[i] = 1
         /\ StridesFromLengths(lengths, FALSE)[i] = 1
              => \A j \in i + 1..Len(lengths): lengths[j] = 1
<1> DEFINE rest == SubSeq(lengths, i + 1, Len(lengths))
<1>1. /\ StridesFromLengths(lengths, FALSE)[i] = ElementsFromLengths(rest)
      /\ DOMAIN StridesFromLengths(lengths, FALSE) = 1..Len(lengths)
      /\ StridesFromLengths(lengths, FALSE)
           = [n \in 1..Len(lengths) |-> StridesFromLengths(lengths, FALSE)[n]]
  BY DEF StridesFromLengths
<1>2. Len(StridesFromLengths(lengths, FALSE)) = Len(lengths)
  <2>1. DOMAIN lengths = 1..Len(lengths) /\ Len(lengths) \in Nat
    OBVIOUS
  <2> QED BY <2>1 DEF StridesFromLengths
<1>3. /\ rest \in Seq(Nat) /\ Len(rest) = Len(lengths) - i
      /\ \A j \in i + 1..Len(lengths): j - i \in 1..Len(rest) /\ rest[j - i] = lengths[j]
  OBVIOUS
<1>4. i = Len(lengths) => rest = <<>>
  BY <1>3
<1> HIDE DEF rest
<1> QED BY <1>1, <1>2, <1>3, <1>4, NoLengths, UnitProduct

\* Packed strides are naturals, in either layout.
LEMMA PackedTyped ==
  ASSUME NEW lengths \in Seq(Nat), NEW colMajor \in BOOLEAN
  PROVE  /\ StridesFromLengths(lengths, colMajor) \in Seq(Nat)
         /\ Len(StridesFromLengths(lengths, colMajor)) = Len(lengths)
<1> DEFINE part(i) == IF colMajor THEN SubSeq(lengths, 1, i - 1)
                                  ELSE SubSeq(lengths, i + 1, Len(lengths))
<1>1. ASSUME NEW i \in 1..Len(lengths) PROVE ElementsFromLengths(part(i)) \in Nat
  <2>1. part(i) \in Seq(Nat)
    OBVIOUS
  <2> HIDE DEF part
  <2>2. PICK f \in [0..Len(part(i)) -> Nat]: ElementsFromLengths(part(i)) = f[Len(part(i))]
    BY <2>1, Products
  <2> QED BY <2>1, <2>2
<1>2. DOMAIN lengths = 1..Len(lengths) /\ Len(lengths) \in Nat
  OBVIOUS
<1>3. StridesFromLengths(lengths, colMajor)
        = [i \in 1..Len(lengths) |-> ElementsFromLengths(part(i))]
  BY <1>2 DEF StridesFromLengths
<1> HIDE DEF part
<1> QED BY <1>1, <1>2, <1>3

-----------------------------------------------------------------------------
\* f sums the terms g one after the other.
Terms(g, L) == g \in [1..L -> Int]
SumsUpTo(f, g, L) ==
  f \in [0..L -> Int] /\ f[0] = 0 /\ \A n \in 1..L: f[n] = g[n] + f[n - 1]

LEMMA SumExists ==
  ASSUME NEW L \in Nat, NEW g, Terms(g, L)
  PROVE  \E f: SumsUpTo(f, g, L)
<1> DEFINE Step == [p \in Nat \X Int |-> IF p[1] \in 1..L THEN g[p[1]] + p[2] ELSE 0]
<1>1. StepOver(Step, Int)
  <2>1. ASSUME NEW p \in Nat \X Int, p[1] \in 1..L PROVE g[p[1]] + p[2] \in Int
    <3>1. g[p[1]] \in Int /\ p[2] \in Int
      BY <2>1 DEF Terms
    <3> QED BY <3>1
  <2> QED BY <2>1 DEF StepOver
<1>2. \A n \in 1..L, y \in Int: Step[<<n, y>>] = g[n] + y
  OBVIOUS
<1>3. L \in Nat /\ 0 \in Int
  OBVIOUS
<1> HIDE DEF Step
<1>4. PICK f: FoldsUpTo(f, L, 0, Step, Int)
  BY <1>1, <1>3, RecursiveFunction
<1>5. f \in [0..L -> Int] /\ f[0] = 0 /\ \A n \in 1..L: f[n] = Step[<<n, f[n - 1]>>]
  BY <1>4 DEF FoldsUpTo
<1>6. \A n \in 1..L: f[n - 1] \in Int
  BY <1>5
<1>7. \A n \in 1..L: f[n] = g[n] + f[n - 1]
  BY <1>2, <1>5, <1>6
<1> QED BY <1>5, <1>7 DEF SumsUpTo

LEMMA SumOfZeros ==
  ASSUME NEW L \in Nat, NEW g, \A n \in 1..L: g[n] = 0, NEW f, SumsUpTo(f, g, L)
  PROVE  f[L] = 0
<1> DEFINE Zero == {n \in Nat: n <= L => f[n] = 0}
<1>1. 0 \in Zero
  BY DEF SumsUpTo
<1>2. ASSUME NEW n \in Nat, n \in Zero PROVE n + 1 \in Zero
  <2> SUFFICES ASSUME n + 1 <= L PROVE f[n + 1] = 0
    OBVIOUS
  <2>1. f[n] = 0 /\ g[n + 1] = 0 /\ f[n + 1] = g[n + 1] + f[n]
    BY <1>2 DEF SumsUpTo
  <2> QED BY <2>1
<1>3. Nat \subseteq Zero
  <2> HIDE DEF Zero
  <2> QED BY <1>1, <1>2, NaturalsIn
<1> QED BY <1>3

\* Two sums whose terms differ in one place differ by that difference.
DifferAt(g, h, k, L) == k \in 1..L /\ \A n \in 1..L: n # k => h[n] = g[n]

LEMMA SumChanged ==
  ASSUME NEW L \in Nat, NEW g, NEW h, Terms(g, L), Terms(h, L), NEW k, DifferAt(g, h, k, L),
         NEW f, SumsUpTo(f, g, L), NEW e, SumsUpTo(e, h, L)
  PROVE  e[L] = f[L] + (h[k] - g[k])
<1> DEFINE delta == h[k] - g[k]
           Changed == {n \in Nat: n <= L => e[n] = IF k <= n THEN f[n] + delta ELSE f[n]}
<1>1. 0 \in Changed
  BY DEF SumsUpTo, DifferAt
<1>2. ASSUME NEW n \in Nat, n \in Changed PROVE n + 1 \in Changed
  <2> SUFFICES ASSUME n + 1 <= L
               PROVE  e[n + 1] = IF k <= n + 1 THEN f[n + 1] + delta ELSE f[n + 1]
    OBVIOUS
  <2>1. /\ f[n + 1] = g[n + 1] + f[n] /\ e[n + 1] = h[n + 1] + e[n]
        /\ f[n] \in Int /\ e[n] \in Int
    BY DEF SumsUpTo
  <2>2. g[n + 1] \in Int /\ h[n + 1] \in Int /\ g[k] \in Int /\ h[k] \in Int /\ k \in 1..L
    BY DEF Terms, DifferAt
  <2>3. e[n] = IF k <= n THEN f[n] + delta ELSE f[n]
    BY <1>2
  <2>4. CASE n + 1 = k
    <3>1. e[n] = f[n] /\ e[n + 1] = h[k] + e[n] /\ f[n + 1] = g[k] + f[n] /\ k <= n + 1
      BY <2>1, <2>2, <2>3, <2>4
    <3> QED BY <2>1, <2>2, <3>1
  <2>5. CASE n + 1 # k
    <3>1. h[n + 1] = g[n + 1]
      BY <2>5 DEF DifferAt
    <3>2. k <= n <=> k <= n + 1
      BY <2>2, <2>5
    <3>3. delta \in Int
      BY <2>2
    <3> HIDE DEF delta
    <3>4. CASE k <= n
      BY <2>1, <2>2, <2>3, <3>1, <3>2, <3>3, <3>4
    <3>5. CASE ~ (k <= n)
      BY <2>1, <2>2, <2>3, <3>1, <3>2, <3>3, <3>5
    <3> QED BY <3>4, <3>5
  <2> QED BY <2>4, <2>5
<1>3. Nat \subseteq Changed
  <2> HIDE DEF Changed
  <2> QED BY <1>1, <1>2, NaturalsIn
<1>4. L \in Changed /\ k <= L
  BY <1>3 DEF DifferAt
<1> QED BY <1>4

\* A sum does not depend on the order of its terms, nor on further terms that are
\* 0: the n-th of L terms h is the to[n]-th of M terms g, from[j] is where the j-th
\* comes from, 0 if from nowhere.
Embeds(to, from, g, h, L, M) ==
  /\ \A n \in 1..L: to[n] \in 1..M /\ from[to[n]] = n /\ h[n] = g[to[n]]
  /\ \A j \in 1..M: /\ from[j] \in 0..L
                    /\ IF from[j] = 0 THEN g[j] = 0 ELSE to[from[j]] = j

LEMMA SumEmbedded ==
  ASSUME NEW L \in Nat, NEW M \in Nat, NEW g, NEW h, Terms(g, M), Terms(h, L),
         NEW to, NEW from, Embeds(to, from, g, h, L, M),
         NEW f, SumsUpTo(f, g, M), NEW e, SumsUpTo(e, h, L)
  PROVE  e[L] = f[M]
<1> USE DEF Embeds
<1> DEFINE Taken(n) == [j \in 1..M |-> IF from[j] <= n THEN g[j] ELSE 0]
           Reordered == {n \in Nat: n <= L => \A d: SumsUpTo(d, Taken(n), M) => d[M] = e[n]}
<1>1. 0 \in Reordered
  <2> SUFFICES ASSUME NEW d, SumsUpTo(d, Taken(0), M) PROVE d[M] = e[0]
    OBVIOUS
  <2>1. \A j \in 1..M: Taken(0)[j] = 0
    OBVIOUS
  <2> HIDE DEF Taken
  <2>2. d[M] = 0
    BY <2>1, SumOfZeros
  <2> QED BY <2>2 DEF SumsUpTo
<1>2. ASSUME NEW n \in Nat, n \in Reordered PROVE n + 1 \in Reordered
  <2> SUFFICES ASSUME n + 1 <= L, NEW d, SumsUpTo(d, Taken(n + 1), M) PROVE d[M] = e[n + 1]
    OBVIOUS
  <2> DEFINE k == to[n + 1]
  <2>1. Terms(Taken(n), M) /\ Terms(Taken(n + 1), M)
    BY DEF Terms
  <2>2. k \in 1..M /\ from[k] = n + 1 /\ h[n + 1] = g[k] /\ g[k] \in Int
    BY DEF Terms
  <2>3. Taken(n)[k] = 0 /\ Taken(n + 1)[k] = g[k]
    BY <2>2
  <2>4. ASSUME NEW j \in 1..M, j # k PROVE Taken(n + 1)[j] = Taken(n)[j]
    <3>1. from[j] # n + 1 /\ from[j] \in 0..L
      BY <2>4
    <3>2. \A i \in 0..L: i # n + 1 => (i <= n + 1 <=> i <= n)
      OBVIOUS
    <3>3. from[j] <= n + 1 <=> from[j] <= n
      BY <3>1, <3>2
    <3> QED BY <3>3
  <2>5. DifferAt(Taken(n), Taken(n + 1), k, M)
    BY <2>2, <2>4 DEF DifferAt
  <2> HIDE DEF Taken, k
  <2>6. PICK c: SumsUpTo(c, Taken(n), M)
    BY <2>1, SumExists
  <2>7. d[M] = c[M] + (Taken(n + 1)[k] - Taken(n)[k])
    BY <2>1, <2>5, <2>6, SumChanged
  <2>8. c[M] = e[n]
    BY <1>2, <2>6
  <2>9. e[n + 1] = h[n + 1] + e[n] /\ e[n] \in Int
    <3>1. n \in 0..L /\ n + 1 \in 1..L /\ n + 1 - 1 = n
      OBVIOUS
    <3>2. e[n + 1] = h[n + 1] + e[n + 1 - 1] /\ e[n] \in Int
      BY <3>1 DEF SumsUpTo
    <3> QED BY <3>1, <3>2
  <2>10. d[M] = e[n] + (g[k] - 0) /\ e[n + 1] = g[k] + e[n]
    BY <2>2, <2>3, <2>7, <2>8, <2>9
  <2> QED BY <2>2, <2>9, <2>10
<1>3. Nat \subseteq Reordered
  <2> HIDE DEF Reordered
  <2> QED BY <1>1, <1>2, NaturalsIn
<1>4. L \in Reordered
  BY <1>3
<1>5. Taken(L) = g
  <2>1. \A j \in 1..M: from[j] <= L
    OBVIOUS
  <2> QED BY <2>1 DEF Terms
<1> HIDE DEF Taken
<1> QED BY <1>4, <1>5

-----------------------------------------------------------------------------
\* OffsetOf sums a coordinate times its stride over the modes.
LEMMA OffsetIsSum ==
  ASSUME NEW x, NEW strides, NEW L \in Nat, Len(strides) = L,
         NEW g, Terms(g, L), \A n \in 1..L: g[n] = x[n] * strides[n]
  PROVE  \E f: SumsUpTo(f, g, L) /\ OffsetOf(x, strides) = f[L]
<1> DEFINE Sum(f) == f = [n \in 0..L |-> IF n = 0 THEN 0 ELSE x[n] * strides[n] + f[n - 1]]
<1>1. PICK f: SumsUpTo(f, g, L)
  BY SumExists
<1>2. Sum(f)
  <2>1. f \in [0..L -> Int] /\ f[0] = 0 /\ \A n \in 1..L: f[n] = x[n] * strides[n] + f[n - 1]
    BY <1>1 DEF SumsUpTo
  <2>2. \A n \in 0..L: f[n] = IF n = 0 THEN 0 ELSE x[n] * strides[n] + f[n - 1]
    BY <2>1
  <2> QED BY <2>1, <2>2
<1> DEFINE sum == CHOOSE e: Sum(e)
<1>3. Sum(sum)
  BY <1>2
<1>4. OffsetOf(x, strides) = sum[L]
  BY DEF OffsetOf
<1> HIDE DEF sum
<1>5. sum[0] = 0 /\ \A n \in 1..L: sum[n] = g[n] + sum[n - 1]
  BY <1>3
<1> DEFINE Typed == {n \in Nat: n <= L => sum[n] \in Int}
<1>6. 0 \in Typed
  BY <1>5
<1>7. ASSUME NEW n \in Nat, n \in Typed PROVE n + 1 \in Typed
  <2> SUFFICES ASSUME n + 1 <= L PROVE sum[n + 1] \in Int
    OBVIOUS
  <2>1. sum[n + 1] = g[n + 1] + sum[n] /\ sum[n] \in Int /\ g[n + 1] \in Int
    BY <1>5, <1>7 DEF Terms
  <2> QED BY <2>1
<1>8. Nat \subseteq Typed
  <2> HIDE DEF Typed
  <2> QED BY <1>6, <1>7, NaturalsIn
<1>9. sum \in [0..L -> Int]
  BY <1>3, <1>8
<1>10. SumsUpTo(sum, g, L)
  BY <1>5, <1>9 DEF SumsUpTo
<1> QED BY <1>4, <1>10

\* Coordinates puts every coordinate of a mode after those of the modes before.
Extended(X, length) == {Append(x, i) : x \in X, i \in 0..length - 1}

LEMMA CoordinatesBuilt ==
  ASSUME NEW lengths \in Seq(Nat)
  PROVE  \E f: /\ f[0] = {<<>>}
               /\ \A n \in 1..Len(lengths): f[n] = Extended(f[n - 1], lengths[n])
               /\ Coordinates(lengths) = f[Len(lengths)]
<1> DEFINE L == Len(lengths)
           UpTo(f) == f = [n \in 0..L |-> IF n = 0 THEN {<<>>}
                                          ELSE Extended(f[n - 1], lengths[n])]
           V == SUBSET Seq(Nat)
           Step == [p \in Nat \X V |-> IF p[1] \in 1..L THEN Extended(p[2], lengths[p[1]]) ELSE {}]
<1>1. L \in Nat /\ {<<>>} \in V
  OBVIOUS
<1>2. StepOver(Step, V)
  <2>1. ASSUME NEW p \in Nat \X V, p[1] \in 1..L PROVE Extended(p[2], lengths[p[1]]) \in V
    <3>1. p[2] \subseteq Seq(Nat) /\ lengths[p[1]] \in Nat
      BY <2>1
    <3>2. ASSUME NEW X \in SUBSET Seq(Nat), NEW l \in Nat, NEW y \in Extended(X, l)
          PROVE  y \in Seq(Nat)
      <4>1. PICK x \in X, i \in 0..l - 1: y = Append(x, i)
        BY DEF Extended
      <4> QED BY <4>1
    <3> QED BY <3>1, <3>2
  <2>2. Step \in [Nat \X V -> V]
    BY <2>1
  <2> QED BY <2>2 DEF StepOver
<1>3. \A n \in 1..L, X \in V: Step[<<n, X>>] = Extended(X, lengths[n])
  OBVIOUS
<1> HIDE DEF Step, V, L
<1>4. PICK f: FoldsUpTo(f, L, {<<>>}, Step, V)
  BY <1>1, <1>2, RecursiveFunction
<1>5. f \in [0..L -> V] /\ f[0] = {<<>>} /\ \A n \in 1..L: f[n] = Step[<<n, f[n - 1]>>]
  BY <1>4 DEF FoldsUpTo
<1>6. \A n \in 1..L: f[n - 1] \in V
  BY <1>1, <1>5
<1>7. \A n \in 1..L: f[n] = Extended(f[n - 1], lengths[n])
  BY <1>3, <1>5, <1>6
<1>8. \A n \in 0..L: f[n] = IF n = 0 THEN {<<>>} ELSE Extended(f[n - 1], lengths[n])
  BY <1>1, <1>5, <1>7
<1>9. UpTo(f)
  BY <1>5, <1>8
<1> DEFINE upTo == CHOOSE g: UpTo(g)
<1>10. UpTo(upTo)
  <2> HIDE DEF UpTo
  <2> QED BY <1>9
<1>11. Coordinates(lengths) = upTo[L]
  BY DEF Coordinates, L, Extended
<1> HIDE DEF upTo
<1>12. upTo[0] = {<<>>} /\ \A n \in 1..L: upTo[n] = Extended(upTo[n - 1], lengths[n])
  <2>1. \A n \in 0..L: upTo[n] = IF n = 0 THEN {<<>>} ELSE Extended(upTo[n - 1], lengths[n])
    BY <1>10, Zenon
  <2>2. 0 \in 0..L /\ \A n \in 1..L: n \in 0..L /\ n # 0
    BY <1>1
  <2> QED BY <2>1, <2>2
<1> QED BY <1>11, <1>12 DEF L

\* The coordinates of an element: one natural below the length for each mode.
LEMMA CoordinatesTyped ==
  ASSUME NEW lengths \in Seq(Nat), NEW x \in Coordinates(lengths)
  PROVE  x \in Seq(Nat) /\ Len(x) = Len(lengths) /\ \A i \in 1..Len(lengths): x[i] < lengths[i]
<1> DEFINE L == Len(lengths)
           Typed(y, n) == y \in Seq(Nat) /\ Len(y) = n /\ \A i \in 1..n: y[i] < lengths[i]
<1>1. PICK f: /\ f[0] = {<<>>}
              /\ \A n \in 1..L: f[n] = Extended(f[n - 1], lengths[n])
              /\ Coordinates(lengths) = f[L]
  BY CoordinatesBuilt
<1> DEFINE T == {n \in Nat: n <= L => \A y \in f[n]: Typed(y, n)}
<1>2. 0 \in T
  <2>1. Typed(<<>>, 0)
    OBVIOUS
  <2>2. \A y \in f[0]: y = <<>>
    BY <1>1
  <2> HIDE DEF Typed
  <2> QED BY <2>1, <2>2
<1>3. ASSUME NEW n \in Nat, n \in T PROVE n + 1 \in T
  <2> SUFFICES ASSUME n + 1 <= L, NEW y \in f[n + 1] PROVE Typed(y, n + 1)
    OBVIOUS
  <2>1. f[n + 1] = Extended(f[n], lengths[n + 1]) /\ lengths[n + 1] \in Nat
    BY <1>1
  <2>2. PICK z \in f[n], i \in 0..lengths[n + 1] - 1: y = Append(z, i)
    BY <2>1 DEF Extended
  <2>3. Typed(z, n)
    BY <1>3
  <2>4. y \in Seq(Nat) /\ Len(y) = n + 1 /\ y[n + 1] = i /\ \A j \in 1..n: y[j] = z[j]
    BY <2>1, <2>2, <2>3
  <2>5. \A j \in 1..n + 1: j \in 1..n \/ j = n + 1
    OBVIOUS
  <2> QED BY <2>1, <2>3, <2>4, <2>5
<1>4. Nat \subseteq T
  <2> HIDE DEF T
  <2> QED BY <1>2, <1>3, NaturalsIn
<1>5. L \in T
  BY <1>4
<1> QED BY <1>1, <1>5

LEMMA ExtendedHas ==
  ASSUME NEW X, NEW length, NEW y \in X, NEW i \in 0..length - 1
  PROVE  Append(y, i) \in Extended(X, length)
BY DEF Extended

LEMMA CoordinatesAre ==
  ASSUME NEW lengths \in Seq(Nat), NEW x \in Seq(Nat), Len(x) = Len(lengths),
         \A i \in 1..Len(lengths): x[i] < lengths[i]
  PROVE  x \in Coordinates(lengths)
<1> DEFINE L == Len(lengths)
<1>1. PICK f: /\ f[0] = {<<>>}
              /\ \A n \in 1..L: f[n] = Extended(f[n - 1], lengths[n])
              /\ Coordinates(lengths) = f[L]
  BY CoordinatesBuilt
<1> DEFINE first == [n \in 0..L |-> SubSeq(x, 1, n)]
<1>2. first[0] = <<>> /\ first[L] = x
  <2>1. SubSeq(x, 1, 0) = <<>> /\ SubSeq(x, 1, L) = x
    OBVIOUS
  <2> QED BY <2>1
<1>3. ASSUME NEW n \in Nat, n + 1 <= L PROVE first[n + 1] = Append(first[n], x[n + 1])
  <2>1. SubSeq(x, 1, n + 1) = Append(SubSeq(x, 1, n), x[n + 1])
    BY <1>3
  <2>2. n \in 0..L /\ n + 1 \in 0..L
    BY <1>3
  <2>3. first[n] = SubSeq(x, 1, n)
    BY <2>2
  <2>4. first[n + 1] = SubSeq(x, 1, n + 1)
    BY <2>2
  <2> HIDE DEF first
  <2> QED BY <2>1, <2>3, <2>4
<1> HIDE DEF first
<1> DEFINE T == {n \in Nat: n <= L => first[n] \in f[n]}
<1>4. 0 \in T
  BY <1>1, <1>2
<1>5. ASSUME NEW n \in Nat, n \in T PROVE n + 1 \in T
  <2> SUFFICES ASSUME n + 1 <= L PROVE first[n + 1] \in f[n + 1]
    OBVIOUS
  <2>1. first[n] \in f[n] /\ n + 1 \in 1..L /\ n + 1 - 1 = n
    BY <1>5
  <2>2. f[n + 1] = Extended(f[n], lengths[n + 1])
    BY <1>1, <2>1
  <2>3. x[n + 1] \in 0..lengths[n + 1] - 1
    OBVIOUS
  <2>4. Append(first[n], x[n + 1]) \in Extended(f[n], lengths[n + 1])
    BY <2>1, <2>3, ExtendedHas
  <2>5. first[n + 1] = Append(first[n], x[n + 1])
    BY <1>3
  <2> QED BY <2>2, <2>4, <2>5
<1>6. Nat \subseteq T
  <2> HIDE DEF T
  <2> QED BY <1>4, <1>5, NaturalsIn
<1>7. L \in T
  BY <1>6
<1> QED BY <1>1, <1>2, <1>7

\* There are as many elements as the product of the lengths.
LEMMA ExtendedCount ==
  ASSUME NEW X, X \subseteq Seq(Nat), IsFiniteSet(X), NEW l \in Nat
  PROVE  IsFiniteSet(Extended(X, l)) /\ Cardinality(Extended(X, l)) = l * Cardinality(X)
<1> DEFINE I == 0..l - 1
           pair == [q \in X \X I |-> Append(q[1], q[2])]
<1>1. IsFiniteSet(I) /\ Cardinality(I) = l
  BY FS_Interval
<1>2. IsFiniteSet(X \X I) /\ Cardinality(X \X I) = Cardinality(X) * Cardinality(I)
  BY <1>1, FS_Product
<1>3. \A q \in X \X I: q[1] \in Seq(Nat) /\ q[2] \in Nat /\ q = <<q[1], q[2]>>
  OBVIOUS
<1>4. \A x, y \in Seq(Nat), i, j \in Nat: Append(x, i) = Append(y, j) => x = y /\ i = j
  <2> SUFFICES ASSUME NEW x \in Seq(Nat), NEW y \in Seq(Nat), NEW i \in Nat, NEW j \in Nat,
                      Append(x, i) = Append(y, j)
               PROVE  x = y /\ i = j
    OBVIOUS
  <2>1. \A s \in Seq(Nat), k \in Nat: s = SubSeq(Append(s, k), 1, Len(s))
    OBVIOUS
  <2>2. Len(x) = Len(y)
    OBVIOUS
  <2>3. i = Append(x, i)[Len(x) + 1] /\ j = Append(y, j)[Len(y) + 1]
    OBVIOUS
  <2>4. x = SubSeq(Append(x, i), 1, Len(x)) /\ y = SubSeq(Append(y, j), 1, Len(y))
    BY <2>1, Zenon
  <2>5. x = y
    BY <2>2, <2>4, Zenon
  <2> QED BY <2>2, <2>3, <2>5, Zenon
<1>5. pair \in Bijection(X \X I, Extended(X, l))
  <2>1. pair \in [X \X I -> Extended(X, l)]
    BY DEF Extended
  <2>2. ASSUME NEW q \in X \X I, NEW r \in X \X I, pair[q] = pair[r] PROVE q = r
    <3>1. Append(q[1], q[2]) = Append(r[1], r[2])
      BY <2>2
    <3>2. q[1] = r[1] /\ q[2] = r[2]
      BY <1>3, <1>4, <3>1
    <3> QED BY <1>3, <3>2
  <2>3. \A y \in Extended(X, l): \E q \in X \X I: pair[q] = y
    <3> SUFFICES ASSUME NEW y \in Extended(X, l) PROVE \E q \in X \X I: pair[q] = y
      OBVIOUS
    <3>1. PICK x \in X, i \in I: y = Append(x, i)
      BY DEF Extended
    <3>2. pair[<<x, i>>] = y
      BY <3>1
    <3> QED BY <3>2
  <2> HIDE DEF pair
  <2> QED BY <2>1, <2>2, <2>3 DEF Bijection, Injection, Surjection, IsInjective
<1>6. Cardinality(X) \in Nat
  BY FS_CardinalityType
<1> HIDE DEF pair, I
<1>7. IsFiniteSet(Extended(X, l)) /\ Cardinality(Extended(X, l)) = Cardinality(X \X I)
  BY <1>2, <1>5, FS_Bijection DEF ExistsBijection
<1>8. Cardinality(X) * l = l * Cardinality(X)
  BY <1>6
<1> QED BY <1>1, <1>2, <1>7, <1>8

LEMMA CoordinatesCount ==
  ASSUME NEW lengths \in Seq(Nat)
  PROVE  /\ IsFiniteSet(Coordinates(lengths))
         /\ Cardinality(Coordinates(lengths)) = ElementsFromLengths(lengths)
<1> DEFINE L == Len(lengths)
<1>1. PICK f: /\ f[0] = {<<>>}
              /\ \A n \in 1..L: f[n] = Extended(f[n - 1], lengths[n])
              /\ Coordinates(lengths) = f[L]
  BY CoordinatesBuilt
<1>2. PICK g \in [0..L -> Nat]: /\ g[0] = 1
                                /\ \A n \in 1..L: g[n] = lengths[n] * g[n - 1]
                                /\ ElementsFromLengths(lengths) = g[L]
  BY Products
<1> DEFINE T == {n \in Nat: n <= L => /\ f[n] \subseteq Seq(Nat) /\ IsFiniteSet(f[n])
                                      /\ Cardinality(f[n]) = g[n]}
<1>3. 0 \in T
  <2>1. IsFiniteSet({<<>>}) /\ Cardinality({<<>>}) = 1
    BY FS_Singleton
  <2>2. f[0] = {<<>>} /\ g[0] = 1
    BY <1>1, <1>2
  <2>3. {<<>>} \subseteq Seq(Nat)
    OBVIOUS
  <2> QED BY <2>1, <2>2, <2>3
<1>4. ASSUME NEW n \in Nat, n \in T PROVE n + 1 \in T
  <2> SUFFICES ASSUME n + 1 <= L
               PROVE  /\ f[n + 1] \subseteq Seq(Nat) /\ IsFiniteSet(f[n + 1])
                      /\ Cardinality(f[n + 1]) = g[n + 1]
    OBVIOUS
  <2>1. /\ f[n + 1] = Extended(f[n], lengths[n + 1]) /\ lengths[n + 1] \in Nat
        /\ g[n + 1] = lengths[n + 1] * g[n]
    <3>1. n + 1 \in 1..L /\ n + 1 - 1 = n
      OBVIOUS
    <3> QED BY <1>1, <1>2, <3>1
  <2>2. f[n] \subseteq Seq(Nat) /\ IsFiniteSet(f[n]) /\ Cardinality(f[n]) = g[n]
    BY <1>4
  <2>3. f[n + 1] \subseteq Seq(Nat)
    <3> SUFFICES ASSUME NEW y \in f[n + 1] PROVE y \in Seq(Nat)
      OBVIOUS
    <3>1. PICK x \in f[n], i \in 0..lengths[n + 1] - 1: y = Append(x, i)
      BY <2>1 DEF Extended
    <3> QED BY <2>2, <3>1
  <2> QED BY <2>1, <2>2, <2>3, ExtendedCount
<1>5. Nat \subseteq T
  <2> HIDE DEF T
  <2> QED BY <1>3, <1>4, NaturalsIn
<1>6. L \in T
  BY <1>5
<1> QED BY <1>1, <1>2, <1>6

-----------------------------------------------------------------------------
\* The product of the lengths, taken from the first.
LEMMA ProductHead ==
  ASSUME NEW s \in Seq(Nat), Len(s) # 0
  PROVE  ElementsFromLengths(s) = s[1] * ElementsFromLengths(SubSeq(s, 2, Len(s)))
<1> DEFINE L == Len(s)
           t == SubSeq(s, 2, L)
<1>1. /\ L \in Nat /\ L >= 1 /\ t \in Seq(Nat) /\ Len(t) = L - 1
      /\ \A n \in 1..L - 1: t[n] = s[n + 1]
      /\ \A n \in 1..L: s[n] \in Nat
  <2>1. L \in Nat /\ L >= 1
    OBVIOUS
  <2>2. t \in Seq(Nat) /\ Len(t) = L - 1
    <3>1. \A i \in 1..L: SubSeq(s, i + 1, L) \in Seq(Nat) /\ Len(SubSeq(s, i + 1, L)) = L - i
      OBVIOUS
    <3>2. 1 \in 1..L /\ 1 + 1 = 2
      BY <2>1
    <3> QED BY <3>1, <3>2
  <2>3. \A n \in 1..L - 1: t[n] = s[n + 1]
    BY <2>1
  <2>4. \A n \in 1..L: s[n] \in Nat
    OBVIOUS
  <2> QED BY <2>1, <2>2, <2>3, <2>4
<1>2. PICK f \in [0..L -> Nat]: /\ f[0] = 1
                                /\ \A n \in 1..L: f[n] = s[n] * f[n - 1]
                                /\ ElementsFromLengths(s) = f[L]
  BY Products
<1> HIDE DEF t
<1>3. PICK g \in [0..L - 1 -> Nat]: /\ g[0] = 1
                                    /\ \A n \in 1..L - 1: g[n] = t[n] * g[n - 1]
                                    /\ ElementsFromLengths(t) = g[L - 1]
  BY <1>1, Products
<1> HIDE DEF L
<1> DEFINE T == {n \in Nat: n <= L - 1 => f[n + 1] = s[1] * g[n]}
<1>4. 0 \in T
  <2>1. f[1] = s[1] * f[0]
    BY <1>1, <1>2
  <2> QED BY <1>2, <1>3, <2>1
<1>5. \A a, b, d \in Nat: a * (b * d) = b * (a * d)
  OBVIOUS
<1>6. ASSUME NEW n \in Nat, n \in T PROVE n + 1 \in T
  <2> SUFFICES ASSUME n + 1 <= L - 1 PROVE f[n + 2] = s[1] * g[n + 1]
    OBVIOUS
  <2>1. /\ n + 2 \in 1..L /\ n + 2 - 1 = n + 1 /\ n + 1 \in 1..L - 1 /\ n + 1 - 1 = n
        /\ n + 1 + 1 = n + 2 /\ 1 \in 1..L /\ n \in 0..L - 1
    BY <1>1
  <2>2. f[n + 2] = s[n + 2] * f[n + 1]
    BY <1>2, <2>1
  <2>3. g[n + 1] = s[n + 2] * g[n]
    <3>1. g[n + 1] = t[n + 1] * g[n + 1 - 1]
      BY <1>3, <2>1
    <3>2. t[n + 1] = s[n + 1 + 1]
      BY <1>1, <2>1
    <3> QED BY <2>1, <3>1, <3>2
  <2>4. f[n + 1] = s[1] * g[n]
    BY <1>1, <1>6
  <2>5. s[n + 2] \in Nat /\ s[1] \in Nat /\ g[n] \in Nat
    BY <1>1, <1>3, <2>1
  <2>6. s[n + 2] * (s[1] * g[n]) = s[1] * (s[n + 2] * g[n])
    BY <1>5, <2>5
  <2>7. f[n + 2] = s[n + 2] * (s[1] * g[n])
    BY <2>2, <2>4
  <2> QED BY <2>3, <2>6, <2>7
<1>7. Nat \subseteq T
  <2> HIDE DEF T
  <2> QED BY <1>4, <1>6, NaturalsIn
<1>8. L - 1 \in T /\ L - 1 + 1 = L
  BY <1>1, <1>7
<1> QED BY <1>1, <1>2, <1>3, <1>8 DEF t, L

\* S[i] elements share the coordinates of the first i modes.
PackedBy(S, lengths, L) ==
  /\ S \in [0..L -> Nat] /\ S[L] = 1 /\ S[0] = ElementsFromLengths(lengths)
  /\ \A i \in 1..L: S[i - 1] = lengths[i] * S[i]
  /\ \A i \in 1..L: StridesFromLengths(lengths, FALSE)[i] = S[i]

LEMMA PackedStride ==
  ASSUME NEW lengths \in Seq(Nat)
  PROVE  \E S: PackedBy(S, lengths, Len(lengths))
<1> DEFINE L == Len(lengths)
           rest(i) == SubSeq(lengths, i + 1, L)
           S == [i \in 0..L |-> ElementsFromLengths(rest(i))]
<1>1. L \in Nat /\ DOMAIN lengths = 1..L
  OBVIOUS
<1>2. \A i \in 0..L: rest(i) \in Seq(Nat) /\ Len(rest(i)) = L - i
  OBVIOUS
<1>3. \A i \in 1..L: rest(i - 1)[1] = lengths[i] /\ SubSeq(rest(i - 1), 2, Len(rest(i - 1))) = rest(i)
  <2> SUFFICES ASSUME NEW i \in 1..L
               PROVE  /\ rest(i - 1)[1] = lengths[i]
                      /\ SubSeq(rest(i - 1), 2, Len(rest(i - 1))) = rest(i)
    OBVIOUS
  <2>1. rest(i - 1) \in Seq(Nat) /\ Len(rest(i - 1)) = L - i + 1
    OBVIOUS
  <2>2. \A j \in 1..L - i + 1: rest(i - 1)[j] = lengths[i - 1 + j]
    OBVIOUS
  <2>3. /\ rest(i) \in Seq(Nat) /\ Len(rest(i)) = L - i
        /\ \A j \in 1..L - i: rest(i)[j] = lengths[i + j]
    OBVIOUS
  <2> DEFINE u == SubSeq(rest(i - 1), 2, Len(rest(i - 1)))
  <2> HIDE DEF rest, L
  <2>4. L \in Nat /\ i \in 1..L
    BY <1>1
  <2>5. /\ u \in Seq(Nat) /\ Len(u) = L - i
        /\ \A j \in 1..L - i: u[j] = rest(i - 1)[j + 1]
    BY <2>1, <2>4
  <2>6. \A j \in 1..L - i: u[j] = rest(i)[j]
    <3>1. \A j \in 1..L - i: j + 1 \in 1..L - i + 1 /\ i - 1 + (j + 1) = i + j
      BY <2>4
    <3> QED BY <2>2, <2>3, <2>5, <3>1
  <2> HIDE DEF u
  <2>7. u = rest(i)
    BY <2>3, <2>5, <2>6
  <2>8. rest(i - 1)[1] = lengths[i]
    BY <2>2, <2>4
  <2> QED BY <2>7, <2>8 DEF u
<1> HIDE DEF rest
<1>4. \A i \in 0..L: S[i] \in Nat
  <2> SUFFICES ASSUME NEW i \in 0..L PROVE S[i] \in Nat
    OBVIOUS
  <2> DEFINE r == rest(i)
  <2>1. r \in Seq(Nat) /\ S[i] = ElementsFromLengths(r)
    BY <1>2
  <2> HIDE DEF r, S
  <2>2. PICK f \in [0..Len(r) -> Nat]: ElementsFromLengths(r) = f[Len(r)]
    BY <2>1, Products
  <2>3. Len(r) \in 0..Len(r)
    BY <2>1
  <2> QED BY <2>1, <2>2, <2>3
<1>5. S[L] = 1
  <2>1. rest(L) = <<>>
    <3>1. \A u \in Seq(Nat): Len(u) = 0 => u = <<>>
      OBVIOUS
    <3>2. L \in 0..L /\ L - L = 0
      BY <1>1
    <3> QED BY <1>2, <3>1, <3>2
  <2>2. S[L] = ElementsFromLengths(rest(L))
    BY <1>1
  <2> QED BY <2>1, <2>2, NoLengths
<1>6. S[0] = ElementsFromLengths(lengths)
  <2>1. rest(0) = lengths
    BY <1>1 DEF rest
  <2> QED BY <1>1, <2>1
<1>7. ASSUME NEW i \in 1..L PROVE S[i - 1] = lengths[i] * S[i]
  <2>1. i \in 0..L /\ i - 1 \in 0..L /\ L - (i - 1) # 0
    BY <1>1
  <2>2. rest(i - 1) \in Seq(Nat) /\ Len(rest(i - 1)) # 0
    BY <1>2, <2>1
  <2>3. ElementsFromLengths(rest(i - 1)) = lengths[i] * ElementsFromLengths(rest(i))
    BY <1>3, <2>2, ProductHead
  <2>4. S[i] = ElementsFromLengths(rest(i)) /\ S[i - 1] = ElementsFromLengths(rest(i - 1))
    BY <2>1
  <2> QED BY <2>3, <2>4
<1>8. \A i \in 1..L: StridesFromLengths(lengths, FALSE)[i] = S[i]
  <2>1. \A i \in 1..L: i \in 0..L
    BY <1>1
  <2> QED BY <1>1, <2>1 DEF StridesFromLengths, rest
<1>9. S \in [0..L -> Nat]
  BY <1>4
<1> HIDE DEF S
<1>10. PackedBy(S, lengths, L)
  BY <1>5, <1>6, <1>7, <1>8, <1>9 DEF PackedBy
<1> QED BY <1>10

\* What the modes after the n-th add is less than S[n].
LEMMA PackedSum ==
  ASSUME NEW lengths \in Seq(Nat), NEW L \in Nat, Len(lengths) = L,
         NEW S, PackedBy(S, lengths, L), NEW x \in Coordinates(lengths),
         NEW f, NEW g, \A n \in 1..L: g[n] = x[n] * S[n], SumsUpTo(f, g, L), NEW k \in 0..L
  PROVE  f[k] <= f[L] /\ f[L] < f[k] + S[k]
<1>1. /\ \A n \in 1..L: x[n] \in Nat /\ lengths[n] \in Nat /\ x[n] < lengths[n]
      /\ \A n \in 0..L: S[n] \in Nat /\ f[n] \in Int
  <2>1. x \in Seq(Nat) /\ Len(x) = L /\ \A n \in 1..L: x[n] < lengths[n]
    BY CoordinatesTyped
  <2>2. \A n \in 0..L: S[n] \in Nat
    BY DEF PackedBy
  <2>3. \A n \in 0..L: f[n] \in Int
    BY DEF SumsUpTo
  <2>4. \A n \in 1..L: x[n] \in Nat /\ lengths[n] \in Nat
    BY <2>1
  <2> QED BY <2>1, <2>2, <2>3, <2>4
<1> DEFINE T == {m \in Nat: m <= L => f[L - m] <= f[L] /\ f[L] < f[L - m] + S[L - m]}
<1>2. 0 \in T
  <2>1. L - 0 = L /\ L \in 0..L /\ S[L] = 1
    BY DEF PackedBy
  <2>2. f[L] \in Int
    BY <1>1, <2>1
  <2> QED BY <2>1, <2>2
<1>3. ASSUME NEW a \in Nat, NEW b \in Nat, NEW d \in Nat, a < b
      PROVE  a * d \in Nat /\ a * d + d <= b * d
  <2>1. \A v, w \in Nat: v * w = w * v
    OBVIOUS
  <2>2. d * a \in Nat /\ d * a + d <= d * b
    BY <1>3, Multiples
  <2> QED BY <2>1, <2>2
<1>4. ASSUME NEW m \in Nat, m \in T PROVE m + 1 \in T
  <2> SUFFICES ASSUME m + 1 <= L
               PROVE  f[L - (m + 1)] <= f[L] /\ f[L] < f[L - (m + 1)] + S[L - (m + 1)]
    OBVIOUS
  <2> DEFINE n == L - m
  <2>1. n \in 1..L /\ n \in 0..L /\ n - 1 \in 0..L /\ L - (m + 1) = n - 1
    OBVIOUS
  <2>2. f[n] <= f[L] /\ f[L] < f[n] + S[n]
    BY <1>4
  <2> HIDE DEF n
  <2>3. f[n] = x[n] * S[n] + f[n - 1] /\ S[n - 1] = lengths[n] * S[n]
    BY <2>1 DEF SumsUpTo, PackedBy
  <2>4. x[n] * S[n] \in Nat /\ x[n] * S[n] + S[n] <= lengths[n] * S[n]
    BY <1>1, <1>3, <2>1
  <2>5. f[n - 1] \in Int /\ f[n] \in Int /\ f[L] \in Int /\ S[n] \in Nat /\ S[n - 1] \in Nat
    BY <1>1, <2>1
  <2>6. f[n - 1] <= f[L] /\ f[L] < f[n - 1] + S[n - 1]
    BY <2>2, <2>3, <2>4, <2>5
  <2> QED BY <2>1, <2>6
<1>5. Nat \subseteq T
  <2> HIDE DEF T
  <2> QED BY <1>2, <1>4, NaturalsIn
<1>6. L - k \in Nat /\ L - (L - k) = k /\ L - k <= L
  OBVIOUS
<1>7. L - k \in T
  BY <1>5, <1>6
<1> QED BY <1>6, <1>7

\* In a packed tensor with the last mode contiguous every element has an offset
\* of its own, below the number of elements.
LEMMA PackedOffsets ==
  ASSUME NEW lengths \in Seq(Nat)
  PROVE  /\ \A x \in Coordinates(lengths):
              /\ OffsetOf(x, StridesFromLengths(lengths, FALSE)) \in Nat
              /\ OffsetOf(x, StridesFromLengths(lengths, FALSE)) < ElementsFromLengths(lengths)
         /\ \A x, y \in Coordinates(lengths):
              OffsetOf(x, StridesFromLengths(lengths, FALSE))
                = OffsetOf(y, StridesFromLengths(lengths, FALSE)) => x = y
<1> DEFINE L == Len(lengths)
           strides == StridesFromLengths(lengths, FALSE)
           C == Coordinates(lengths)
<1>1. PICK S: PackedBy(S, lengths, L)
  BY PackedStride
<1>2. L \in Nat /\ Len(strides) = L
  BY DEF StridesFromLengths
<1>3. \A i \in 1..L: strides[i] = S[i] /\ S[i] \in Nat
  <2>1. S \in [0..L -> Nat] /\ \A i \in 1..L: strides[i] = S[i]
    BY <1>1 DEF PackedBy
  <2>2. \A i \in 1..L: i \in 0..L
    BY <1>2
  <2> HIDE DEF L, strides
  <2> QED BY <2>1, <2>2
<1>4. \A x \in C: x \in Seq(Nat) /\ Len(x) = L
  BY CoordinatesTyped
<1> DEFINE g(x) == [n \in 1..L |-> x[n] * S[n]]
<1> HIDE DEF L, strides, C
<1>5. ASSUME NEW x \in C PROVE Terms(g(x), L) /\ \A n \in 1..L: g(x)[n] = x[n] * S[n]
  <2>1. \A n \in 1..L: x[n] \in Nat /\ S[n] \in Nat
    BY <1>3, <1>4
  <2>2. \A a, b \in Nat: a * b \in Int
    OBVIOUS
  <2> QED BY <2>1, <2>2 DEF Terms
<1> HIDE DEF g
<1>6. ASSUME NEW x \in C PROVE \E f: SumsUpTo(f, g(x), L) /\ OffsetOf(x, strides) = f[L]
  <2>1. \A n \in 1..L: g(x)[n] = x[n] * strides[n]
    BY <1>3, <1>5
  <2> QED BY <1>2, <1>5, <2>1, OffsetIsSum
<1>7. ASSUME NEW x \in C, NEW f, SumsUpTo(f, g(x), L), NEW k \in 0..L
      PROVE  f[k] <= f[L] /\ f[L] < f[k] + S[k]
  <2>1. Len(lengths) = L
    BY DEF L
  <2>2. x \in Coordinates(lengths) /\ \A n \in 1..L: g(x)[n] = x[n] * S[n]
    BY <1>5 DEF C
  <2> QED BY <1>1, <1>2, <1>7, <2>1, <2>2, PackedSum
<1>8. ASSUME NEW x \in C
      PROVE  OffsetOf(x, strides) \in Nat /\ OffsetOf(x, strides) < ElementsFromLengths(lengths)
  <2>1. PICK f: SumsUpTo(f, g(x), L) /\ OffsetOf(x, strides) = f[L]
    BY <1>6
  <2>2. 0 \in 0..L
    BY <1>2
  <2>3. f[0] <= f[L] /\ f[L] < f[0] + S[0]
    BY <1>7, <2>1, <2>2
  <2>4. /\ f[0] = 0 /\ f[L] \in Int
        /\ S[0] = ElementsFromLengths(lengths) /\ S[0] \in Nat
    BY <1>1, <1>2, <2>1, <2>2 DEF SumsUpTo, PackedBy
  <2> QED BY <2>1, <2>3, <2>4
<1>9. ASSUME NEW x \in C, NEW y \in C, NEW f, NEW e, SumsUpTo(f, g(x), L), SumsUpTo(e, g(y), L),
             NEW k \in 1..L, f[k - 1] = e[k - 1], x[k] < y[k]
      PROVE  f[L] < e[L]
  <2>1. k \in 0..L /\ k - 1 \in 0..L
    BY <1>2
  <2>2. f[L] < f[k] + S[k] /\ e[k] <= e[L]
    BY <1>7, <1>9, <2>1
  <2>3. f[k] = x[k] * S[k] + f[k - 1] /\ e[k] = y[k] * S[k] + f[k - 1]
    BY <1>5, <1>9 DEF SumsUpTo
  <2>4. x[k] \in Nat /\ y[k] \in Nat /\ S[k] \in Nat
    BY <1>3, <1>4
  <2>5. f[k - 1] \in Int /\ f[k] \in Int /\ e[k] \in Int /\ f[L] \in Int /\ e[L] \in Int
    BY <1>2, <1>9, <2>1 DEF SumsUpTo
  <2>6. x[k] * S[k] \in Nat /\ y[k] * S[k] \in Nat /\ x[k] * S[k] + S[k] <= y[k] * S[k]
    <3>1. \A v, w \in Nat: v * w = w * v /\ v * w \in Nat
      OBVIOUS
    <3>2. S[k] * x[k] + S[k] <= S[k] * y[k]
      BY <1>9, <2>4, Multiples
    <3> QED BY <2>4, <3>1, <3>2
  <2> DEFINE a == x[k] * S[k]
             b == y[k] * S[k]
  <2>7. /\ f[k] = a + f[k - 1] /\ e[k] = b + f[k - 1]
        /\ a \in Nat /\ b \in Nat /\ a + S[k] <= b
    BY <2>3, <2>6
  <2> HIDE DEF a, b
  <2>8. f[k] + S[k] <= e[k]
    BY <2>4, <2>5, <2>7
  <2> QED BY <2>2, <2>4, <2>5, <2>8
<1>10. ASSUME NEW x \in C, NEW y \in C, OffsetOf(x, strides) = OffsetOf(y, strides) PROVE x = y
  <2>1. PICK f: SumsUpTo(f, g(x), L) /\ OffsetOf(x, strides) = f[L]
    BY <1>6
  <2>2. PICK e: SumsUpTo(e, g(y), L) /\ OffsetOf(y, strides) = e[L]
    BY <1>6
  <2>3. f[L] = e[L] /\ f[L] \in Int
    <3>1. L \in 0..L /\ f \in [0..L -> Int]
      BY <1>2, <2>1 DEF SumsUpTo
    <3> QED BY <1>10, <2>1, <2>2, <3>1
  <2> DEFINE T == {n \in Nat: n <= L => f[n] = e[n] /\ \A i \in 1..n: x[i] = y[i]}
  <2>4. 0 \in T
    BY <2>1, <2>2 DEF SumsUpTo
  <2>5. ASSUME NEW n \in Nat, n \in T PROVE n + 1 \in T
    <3> SUFFICES ASSUME n + 1 <= L
                 PROVE  f[n + 1] = e[n + 1] /\ \A i \in 1..n + 1: x[i] = y[i]
      OBVIOUS
    <3>1. f[n] = e[n] /\ \A i \in 1..n: x[i] = y[i]
      BY <1>2, <2>5
    <3>2. n + 1 \in 1..L /\ n + 1 - 1 = n
      BY <1>2
    <3>3. x[n + 1] \in Nat /\ y[n + 1] \in Nat
      BY <1>4, <3>2
    <3>4. ~ (x[n + 1] < y[n + 1])
      <4>1. x[n + 1] < y[n + 1] => f[L] < e[L]
        BY <1>9, <2>1, <2>2, <3>1, <3>2
      <4> QED BY <2>3, <4>1
    <3>5. ~ (y[n + 1] < x[n + 1])
      <4>1. y[n + 1] < x[n + 1] => e[L] < f[L]
        BY <1>9, <2>1, <2>2, <3>1, <3>2
      <4> QED BY <2>3, <4>1
    <3>6. x[n + 1] = y[n + 1]
      BY <3>3, <3>4, <3>5
    <3>7. f[n + 1] = x[n + 1] * S[n + 1] + f[n] /\ e[n + 1] = y[n + 1] * S[n + 1] + e[n]
      BY <1>5, <2>1, <2>2, <3>2 DEF SumsUpTo
    <3>8. \A i \in 1..n + 1: i \in 1..n \/ i = n + 1
      OBVIOUS
    <3> QED BY <3>1, <3>6, <3>7, <3>8
  <2>6. Nat \subseteq T
    <3> HIDE DEF T
    <3> QED BY <2>4, <2>5, NaturalsIn
  <2>7. \A i \in 1..L: x[i] = y[i]
    BY <1>2, <2>6
  <2>8. x \in Seq(Nat) /\ Len(x) = L /\ y \in Seq(Nat) /\ Len(y) = L
    BY <1>4
  <2> QED BY <2>7, <2>8
<1> QED BY <1>8, <1>10 DEF strides, C
=============================================================================

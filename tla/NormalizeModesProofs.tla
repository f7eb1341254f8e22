------------------------- MODULE NormalizeModesProofs -------------------------
(***************************************************************************)
(* Proofs about NormalizeModes.tla: for tensors of any ranks, lengths, strides *)
(* and order of the modes, the loops over the normalised tensors multiply and *)
(* add what the program asked for.                                           *)
(***************************************************************************)
EXTENDS NormalizeModes, TensorLayoutProofs

\* What WellFormed asks of one tensor.
Tensor(T) ==
  /\ T \in Seq(Dimensions) /\ NoMode \notin Modes(T)
  /\ \A i, j \in DOMAIN T: T[i].mode = T[j].mode => i = j

-----------------------------------------------------------------------------
\* std::find finds the dimension of a mode.
LEMMA DimFound ==
  ASSUME NEW T, Tensor(T), NEW i \in DOMAIN T
  PROVE  Dim(T, T[i].mode) = T[i]
<1>1. {j \in DOMAIN T: T[j].mode = T[i].mode} = {i}
  BY DEF Tensor
<1>2. DOMAIN T = 1..Len(T)
  BY DEF Tensor
<1>3. i <= i
  BY <1>2
<1>4. Min({i}) = i
  BY <1>3 DEF Min
<1> QED BY <1>1, <1>4 DEF Dim

LEMMA DimOf ==
  ASSUME NEW T, Tensor(T), NEW m \in Modes(T)
  PROVE  Dim(T, m) \in Dimensions /\ Dim(T, m).mode = m
<1>1. PICK i \in DOMAIN T: T[i].mode = m
  BY DEF Modes
<1>2. Dim(T, m) = T[i]
  BY <1>1, DimFound
<1>3. T[i] \in Dimensions
  BY DEF Tensor
<1> QED BY <1>1, <1>2, <1>3

\* k is what Keep has of the first n dimensions.
Kept(k, dims, modes, n) ==
  /\ Tensor(k)
  /\ \A i \in DOMAIN k: k[i].mode \in modes /\ \E j \in 1..n: k[i] = dims[j]
  /\ \A j \in 1..n: dims[j].mode \in modes => \E i \in DOMAIN k: k[i] = dims[j]

LEMMA KeepOneMore ==
  ASSUME NEW dims, Tensor(dims), NEW modes, NEW n \in Nat, n + 1 \in DOMAIN dims,
         NEW k, Kept(k, dims, modes, n)
  PROVE  Kept(IF dims[n + 1].mode \in modes THEN Append(k, dims[n + 1]) ELSE k, dims, modes, n + 1)
<1>1. /\ dims \in Seq(Dimensions) /\ DOMAIN dims = 1..Len(dims) /\ Len(dims) \in Nat
      /\ dims[n + 1] \in Dimensions /\ dims[n + 1].mode # NoMode
  BY DEF Tensor, Modes
<1>2. \A j \in 1..n + 1: j \in 1..n \/ j = n + 1
  OBVIOUS
<1>3. CASE dims[n + 1].mode \notin modes
  BY <1>2, <1>3 DEF Kept
<1>4. CASE dims[n + 1].mode \in modes
  <2> DEFINE d == dims[n + 1]
             e == Append(k, d)
             L == Len(k)
  <2>1. k \in Seq(Dimensions) /\ L \in Nat /\ DOMAIN k = 1..L /\ NoMode \notin Modes(k)
    BY DEF Kept, Tensor
  <2>2. /\ e \in Seq(Dimensions) /\ DOMAIN e = 1..L + 1
        /\ e[L + 1] = d /\ \A i \in 1..L: e[i] = k[i]
    BY <1>1, <2>1
  <2>3. \A i \in 1..L + 1: i \in 1..L \/ i = L + 1
    BY <2>1
  <2>4. \A i \in 1..L: k[i].mode # d.mode
    <3> SUFFICES ASSUME NEW i \in 1..L PROVE k[i].mode # d.mode
      OBVIOUS
    <3>1. PICK j \in 1..n: k[i] = dims[j]
      BY <2>1 DEF Kept
    <3>2. j \in DOMAIN dims /\ j # n + 1
      BY <1>1
    <3> QED BY <3>1, <3>2 DEF Tensor
  <2> HIDE DEF d, e, L
  <2>5. Tensor(e)
    <3>1. NoMode \notin Modes(e)
      BY <1>1, <2>1, <2>2, <2>3 DEF Modes, d
    <3>2. \A i, j \in 1..L: k[i].mode = k[j].mode => i = j
      BY <2>1 DEF Kept, Tensor
    <3>3. \A i, j \in 1..L + 1: e[i].mode = e[j].mode => i = j
      BY <2>2, <2>3, <2>4, <3>2
    <3> QED BY <2>2, <3>1, <3>3 DEF Tensor
  <2>6. ASSUME NEW i \in DOMAIN e PROVE e[i].mode \in modes /\ \E j \in 1..n + 1: e[i] = dims[j]
    <3>1. CASE i = L + 1
      BY <1>1, <1>4, <2>2, <3>1 DEF d
    <3>2. CASE i \in 1..L
      <4>1. e[i] = k[i] /\ k[i].mode \in modes /\ \E j \in 1..n: k[i] = dims[j]
        BY <2>1, <2>2, <3>2 DEF Kept
      <4> QED BY <4>1
    <3> QED BY <2>2, <2>3, <3>1, <3>2
  <2>7. ASSUME NEW j \in 1..n + 1, dims[j].mode \in modes PROVE \E i \in DOMAIN e: e[i] = dims[j]
    <3>1. CASE j = n + 1
      <4>1. L + 1 \in DOMAIN e
        BY <2>1, <2>2
      <4> QED BY <2>2, <3>1, <4>1 DEF d
    <3>2. CASE j \in 1..n
      <4>1. PICK i \in 1..L: k[i] = dims[j]
        BY <2>1, <2>7, <3>2 DEF Kept
      <4>2. i \in DOMAIN e
        BY <2>1, <2>2
      <4> QED BY <2>2, <4>1, <4>2
    <3> QED BY <1>2, <3>1, <3>2
  <2> QED BY <1>4, <2>5, <2>6, <2>7 DEF Kept, e, d
<1> QED BY <1>3, <1>4

\* Keep has the dimensions of the modes asked for, each once.
LEMMA KeepKeeps ==
  ASSUME NEW dims, Tensor(dims), NEW modes
  PROVE  Kept(Keep(dims, modes), dims, modes, Len(dims))
<1> DEFINE L == Len(dims)
           V == Seq(Dimensions)
           Next1(n, s) == IF dims[n].mode \in modes THEN Append(s, dims[n]) ELSE s
           Rec(f) == f = [n \in 0..L |->
                            IF n = 0 THEN <<>>
                            ELSE IF dims[n].mode \in modes THEN Append(f[n - 1], dims[n])
                                                           ELSE f[n - 1]]
           Step == [q \in Nat \X V |-> IF q[1] \in 1..L THEN Next1(q[1], q[2]) ELSE q[2]]
<1>1. dims \in V /\ L \in Nat /\ DOMAIN dims = 1..L /\ <<>> \in V
  BY DEF Tensor
<1>2. StepOver(Step, V)
  <2>1. ASSUME NEW q \in Nat \X V PROVE Step[q] \in V
    <3>1. q[2] \in V /\ (q[1] \in 1..L => dims[q[1]] \in Dimensions)
      BY <1>1
    <3> QED BY <3>1
  <2>2. Step = [q \in Nat \X V |-> Step[q]]
    OBVIOUS
  <2> HIDE DEF Step, V
  <2> QED BY <2>1, <2>2 DEF StepOver
<1>3. \A n \in 1..L, s \in V: Step[<<n, s>>] = Next1(n, s)
  OBVIOUS
<1> HIDE DEF Step
<1>4. PICK f: FoldsUpTo(f, L, <<>>, Step, V)
  <2> HIDE DEF V
  <2> QED BY <1>1, <1>2, RecursiveFunction
<1>5. f \in [0..L -> V] /\ f[0] = <<>> /\ \A n \in 1..L: f[n] = Next1(n, f[n - 1])
  <2>1. f \in [0..L -> V] /\ f[0] = <<>> /\ \A n \in 1..L: f[n] = Step[<<n, f[n - 1]>>]
    BY <1>4 DEF FoldsUpTo
  <2>2. \A n \in 1..L: f[n - 1] \in V
    BY <1>1, <2>1
  <2> HIDE DEF V, Next1
  <2> QED BY <1>3, <2>1, <2>2
<1>6. Rec(f)
  <2>1. \A n \in 0..L: f[n] = IF n = 0 THEN <<>>
                              ELSE IF dims[n].mode \in modes THEN Append(f[n - 1], dims[n])
                                                             ELSE f[n - 1]
    <3>1. \A n \in 0..L: n # 0 => n \in 1..L
      BY <1>1
    <3>2. f[0] = <<>> /\ \A n \in 1..L: f[n] = Next1(n, f[n - 1])
      BY <1>5
    <3> HIDE DEF L, V
    <3> QED BY <3>1, <3>2
  <2> HIDE DEF V, L
  <2> QED BY <1>5, <2>1
<1> DEFINE kept == CHOOSE g: Rec(g)
<1>7. Rec(kept)
  <2> HIDE DEF Rec
  <2> QED BY <1>6
<1>8. Keep(dims, modes) = kept[L]
  BY DEF Keep
<1> HIDE DEF kept
<1>9. kept[0] = <<>> /\ \A n \in 1..L: kept[n] = Next1(n, kept[n - 1])
  <2>1. 0 \in 0..L /\ \A n \in 1..L: n \in 0..L /\ n # 0
    BY <1>1
  <2> QED BY <1>7, <2>1
<1> DEFINE P == {n \in Nat: n <= L => Kept(kept[n], dims, modes, n)}
<1>10. 0 \in P
  <2>1. Tensor(<<>>)
    BY DEF Tensor, Modes
  <2>2. Kept(<<>>, dims, modes, 0)
    BY <2>1 DEF Kept
  <2> QED BY <1>9, <2>2
<1>11. ASSUME NEW n \in Nat, n \in P PROVE n + 1 \in P
  <2> SUFFICES ASSUME n + 1 <= L PROVE Kept(kept[n + 1], dims, modes, n + 1)
    OBVIOUS
  <2>1. Kept(kept[n], dims, modes, n) /\ n + 1 \in 1..L /\ n + 1 - 1 = n
    BY <1>1, <1>11
  <2>2. kept[n + 1] = IF dims[n + 1].mode \in modes THEN Append(kept[n], dims[n + 1]) ELSE kept[n]
    BY <1>9, <2>1
  <2> HIDE DEF P
  <2> QED BY <1>1, <2>1, <2>2, KeepOneMore
<1>12. Nat \subseteq P
  <2> HIDE DEF P
  <2> QED BY <1>10, <1>11, NaturalsIn
<1>13. L \in P
  BY <1>1, <1>12
<1> QED BY <1>1, <1>8, <1>13

LEMMA ModesCounted ==
  ASSUME NEW T, Tensor(T)
  PROVE  IsFiniteSet(Modes(T)) /\ Cardinality(Modes(T)) = Len(T)
<1> DEFINE L == Len(T)
           mode == [i \in 1..L |-> T[i].mode]
<1>1. L \in Nat /\ DOMAIN T = 1..L
  BY DEF Tensor
<1>2. mode \in Bijection(1..L, Modes(T))
  <2>1. mode \in [1..L -> Modes(T)]
    BY <1>1 DEF Modes
  <2>2. \A i, j \in 1..L: mode[i] = mode[j] => i = j
    BY <1>1 DEF Tensor
  <2>3. \A m \in Modes(T): \E i \in 1..L: mode[i] = m
    BY <1>1 DEF Modes
  <2> HIDE DEF mode, L
  <2> QED BY <2>1, <2>2, <2>3 DEF Bijection, Injection, Surjection, IsInjective
<1> HIDE DEF mode, L
<1>3. IsFiniteSet(1..L) /\ Cardinality(1..L) = L
  <2>1. 1 \in Int /\ L \in Int /\ (IF 1 > L THEN 0 ELSE L - 1 + 1) = L
    BY <1>1
  <2> QED BY <2>1, FS_Interval
<1> QED BY <1>2, <1>3, FS_Bijection DEF ExistsBijection, L

LEMMA KeepModes ==
  ASSUME NEW dims, Tensor(dims), NEW modes
  PROVE  /\ Tensor(Keep(dims, modes))
         /\ Modes(Keep(dims, modes)) = Modes(dims) \cap modes
         /\ Len(Keep(dims, modes)) = Cardinality(Modes(dims) \cap modes)
<1> DEFINE k == Keep(dims, modes)
<1>1. Kept(k, dims, modes, Len(dims))
  BY KeepKeeps
<1> HIDE DEF k
<1>2. DOMAIN dims = 1..Len(dims)
  BY DEF Tensor
<1>3. ASSUME NEW m \in Modes(k) PROVE m \in Modes(dims) \cap modes
  <2>1. PICK i \in DOMAIN k: k[i].mode = m
    BY DEF Modes
  <2>2. PICK j \in 1..Len(dims): k[i] = dims[j]
    BY <1>1 DEF Kept
  <2> QED BY <1>1, <1>2, <2>1, <2>2 DEF Kept, Modes
<1>4. ASSUME NEW m \in Modes(dims) \cap modes PROVE m \in Modes(k)
  <2>1. PICK j \in DOMAIN dims: dims[j].mode = m
    BY DEF Modes
  <2>2. PICK i \in DOMAIN k: k[i] = dims[j]
    BY <1>1, <1>2, <2>1 DEF Kept
  <2> QED BY <2>1, <2>2 DEF Modes
<1>5. Modes(k) = Modes(dims) \cap modes
  BY <1>3, <1>4
<1>6. Tensor(k)
  BY <1>1 DEF Kept
<1>7. Cardinality(Modes(k)) = Len(k)
  BY <1>6, ModesCounted
<1> QED BY <1>5, <1>6, <1>7 DEF k

-----------------------------------------------------------------------------
\* What pads a tensor is of length 1 and names no mode.
Padding(d) == d.mode = NoMode /\ d.len = 1

LEMMA Padded ==
  ASSUME NEW dims \in Seq(Dimensions), Len(dims) # 0, NEW n \in Nat, Len(dims) <= n
  PROVE  /\ Pad(dims, n) \in Seq(Dimensions) /\ Len(Pad(dims, n)) = n
         /\ \A i \in 1..n: IF i <= Len(dims) THEN Pad(dims, n)[i] = dims[i]
                                             ELSE Padding(Pad(dims, n)[i])
<1> DEFINE L == Len(dims)
           pad == [i \in 1..n - L |-> [mode |-> NoMode, len |-> 1, stride |-> dims[L].stride]]
<1>1. L \in Nat /\ L \in 1..L /\ n - L \in Nat
  OBVIOUS
<1>2. dims[L].stride \in Nat
  <2>1. dims[L] \in Dimensions
    BY <1>1
  <2> QED BY <2>1 DEF Dimensions
<1>3. \A i \in 1..n - L: pad[i] \in Dimensions /\ Padding(pad[i])
  BY <1>2 DEF Dimensions, NoMode, Padding
<1>4. pad \in Seq(Dimensions) /\ Len(pad) = n - L
  <2>1. pad = [i \in 1..n - L |-> pad[i]]
    OBVIOUS
  <2> HIDE DEF pad, L
  <2>2. pad \in [1..n - L -> Dimensions]
    BY <1>3, <2>1
  <2> QED BY <1>1, <2>2
<1>5. Pad(dims, n) = dims \o pad
  BY DEF Pad
<1> HIDE DEF pad, L
<1>6. /\ dims \o pad \in Seq(Dimensions) /\ Len(dims \o pad) = L + (n - L)
      /\ \A i \in 1..L + (n - L): (dims \o pad)[i] = IF i <= L THEN dims[i] ELSE pad[i - L]
  BY <1>1, <1>4 DEF L
<1>7. L + (n - L) = n
  BY <1>1
<1>8. \A i \in 1..n: ~ (i <= L) => i - L \in 1..n - L
  BY <1>1
<1> QED BY <1>3, <1>5, <1>6, <1>7, <1>8 DEF L

\* N has T's dimensions for those of first and second, from positions 1 and X + 1.
Laid(N, T, first, second, X, Y) ==
  /\ N \in Seq(Dimensions) /\ Len(N) = X + Y
  /\ \A i \in 1..X: IF i <= Len(first) THEN N[i] = Dim(T, first[i].mode) ELSE Padding(N[i])
  /\ \A i \in 1..Y: IF i <= Len(second) THEN N[X + i] = Dim(T, second[i].mode)
                                        ELSE Padding(N[X + i])

LEMMA OfDims ==
  ASSUME NEW T, Tensor(T), NEW dims \in Seq(Dimensions), Modes(dims) \subseteq Modes(T)
  PROVE  /\ Of(T, dims) \in Seq(Dimensions) /\ Len(Of(T, dims)) = Len(dims)
         /\ \A i \in 1..Len(dims): Of(T, dims)[i] = Dim(T, dims[i].mode)
<1>1. DOMAIN dims = 1..Len(dims) /\ Len(dims) \in Nat
  OBVIOUS
<1>2. \A i \in 1..Len(dims): Dim(T, dims[i].mode) \in Dimensions
  BY <1>1, DimOf DEF Modes
<1>3. Of(T, dims) = [i \in 1..Len(dims) |-> Dim(T, dims[i].mode)]
  BY <1>1 DEF Of
<1>4. Of(T, dims) \in [1..Len(dims) -> Dimensions]
  BY <1>2, <1>3
<1> QED BY <1>1, <1>3, <1>4

LEMMA LaidByPadding ==
  ASSUME NEW T, Tensor(T), NEW first, Tensor(first), NEW second, Tensor(second),
         Modes(first) \subseteq Modes(T), Modes(second) \subseteq Modes(T),
         NEW X \in Nat, NEW Y \in Nat, Len(first) \in 1..X, Len(second) \in 0..Y
  PROVE  Laid(Pad(Pad(Of(T, first), X) \o Of(T, second), X + Y), T, first, second, X, Y)
<1> DEFINE f == Of(T, first)
           s == Of(T, second)
           P == Pad(f, X)
           Q == P \o s
           N == Pad(Q, X + Y)
           F == Len(first)
           S == Len(second)
<1>1. F \in 1..X /\ S \in 0..Y
  OBVIOUS
<1>2. /\ f \in Seq(Dimensions) /\ Len(f) = F /\ \A i \in 1..F: f[i] = Dim(T, first[i].mode)
      /\ s \in Seq(Dimensions) /\ Len(s) = S /\ \A i \in 1..S: s[i] = Dim(T, second[i].mode)
  BY OfDims DEF Tensor
<1> HIDE DEF f, s, F, S
<1>3. /\ P \in Seq(Dimensions) /\ Len(P) = X
      /\ \A i \in 1..X: IF i <= F THEN P[i] = f[i] ELSE Padding(P[i])
  <2>1. Len(f) # 0 /\ Len(f) <= X
    BY <1>1, <1>2
  <2> QED BY <1>2, <2>1, Padded
<1> HIDE DEF P
<1>4. /\ Q \in Seq(Dimensions) /\ Len(Q) = X + S
      /\ \A i \in 1..X: Q[i] = P[i]
      /\ \A i \in 1..S: Q[X + i] = s[i]
  <2>1. P \in Seq(Dimensions) /\ s \in Seq(Dimensions) /\ Len(P) = X /\ Len(s) = S
    BY <1>2, <1>3
  <2> HIDE DEF Q
  <2>2. \A u, v \in Seq(Dimensions): u \o v \in Seq(Dimensions) /\ Len(u \o v) = Len(u) + Len(v)
    OBVIOUS
  <2>3. \A u, v \in Seq(Dimensions): \A i \in 1..Len(u): (u \o v)[i] = u[i]
    OBVIOUS
  <2>4. \A u, v \in Seq(Dimensions): \A i \in 1..Len(v): (u \o v)[Len(u) + i] = v[i]
    OBVIOUS
  <2> QED BY <2>1, <2>2, <2>3, <2>4 DEF Q
<1> HIDE DEF Q
<1>5. /\ N \in Seq(Dimensions) /\ Len(N) = X + Y
      /\ \A i \in 1..X + Y: IF i <= X + S THEN N[i] = Q[i] ELSE Padding(N[i])
  <2>1. Len(Q) # 0 /\ Len(Q) <= X + Y /\ X + Y \in Nat
    BY <1>1, <1>4
  <2> QED BY <1>4, <2>1, Padded
<1> HIDE DEF N
<1>6. ASSUME NEW i \in 1..X
      PROVE  IF i <= F THEN N[i] = Dim(T, first[i].mode) ELSE Padding(N[i])
  <2>1. i \in 1..X + Y /\ i <= X + S
    BY <1>1
  <2>2. N[i] = P[i]
    BY <1>4, <1>5, <2>1
  <2>3. i <= F => i \in 1..F
    BY <1>1
  <2> QED BY <1>2, <1>3, <2>2, <2>3
<1>7. ASSUME NEW i \in 1..Y
      PROVE  IF i <= S THEN N[X + i] = Dim(T, second[i].mode) ELSE Padding(N[X + i])
  <2>1. X + i \in 1..X + Y /\ (X + i <= X + S <=> i <= S) /\ (i <= S => i \in 1..S)
    BY <1>1
  <2> QED BY <1>2, <1>4, <1>5, <2>1
<1>8. Laid(N, T, first, second, X, Y)
  BY <1>5, <1>6, <1>7 DEF Laid, F, S
<1> QED BY <1>8 DEF N, Q, P, f, s

-----------------------------------------------------------------------------
\* A part of a tensor's modes, fewer than the kernels have places for.
Part(dims, modes, low, high) ==
  Tensor(dims) /\ Modes(dims) = modes /\ Len(dims) \in low..high

LEMMA Parts ==
  ASSUME NEW p, WellFormed(p)
  PROVE  /\ Tensor(p.a) /\ Tensor(p.b) /\ Tensor(p.e)
         /\ Part(ModesM(p), Modes(p.a) \cap Modes(p.e), 1, MaxM)
         /\ Part(ModesN(p), Modes(p.b) \cap Modes(p.e), 1, MaxN)
         /\ Part(ModesK(p), Modes(p.a) \cap Modes(p.b), 0, MaxK)
<1>1. Tensor(p.a) /\ Tensor(p.b) /\ Tensor(p.e)
  BY DEF WellFormed, Tensor
<1>2. /\ Modes(p.e) \cap Modes(p.a) = Modes(p.a) \cap Modes(p.e)
      /\ Modes(p.e) \cap (Modes(p.e) \ Modes(p.a)) = Modes(p.b) \cap Modes(p.e)
  BY DEF WellFormed
<1>3. /\ Cardinality(Modes(p.a) \cap Modes(p.e)) \in 1..MaxM
      /\ Cardinality(Modes(p.b) \cap Modes(p.e)) \in 1..MaxN
      /\ Cardinality(Modes(p.a) \cap Modes(p.b)) \in 0..MaxK
  BY DEF WellFormed
<1>4. Part(ModesM(p), Modes(p.a) \cap Modes(p.e), 1, MaxM)
  BY <1>1, <1>2, <1>3, KeepModes DEF ModesM, Part
<1>5. Part(ModesN(p), Modes(p.b) \cap Modes(p.e), 1, MaxN)
  BY <1>1, <1>2, <1>3, KeepModes DEF ModesN, Part
<1>6. Part(ModesK(p), Modes(p.a) \cap Modes(p.b), 0, MaxK)
  BY <1>1, <1>3, KeepModes DEF ModesK, Part
<1> QED BY <1>1, <1>4, <1>5, <1>6

LEMMA OfItself ==
  ASSUME NEW T, Tensor(T), NEW modes
  PROVE  Of(T, Keep(T, modes)) = Keep(T, modes)
<1> DEFINE k == Keep(T, modes)
<1>1. Kept(k, T, modes, Len(T)) /\ DOMAIN T = 1..Len(T)
  BY KeepKeeps DEF Tensor
<1> HIDE DEF k
<1>2. ASSUME NEW i \in DOMAIN k PROVE Dim(T, k[i].mode) = k[i]
  <2>1. PICK j \in DOMAIN T: k[i] = T[j]
    BY <1>1 DEF Kept
  <2> QED BY <2>1, DimFound
<1>3. k \in Seq(Dimensions)
  BY <1>1 DEF Kept, Tensor
<1>4. k = [i \in DOMAIN k |-> k[i]]
  BY <1>3
<1> QED BY <1>2, <1>4 DEF Of, k

LEMMA NormalALaid ==
  ASSUME NEW p, WellFormed(p)
  PROVE  Laid(NormalA(p), p.a, ModesM(p), ModesK(p), MaxM, MaxK)
<1>1. ModesK(p) = Of(p.a, ModesK(p))
  BY Parts, OfItself DEF ModesK
<1>2. NormalA(p) = Pad(Pad(Of(p.a, ModesM(p)), MaxM) \o Of(p.a, ModesK(p)), MaxM + MaxK)
  BY <1>1 DEF NormalA
<1>3. MaxM \in Nat /\ MaxK \in Nat
  BY BoundsAssumption
<1> QED BY <1>2, <1>3, Parts, LaidByPadding DEF Part

LEMMA NormalBLaid ==
  ASSUME NEW p, WellFormed(p)
  PROVE  Laid(NormalB(p), p.b, ModesN(p), ModesK(p), MaxN, MaxK)
<1>1. MaxN \in Nat /\ MaxK \in Nat
  BY BoundsAssumption
<1> QED BY <1>1, Parts, LaidByPadding DEF Part, NormalB

-----------------------------------------------------------------------------
\* dim follows modes: T's dimension of the mode, or padding.
Follows(dim, modes, T, L) ==
  dim = [i \in 1..L |-> IF modes[i].mode \in Modes(T)
                        THEN Dim(T, modes[i].mode)
                        ELSE [mode |-> NoMode, len |-> 1, stride |-> dim[i - 1].stride]]

LEMMA FollowsTyped ==
  ASSUME NEW T, Tensor(T), NEW L \in Nat, L # 0, NEW modes, modes[1].mode \in Modes(T),
         NEW dim, Follows(dim, modes, T, L)
  PROVE  /\ dim \in Seq(Dimensions) /\ Len(dim) = L
         /\ \A i \in 1..L: IF modes[i].mode \in Modes(T) THEN dim[i] = Dim(T, modes[i].mode)
                                                         ELSE Padding(dim[i])
<1>1. \A i \in 1..L: dim[i] = IF modes[i].mode \in Modes(T)
                              THEN Dim(T, modes[i].mode)
                              ELSE [mode |-> NoMode, len |-> 1, stride |-> dim[i - 1].stride]
  BY DEF Follows
<1> DEFINE P == {n \in Nat: n \in 1..L => dim[n] \in Dimensions}
<1>2. 0 \in P
  OBVIOUS
<1>3. ASSUME NEW n \in Nat, n \in P PROVE n + 1 \in P
  <2> SUFFICES ASSUME n + 1 \in 1..L PROVE dim[n + 1] \in Dimensions
    OBVIOUS
  <2>1. CASE modes[n + 1].mode \in Modes(T)
    <3>1. Dim(T, modes[n + 1].mode) \in Dimensions
      BY <2>1, DimOf
    <3>2. dim[n + 1] = Dim(T, modes[n + 1].mode)
      BY <1>1, <2>1
    <3> QED BY <3>1, <3>2
  <2>2. CASE modes[n + 1].mode \notin Modes(T)
    <3>1. n # 0
      BY <2>2
    <3>2. dim[n] \in Dimensions
      BY <1>3, <3>1
    <3>3. dim[n + 1] = [mode |-> NoMode, len |-> 1, stride |-> dim[n].stride]
      BY <1>1, <2>2
    <3>4. dim[n].stride \in Nat
      BY <3>2 DEF Dimensions
    <3> QED BY <3>3, <3>4 DEF Dimensions, NoMode
  <2> QED BY <2>1, <2>2
<1>4. Nat \subseteq P
  <2> HIDE DEF P
  <2> QED BY <1>2, <1>3, NaturalsIn
<1>5. \A i \in 1..L: dim[i] \in Dimensions
  BY <1>4
<1>6. dim = [i \in 1..L |-> dim[i]]
  BY DEF Follows
<1>7. dim \in [1..L -> Dimensions]
  BY <1>5, <1>6
<1>8. dim \in Seq(Dimensions) /\ Len(dim) = L
  BY <1>7
<1> QED BY <1>1, <1>8 DEF Padding

LEMMA FollowsExists ==
  ASSUME NEW T, Tensor(T), NEW L \in Nat, L # 0, NEW modes, modes[1].mode \in Modes(T)
  PROVE  \E dim: Follows(dim, modes, T, L)
<1> DEFINE V == Dimensions
           Filled(d) == [mode |-> NoMode, len |-> 1, stride |-> d.stride]
           Next1(i, d) == IF modes[i].mode \in Modes(T) THEN Dim(T, modes[i].mode) ELSE Filled(d)
           Step == [q \in Nat \X V |-> Next1(q[1], q[2])]
           base == [mode |-> NoMode, len |-> 1, stride |-> 0]
<1>1. \A d \in V: Filled(d) \in V
  BY DEF Dimensions, NoMode
<1>2. base \in V
  BY DEF Dimensions, NoMode
<1>3. \A i \in Nat, d \in V: Next1(i, d) \in V
  BY <1>1, DimOf
<1>4. StepOver(Step, V)
  <2> HIDE DEF V, Next1
  <2> QED BY <1>3 DEF StepOver
<1>5. \A i \in 1..L, d \in V: Step[<<i, d>>] = Next1(i, d)
  OBVIOUS
<1> HIDE DEF Step, base, Next1, V
<1>6. PICK f: FoldsUpTo(f, L, base, Step, V)
  BY <1>2, <1>4, RecursiveFunction
<1>7. f \in [0..L -> V] /\ \A n \in 1..L: f[n] = Step[<<n, f[n - 1]>>]
  BY <1>6 DEF FoldsUpTo
<1>8. \A n \in 1..L: f[n - 1] \in V
  BY <1>7
<1>9. \A n \in 1..L: f[n] = Next1(n, f[n - 1])
  BY <1>5, <1>7, <1>8
<1> DEFINE g == [i \in 1..L |-> f[i]]
<1>10. ASSUME NEW i \in 1..L
       PROVE  f[i] = IF modes[i].mode \in Modes(T) THEN Dim(T, modes[i].mode) ELSE Filled(g[i - 1])
  <2>1. CASE i = 1
    BY <1>9, <2>1 DEF Next1
  <2>2. CASE i # 1
    <3>1. i - 1 \in 1..L
      BY <2>2
    <3>2. g[i - 1] = f[i - 1]
      BY <3>1
    <3> HIDE DEF g
    <3> QED BY <1>9, <3>2 DEF Next1
  <2> QED BY <2>1, <2>2
<1>11. g = [i \in 1..L |-> IF modes[i].mode \in Modes(T) THEN Dim(T, modes[i].mode)
                                                         ELSE Filled(g[i - 1])]
  BY <1>10
<1>12. Follows(g, modes, T, L)
  <2> HIDE DEF g
  <2> QED BY <1>11 DEF Follows
<1> QED BY <1>12

\* The normal modes of A and B that E follows.
Sides(p) == SubSeq(NormalA(p), 1, MaxM) \o SubSeq(NormalB(p), 1, MaxN)

LEMMA NormalELaid ==
  ASSUME NEW p, WellFormed(p)
  PROVE  /\ Laid(NormalE(p), p.e, ModesM(p), ModesN(p), MaxM, MaxN)
         /\ Sides(p)[1].mode \in Modes(p.e)
         /\ Follows(NormalE(p), Sides(p), p.e, MaxM + MaxN)
<1> DEFINE A == NormalA(p)
           B == NormalB(p)
           modes == SubSeq(A, 1, MaxM) \o SubSeq(B, 1, MaxN)
           E == NormalE(p)
           M == ModesM(p)
           N == ModesN(p)
           L == MaxM + MaxN
<1>1. MaxM \in Nat \ {0} /\ MaxN \in Nat \ {0} /\ MaxK \in Nat /\ L \in Nat /\ L # 0
  BY BoundsAssumption
<1>2. /\ Tensor(p.a) /\ Tensor(p.b) /\ Tensor(p.e)
      /\ Part(M, Modes(p.a) \cap Modes(p.e), 1, MaxM)
      /\ Part(N, Modes(p.b) \cap Modes(p.e), 1, MaxN)
  BY Parts
<1>3. Laid(A, p.a, M, ModesK(p), MaxM, MaxK) /\ Laid(B, p.b, N, ModesK(p), MaxN, MaxK)
  BY NormalALaid, NormalBLaid
<1>4. E = CHOOSE dim: Follows(dim, modes, p.e, L)
  BY DEF NormalE, Follows
<1> HIDE DEF A, B, M, N, E
<1>5. /\ \A i \in 1..MaxM: modes[i] = A[i]
      /\ \A i \in 1..MaxN: modes[MaxM + i] = B[i]
  <2> DEFINE u == SubSeq(A, 1, MaxM)
             v == SubSeq(B, 1, MaxN)
  <2>1. A \in Seq(Dimensions) /\ Len(A) = MaxM + MaxK /\ B \in Seq(Dimensions) /\ Len(B) = MaxN + MaxK
    BY <1>3 DEF Laid
  <2>2. u \in Seq(Dimensions) /\ Len(u) = MaxM /\ \A i \in 1..MaxM: u[i] = A[i]
    BY <1>1, <2>1
  <2>3. v \in Seq(Dimensions) /\ Len(v) = MaxN /\ \A i \in 1..MaxN: v[i] = B[i]
    BY <1>1, <2>1
  <2>4. modes = u \o v
    OBVIOUS
  <2> HIDE DEF u, v, modes
  <2>5. \A i \in 1..MaxM: (u \o v)[i] = u[i]
    BY <1>1, <2>2, <2>3
  <2>6. \A i \in 1..MaxN: (u \o v)[MaxM + i] = v[i]
    BY <1>1, <2>2, <2>3
  <2> QED BY <2>2, <2>3, <2>4, <2>5, <2>6
<1> HIDE DEF modes
<1>6. ASSUME NEW i \in 1..MaxM
      PROVE  IF i <= Len(M) THEN modes[i].mode = M[i].mode /\ modes[i].mode \in Modes(p.e)
                            ELSE modes[i].mode \notin Modes(p.e)
  <2>1. CASE i <= Len(M)
    <3>1. i \in DOMAIN M
      BY <1>2, <2>1 DEF Part, Tensor
    <3>2. M[i].mode \in Modes(p.a) \cap Modes(p.e)
      BY <1>2, <3>1 DEF Part, Modes
    <3>3. A[i] = Dim(p.a, M[i].mode)
      BY <1>3, <2>1 DEF Laid
    <3>4. A[i].mode = M[i].mode
      BY <1>2, <3>2, <3>3, DimOf
    <3> QED BY <1>5, <2>1, <3>2, <3>4
  <2>2. CASE ~ (i <= Len(M))
    <3>1. A[i].mode = NoMode
      BY <1>3, <2>2 DEF Laid, Padding
    <3> QED BY <1>2, <1>5, <2>2, <3>1 DEF Tensor
  <2> QED BY <2>1, <2>2
<1>7. ASSUME NEW i \in 1..MaxN
      PROVE  IF i <= Len(N)
             THEN modes[MaxM + i].mode = N[i].mode /\ modes[MaxM + i].mode \in Modes(p.e)
             ELSE modes[MaxM + i].mode \notin Modes(p.e)
  <2>1. CASE i <= Len(N)
    <3>1. i \in DOMAIN N
      BY <1>2, <2>1 DEF Part, Tensor
    <3>2. N[i].mode \in Modes(p.b) \cap Modes(p.e)
      BY <1>2, <3>1 DEF Part, Modes
    <3>3. B[i] = Dim(p.b, N[i].mode)
      BY <1>3, <2>1 DEF Laid
    <3>4. B[i].mode = N[i].mode
      BY <1>2, <3>2, <3>3, DimOf
    <3> QED BY <1>5, <2>1, <3>2, <3>4
  <2>2. CASE ~ (i <= Len(N))
    <3>1. B[i].mode = NoMode
      BY <1>3, <2>2 DEF Laid, Padding
    <3> QED BY <1>2, <1>5, <2>2, <3>1 DEF Tensor
  <2> QED BY <2>1, <2>2
<1>8. modes[1].mode \in Modes(p.e)
  <2>1. 1 \in 1..MaxM /\ 1 <= Len(M)
    BY <1>1, <1>2 DEF Part
  <2> QED BY <1>6, <2>1
<1>9. Follows(E, modes, p.e, L)
  <2>1. \E dim: Follows(dim, modes, p.e, L)
    BY <1>1, <1>2, <1>8, FollowsExists
  <2> QED BY <1>4, <2>1
<1>10. /\ E \in Seq(Dimensions) /\ Len(E) = L
       /\ \A i \in 1..L: IF modes[i].mode \in Modes(p.e) THEN E[i] = Dim(p.e, modes[i].mode)
                                                         ELSE Padding(E[i])
  BY <1>1, <1>2, <1>8, <1>9, FollowsTyped
<1>11. ASSUME NEW i \in 1..MaxM
       PROVE  IF i <= Len(M) THEN E[i] = Dim(p.e, M[i].mode) ELSE Padding(E[i])
  <2>1. i \in 1..L
    BY <1>1
  <2> HIDE DEF L
  <2> QED BY <1>6, <1>10, <2>1
<1>12. ASSUME NEW i \in 1..MaxN
       PROVE  IF i <= Len(N) THEN E[MaxM + i] = Dim(p.e, N[i].mode) ELSE Padding(E[MaxM + i])
  <2>1. MaxM + i \in 1..L
    BY <1>1
  <2> HIDE DEF L
  <2> QED BY <1>7, <1>10, <2>1
<1>13. Laid(E, p.e, M, N, MaxM, MaxN)
  BY <1>10, <1>11, <1>12 DEF Laid
<1>14. Laid(NormalE(p), p.e, ModesM(p), ModesN(p), MaxM, MaxN)
  BY <1>13 DEF E, M, N
<1>15. modes[1].mode \in Modes(p.e) /\ Follows(NormalE(p), modes, p.e, MaxM + MaxN)
  BY <1>8, <1>9 DEF E
<1>16. modes = Sides(p)
  BY DEF A, B, Sides, modes
<1> QED BY <1>14, <1>15, <1>16

-----------------------------------------------------------------------------
\* The normal tensors of p.
Normalized(p) ==
  [a |-> NormalA(p), b |-> NormalB(p), e |-> NormalE(p),
   dims |-> Extents(NormalA(p), NormalB(p))]

\* What a kernel gets for p.
Given(p) ==
  [a |-> IndexTensor(NormalA(p)), b |-> IndexTensor(NormalB(p)), e |-> IndexTensor(NormalE(p)),
   dims |-> ProblemDims(NormalA(p), NormalB(p))]

\* normal and accessed are computed from the problem, which does not change.
NormalInv ==
  /\ problem \in Inputs
  /\ normal # None => normal = Given(problem)
  /\ accessed # None => accessed = Visited(Given(problem))

LEMMA NormalInvHolds == Spec => []NormalInv
<1>1. Init => NormalInv
  BY DEF Init, NormalInv
<1>2. NormalInv /\ [Next]_vars => NormalInv'
  <2> SUFFICES ASSUME NormalInv, [Next]_vars PROVE NormalInv'
    OBVIOUS
  <2>1. CASE Normalize
    BY <2>1 DEF Normalize, NormalInv, Given
  <2>2. CASE ReferenceRun
    BY <2>2 DEF ReferenceRun, NormalInv
  <2>3. CASE UNCHANGED vars
    BY <2>3 DEF vars, NormalInv
  <2> QED BY <2>1, <2>2, <2>3 DEF Next
<1> QED BY <1>1, <1>2, PTL DEF Spec

\* What a kernel gets has as many dimensions as it has places for.
THEOREM NormalTypeOK == Spec => []TypeOK
<1>1. NormalInv => TypeOK
  <2> SUFFICES ASSUME NormalInv, normal # None
               PROVE  /\ Len(normal.a) = MaxM + MaxK
                      /\ Len(normal.b) = MaxN + MaxK
                      /\ DOMAIN normal.e = 1..MaxM + MaxN
    BY DEF NormalInv, TypeOK
  <2>1. WellFormed(problem)
    BY InputsAssumption DEF NormalInv
  <2>2. /\ Len(NormalA(problem)) = MaxM + MaxK
        /\ Len(NormalB(problem)) = MaxN + MaxK
    BY <2>1, NormalALaid, NormalBLaid DEF Laid
  <2>3. ASSUME NEW T \in Seq(Dimensions) PROVE Len(IndexTensor(T)) = Len(T)
    <3>1. DOMAIN T = 1..Len(T) /\ Len(T) \in Nat
      OBVIOUS
    <3> QED BY <3>1 DEF IndexTensor
  <2>4. NormalA(problem) \in Seq(Dimensions) /\ NormalB(problem) \in Seq(Dimensions)
    BY <2>1, NormalALaid, NormalBLaid DEF Laid
  <2>5. DOMAIN IndexTensor(NormalE(problem)) = 1..MaxM + MaxN
    <3>1. NormalE(problem) \in Seq(Dimensions) /\ Len(NormalE(problem)) = MaxM + MaxN
      BY <2>1, NormalELaid DEF Laid
    <3> QED BY <3>1 DEF IndexTensor
  <2> QED BY <2>2, <2>3, <2>4, <2>5 DEF NormalInv, Given
<1> QED BY <1>1, NormalInvHolds, PTL

-----------------------------------------------------------------------------
\* The values x of the modes, in the order of dims, and 0 for what pads them.
Vector(x, dims, X) == [i \in 1..X |-> IF i <= Len(dims) THEN x[dims[i].mode] ELSE 0]

\* The modes of first and second are those of T.
Splits(T, first, second) ==
  /\ Tensor(T) /\ Tensor(first) /\ Tensor(second)
  /\ Modes(first) \cap Modes(second) = {}
  /\ Modes(first) \cup Modes(second) = Modes(T)

\* name is the mode of T at each of the L places of N, and w its value.
Names(name, N, w, T, x, L) ==
  /\ \A j \in 1..L: name[j] # NoMode => name[j] \in Modes(T)
  /\ \A i, j \in 1..L: name[i] = name[j] /\ name[i] # NoMode => i = j
  /\ \A m \in Modes(T): \E j \in 1..L: name[j] = m
  /\ \A j \in 1..L: IF name[j] # NoMode THEN N[j] = Dim(T, name[j]) /\ w[j] = x[name[j]]
                                        ELSE w[j] = 0

LEMMA PlacesNamed ==
  ASSUME NEW T, NEW first, NEW second, Splits(T, first, second),
         NEW X \in Nat, NEW Y \in Nat, Len(first) <= X, Len(second) <= Y,
         NEW N, Laid(N, T, first, second, X, Y), NEW x, \A m \in Modes(T): x[m] \in Nat
  PROVE  \E name: Names(name, N, Vector(x, first, X) \o Vector(x, second, Y), T, x, X + Y)
<1> DEFINE F == Len(first)
           S == Len(second)
           u == Vector(x, first, X)
           v == Vector(x, second, Y)
           w == u \o v
           name == [j \in 1..X + Y |->
                      IF j <= X THEN IF j <= F THEN first[j].mode ELSE NoMode
                                ELSE IF j - X <= S THEN second[j - X].mode ELSE NoMode]
<1>1. /\ F \in Nat /\ DOMAIN first = 1..F /\ S \in Nat /\ DOMAIN second = 1..S
      /\ F <= X /\ S <= Y
  BY DEF Splits, Tensor
<1>2. /\ \A i \in 1..F: first[i].mode \in Modes(first)
      /\ \A i \in 1..S: second[i].mode \in Modes(second)
  BY <1>1 DEF Modes
<1>3. \A m \in Modes(first) \cup Modes(second): m \in Modes(T) /\ m # NoMode
  BY DEF Splits, Tensor
<1>4. /\ u \in Seq(Nat) /\ Len(u) = X
      /\ \A i \in 1..X: u[i] = IF i <= F THEN x[first[i].mode] ELSE 0
  <2>1. \A i \in 1..X: u[i] = IF i <= F THEN x[first[i].mode] ELSE 0
    BY DEF Vector
  <2>2. \A i \in 1..X: i <= F => i \in 1..F
    BY <1>1
  <2>3. u = [i \in 1..X |-> u[i]]
    BY DEF Vector
  <2> HIDE DEF u, F
  <2>4. \A i \in 1..X: u[i] \in Nat
    BY <1>2, <1>3, <2>1, <2>2
  <2>5. u \in [1..X -> Nat]
    BY <2>3, <2>4
  <2>6. u \in Seq(Nat) /\ Len(u) = X
    BY <2>5
  <2> QED BY <2>1, <2>6
<1>5. /\ v \in Seq(Nat) /\ Len(v) = Y
      /\ \A i \in 1..Y: v[i] = IF i <= S THEN x[second[i].mode] ELSE 0
  <2>1. \A i \in 1..Y: v[i] = IF i <= S THEN x[second[i].mode] ELSE 0
    BY DEF Vector
  <2>2. \A i \in 1..Y: i <= S => i \in 1..S
    BY <1>1
  <2>3. v = [i \in 1..Y |-> v[i]]
    BY DEF Vector
  <2> HIDE DEF v, S
  <2>4. \A i \in 1..Y: v[i] \in Nat
    BY <1>2, <1>3, <2>1, <2>2
  <2>5. v \in [1..Y -> Nat]
    BY <2>3, <2>4
  <2>6. v \in Seq(Nat) /\ Len(v) = Y
    BY <2>5
  <2> QED BY <2>1, <2>6
<1> HIDE DEF u, v
<1>6. /\ \A i \in 1..X: w[i] = IF i <= F THEN x[first[i].mode] ELSE 0
      /\ \A i \in 1..Y: w[X + i] = IF i <= S THEN x[second[i].mode] ELSE 0
  <2> HIDE DEF w, F, S
  <2>1. \A i \in 1..X: w[i] = u[i]
    BY <1>4, <1>5 DEF w
  <2>2. \A i \in 1..Y: w[X + i] = v[i]
    BY <1>4, <1>5 DEF w
  <2> QED BY <1>4, <1>5, <2>1, <2>2
<1>7. /\ \A i \in 1..X: name[i] = IF i <= F THEN first[i].mode ELSE NoMode
      /\ \A i \in 1..Y: name[X + i] = IF i <= S THEN second[i].mode ELSE NoMode
  <2> HIDE DEF F, S
  <2>1. \A i \in 1..X: i \in 1..X + Y /\ i <= X
    OBVIOUS
  <2>2. \A i \in 1..Y: X + i \in 1..X + Y /\ ~ (X + i <= X) /\ X + i - X = i
    OBVIOUS
  <2> QED BY <2>1, <2>2
<1> HIDE DEF name, w
<1>8. \A j \in 1..X + Y: j \in 1..X \/ \E i \in 1..Y: j = X + i
  <2> SUFFICES ASSUME NEW j \in 1..X + Y, j \notin 1..X PROVE \E i \in 1..Y: j = X + i
    OBVIOUS
  <2>1. j - X \in 1..Y /\ j = X + (j - X)
    OBVIOUS
  <2> QED BY <2>1
<1>9. ASSUME NEW i \in 1..X
      PROVE  IF i <= F THEN /\ name[i] = first[i].mode /\ name[i] \in Modes(first)
                            /\ N[i] = Dim(T, name[i]) /\ w[i] = x[name[i]]
                       ELSE name[i] = NoMode /\ w[i] = 0
  <2>1. i <= F => i \in 1..F
    BY <1>1
  <2> QED BY <1>2, <1>6, <1>7, <2>1 DEF Laid
<1>10. ASSUME NEW i \in 1..Y
       PROVE  IF i <= S THEN /\ name[X + i] = second[i].mode /\ name[X + i] \in Modes(second)
                             /\ N[X + i] = Dim(T, name[X + i]) /\ w[X + i] = x[name[X + i]]
                        ELSE name[X + i] = NoMode /\ w[X + i] = 0
  <2>1. i <= S => i \in 1..S
    BY <1>1
  <2> QED BY <1>2, <1>6, <1>7, <2>1 DEF Laid
<1>11. ASSUME NEW j \in 1..X + Y, name[j] # NoMode PROVE name[j] \in Modes(T)
  BY <1>3, <1>8, <1>9, <1>10, <1>11
<1>12. ASSUME NEW m \in Modes(T) PROVE \E j \in 1..X + Y: name[j] = m
  <2>1. CASE m \in Modes(first)
    <3>1. PICK i \in 1..F: first[i].mode = m
      BY <1>1, <2>1 DEF Modes
    <3>2. i \in 1..X /\ i \in 1..X + Y /\ i <= F
      BY <1>1
    <3> QED BY <1>9, <3>1, <3>2
  <2>2. CASE m \in Modes(second)
    <3>1. PICK i \in 1..S: second[i].mode = m
      BY <1>1, <2>2 DEF Modes
    <3>2. i \in 1..Y /\ X + i \in 1..X + Y /\ i <= S
      BY <1>1
    <3> QED BY <1>10, <3>1, <3>2
  <2> QED BY <2>1, <2>2 DEF Splits
<1>13. ASSUME NEW j \in 1..X + Y
       PROVE  IF name[j] # NoMode THEN N[j] = Dim(T, name[j]) /\ w[j] = x[name[j]] ELSE w[j] = 0
  <2>1. CASE j \in 1..X
    BY <1>3, <1>9, <2>1
  <2>2. CASE \E i \in 1..Y: j = X + i
    BY <1>3, <1>10, <2>2
  <2> QED BY <1>8, <2>1, <2>2
<1>14. ASSUME NEW i \in 1..X + Y, NEW j \in 1..X + Y, name[i] = name[j], name[i] # NoMode
       PROVE  i = j
  <2>1. CASE i \in 1..X /\ j \in 1..X
    <3>1. i \in DOMAIN first /\ j \in DOMAIN first /\ first[i].mode = first[j].mode
      BY <1>1, <1>9, <1>14, <2>1
    <3> QED BY <3>1 DEF Splits, Tensor
  <2>2. CASE i \in 1..X /\ \E k \in 1..Y: j = X + k
    BY <1>9, <1>10, <1>14, <2>2 DEF Splits
  <2>3. CASE j \in 1..X /\ \E k \in 1..Y: i = X + k
    BY <1>9, <1>10, <1>14, <2>3 DEF Splits
  <2>4. ASSUME NEW k \in 1..Y, NEW l \in 1..Y, i = X + k, j = X + l PROVE i = j
    <3>1. k \in DOMAIN second /\ l \in DOMAIN second /\ second[k].mode = second[l].mode
      BY <1>1, <1>10, <1>14, <2>4
    <3> QED BY <2>4, <3>1 DEF Splits, Tensor
  <2> QED BY <1>8, <2>1, <2>2, <2>3, <2>4
<1>15. Names(name, N, w, T, x, X + Y)
  BY <1>11, <1>12, <1>13, <1>14 DEF Names
<1> QED BY <1>15 DEF w, u, v

\* The offset in the normalised tensor is that of the element in the program's.
LEMMA NamedOffset ==
  ASSUME NEW T, Tensor(T), NEW M \in Nat, NEW N \in Seq(Dimensions), Len(N) = M,
         NEW x, \A m \in Modes(T): x[m] \in Nat,
         NEW w, \A j \in 1..M: w[j] \in Nat, NEW name, Names(name, N, w, T, x, M)
  PROVE  Offset(N, w) = At(T, x)
<1> DEFINE L == Len(T)
           g == [j \in 1..M |-> w[j] * N[j].stride]
           h == [i \in 1..L |-> x[T[i].mode] * T[i].stride]
           to == [i \in 1..L |-> CHOOSE j \in 1..M: name[j] = T[i].mode]
           from == [j \in 1..M |-> IF name[j] = NoMode THEN 0
                                   ELSE CHOOSE i \in 1..L: T[i].mode = name[j]]
           strideN == [i \in DOMAIN N |-> N[i].stride]
           strideT == [i \in DOMAIN T |-> T[i].stride]
           y == [i \in DOMAIN T |-> x[T[i].mode]]
<1>1. /\ L \in Nat /\ DOMAIN T = 1..L /\ DOMAIN N = 1..M /\ T \in Seq(Dimensions)
      /\ NoMode \notin Modes(T)
  BY DEF Tensor
<1>2. /\ \A j \in 1..M: N[j].stride \in Nat
      /\ \A i \in 1..L: T[i].stride \in Nat /\ T[i].mode \in Modes(T)
  <2>1. \A d \in Dimensions: d.stride \in Nat
    BY DEF Dimensions
  <2>2. /\ \A j \in 1..M: N[j] \in Dimensions
        /\ \A i \in 1..L: T[i] \in Dimensions
    BY <1>1
  <2>3. \A i \in 1..L: T[i].mode \in Modes(T)
    BY <1>1 DEF Modes
  <2> QED BY <2>1, <2>2, <2>3
<1>3. \A a, b \in Nat: a * b \in Int
  OBVIOUS
<1>4. Terms(g, M) /\ Terms(h, L)
  <2>1. \A j \in 1..M: w[j] * N[j].stride \in Int
    BY <1>2, <1>3
  <2>2. \A i \in 1..L: x[T[i].mode] * T[i].stride \in Int
    BY <1>2, <1>3
  <2> QED BY <2>1, <2>2 DEF Terms
<1>5. ASSUME NEW i \in 1..L
      PROVE  to[i] \in 1..M /\ name[to[i]] = T[i].mode /\ name[to[i]] # NoMode
  <2>1. \E j \in 1..M: name[j] = T[i].mode
    BY <1>2 DEF Names
  <2> QED BY <1>1, <1>2, <2>1
<1>6. ASSUME NEW j \in 1..M, name[j] # NoMode
      PROVE  from[j] \in 1..L /\ T[from[j]].mode = name[j]
  <2>1. \E i \in 1..L: T[i].mode = name[j]
    BY <1>1, <1>6 DEF Names, Modes
  <2> QED BY <1>6, <2>1
<1>7. \A j \in 1..M: name[j] = NoMode => from[j] = 0
  OBVIOUS
<1>8. /\ \A j \in 1..M: g[j] = w[j] * N[j].stride
      /\ \A i \in 1..L: h[i] = x[T[i].mode] * T[i].stride
  OBVIOUS
<1> HIDE DEF to, from, g, h
<1>9. ASSUME NEW i \in 1..L PROVE from[to[i]] = i /\ h[i] = g[to[i]]
  <2>1. to[i] \in 1..M /\ name[to[i]] = T[i].mode /\ name[to[i]] # NoMode
    BY <1>5
  <2>2. from[to[i]] \in 1..L /\ T[from[to[i]]].mode = T[i].mode
    BY <1>6, <2>1
  <2>3. from[to[i]] = i
    BY <1>1, <2>2 DEF Tensor
  <2>4. N[to[i]] = Dim(T, T[i].mode) /\ w[to[i]] = x[T[i].mode]
    BY <2>1 DEF Names
  <2>5. N[to[i]] = T[i]
    BY <1>1, <2>4, DimFound
  <2> QED BY <1>8, <2>1, <2>3, <2>4, <2>5
<1>10. ASSUME NEW j \in 1..M
       PROVE  from[j] \in 0..L /\ IF from[j] = 0 THEN g[j] = 0 ELSE to[from[j]] = j
  <2>1. CASE name[j] = NoMode
    <3>1. from[j] = 0 /\ w[j] = 0
      BY <1>7, <2>1 DEF Names
    <3>2. g[j] = 0 * N[j].stride /\ N[j].stride \in Nat
      BY <1>2, <1>8, <3>1
    <3>3. 0 \in 0..L /\ g[j] = 0
      BY <1>1, <3>2
    <3> QED BY <3>1, <3>3
  <2>2. CASE name[j] # NoMode
    <3>1. from[j] \in 1..L /\ T[from[j]].mode = name[j]
      BY <1>6, <2>2
    <3>2. to[from[j]] \in 1..M /\ name[to[from[j]]] = name[j]
      BY <1>5, <3>1
    <3>3. to[from[j]] = j
      BY <2>2, <3>2 DEF Names
    <3>4. from[j] \in 0..L /\ from[j] # 0
      BY <3>1
    <3> QED BY <3>3, <3>4
  <2> QED BY <2>1, <2>2
<1>11. Embeds(to, from, g, h, L, M)
  BY <1>5, <1>9, <1>10 DEF Embeds
<1>12. PICK f: SumsUpTo(f, g, M) /\ OffsetOf(w, strideN) = f[M]
  <2>1. Len(strideN) = M /\ \A n \in 1..M: g[n] = w[n] * strideN[n]
    BY <1>1, <1>8
  <2> HIDE DEF strideN
  <2> QED BY <1>4, <2>1, OffsetIsSum
<1>13. PICK e: SumsUpTo(e, h, L) /\ OffsetOf(y, strideT) = e[L]
  <2>1. Len(strideT) = L /\ \A n \in 1..L: h[n] = y[n] * strideT[n]
    BY <1>1, <1>8
  <2> HIDE DEF strideT, y, L
  <2>2. L \in Nat
    BY <1>1
  <2> QED BY <1>4, <2>1, <2>2, OffsetIsSum
<1>14. e[L] = f[M]
  <2> HIDE DEF L
  <2>1. L \in Nat
    BY <1>1
  <2> QED BY <1>4, <1>11, <1>12, <1>13, <2>1, SumEmbedded
<1> QED BY <1>12, <1>13, <1>14 DEF Offset, At

LEMMA NormalOffset ==
  ASSUME NEW T, NEW first, NEW second, Splits(T, first, second),
         NEW X \in Nat, NEW Y \in Nat, Len(first) <= X, Len(second) <= Y,
         NEW N, Laid(N, T, first, second, X, Y), NEW x, \A m \in Modes(T): x[m] \in Nat
  PROVE  Offset(N, Vector(x, first, X) \o Vector(x, second, Y)) = At(T, x)
<1> DEFINE w == Vector(x, first, X) \o Vector(x, second, Y)
<1>1. PICK name: Names(name, N, w, T, x, X + Y)
  BY PlacesNamed
<1> HIDE DEF w
<1>2. \A j \in 1..X + Y: w[j] \in Nat
  BY <1>1 DEF Names
<1>3. X + Y \in Nat /\ N \in Seq(Dimensions) /\ Len(N) = X + Y /\ Tensor(T)
  BY DEF Laid, Splits
<1>4. Offset(N, w) = At(T, x)
  BY <1>1, <1>2, <1>3, NamedOffset
<1> QED BY <1>4 DEF w

-----------------------------------------------------------------------------
\* lens has the lengths of dims, and 1 for what pads them.
LaidLengths(lens, dims, lengths, X) ==
  /\ lens \in Seq(Nat) /\ Len(lens) = X
  /\ \A i \in 1..X: lens[i] = IF i <= Len(dims) THEN lengths[dims[i].mode] ELSE 1

LEMMA LengthsLaid ==
  ASSUME NEW T, NEW first, NEW second, Splits(T, first, second),
         NEW X \in Nat, NEW Y \in Nat, Len(first) <= X, Len(second) <= Y,
         NEW N, Laid(N, T, first, second, X, Y),
         NEW lengths, \A m \in Modes(T): Dim(T, m).len = lengths[m]
  PROVE  /\ LaidLengths(LengthsOf(N, 1, X), first, lengths, X)
         /\ LaidLengths(LengthsOf(N, X + 1, X + Y), second, lengths, Y)
<1>1. /\ Len(first) \in Nat /\ DOMAIN first = 1..Len(first)
      /\ Len(second) \in Nat /\ DOMAIN second = 1..Len(second)
  BY DEF Splits, Tensor
<1>2. /\ \A i \in 1..Len(first): first[i].mode \in Modes(T)
      /\ \A i \in 1..Len(second): second[i].mode \in Modes(T)
  BY <1>1 DEF Modes, Splits
<1>3. /\ N \in Seq(Dimensions) /\ DOMAIN N = 1..X + Y
      /\ \A i \in 1..X + Y: N[i].len \in Nat
  <2>1. N \in Seq(Dimensions) /\ DOMAIN N = 1..X + Y
    BY DEF Laid
  <2>2. \A i \in 1..X + Y: N[i] \in Dimensions
    BY <2>1
  <2>3. \A d \in Dimensions: d.len \in Nat
    BY DEF Dimensions
  <2> QED BY <2>1, <2>2, <2>3
<1>4. /\ LengthsOf(N, 1, X) = [i \in 1..X |-> N[i].len]
      /\ LengthsOf(N, X + 1, X + Y) = [i \in 1..Y |-> N[X + i].len]
  <2>1. X - 1 + 1 = X /\ \A i \in 1..X: 1 + i - 1 = i
    OBVIOUS
  <2>2. X + Y - (X + 1) + 1 = Y /\ \A i \in 1..Y: X + 1 + i - 1 = X + i
    OBVIOUS
  <2> QED BY <2>1, <2>2 DEF LengthsOf
<1>5. LengthsOf(N, 1, X) \in Seq(Nat) /\ Len(LengthsOf(N, 1, X)) = X
  <2>1. \A i \in 1..X: i \in 1..X + Y
    OBVIOUS
  <2>2. LengthsOf(N, 1, X) \in [1..X -> Nat]
    BY <1>3, <1>4, <2>1
  <2> QED BY <2>2
<1>6. LengthsOf(N, X + 1, X + Y) \in Seq(Nat) /\ Len(LengthsOf(N, X + 1, X + Y)) = Y
  <2>1. \A i \in 1..Y: X + i \in 1..X + Y
    OBVIOUS
  <2>2. LengthsOf(N, X + 1, X + Y) \in [1..Y -> Nat]
    BY <1>3, <1>4, <2>1
  <2> QED BY <2>2
<1>7. ASSUME NEW i \in 1..X
      PROVE  N[i].len = IF i <= Len(first) THEN lengths[first[i].mode] ELSE 1
  <2>1. i <= Len(first) => i \in 1..Len(first)
    BY <1>1
  <2> QED BY <1>2, <2>1 DEF Laid, Padding
<1>8. ASSUME NEW i \in 1..Y
      PROVE  N[X + i].len = IF i <= Len(second) THEN lengths[second[i].mode] ELSE 1
  <2>1. i <= Len(second) => i \in 1..Len(second)
    BY <1>1
  <2> QED BY <1>2, <2>1 DEF Laid, Padding
<1> QED BY <1>4, <1>5, <1>6, <1>7, <1>8 DEF LaidLengths

LEMMA LengthsAgree ==
  ASSUME NEW p, WellFormed(p)
  PROVE  /\ DOMAIN Lengths(p) = Modes(p.a) \cup Modes(p.b)
         /\ \A m \in Modes(p.a) \cup Modes(p.b): Lengths(p)[m] \in Nat \ {0}
         /\ \A m \in Modes(p.a): Dim(p.a, m).len = Lengths(p)[m]
         /\ \A m \in Modes(p.b): Dim(p.b, m).len = Lengths(p)[m]
         /\ \A m \in Modes(p.e): Dim(p.e, m).len = Lengths(p)[m]
<1>1. Tensor(p.a) /\ Tensor(p.b) /\ Tensor(p.e)
  BY Parts
<1>2. ASSUME NEW T \in {p.a, p.b, p.e}, NEW U \in {p.a, p.b, p.e}, NEW m \in Modes(T), m \in Modes(U)
      PROVE  Dim(T, m).len = Dim(U, m).len
  <2>1. PICK i \in DOMAIN T: T[i].mode = m
    BY DEF Modes
  <2>2. PICK j \in DOMAIN U: U[j].mode = m
    BY <1>2 DEF Modes
  <2>3. Dim(T, m) = T[i] /\ Dim(U, m) = U[j]
    BY <1>1, <2>1, <2>2, DimFound
  <2>4. \A k \in DOMAIN T, l \in DOMAIN U: T[k].mode = U[l].mode => T[k].len = U[l].len
    BY Zenon DEF WellFormed
  <2>5. T[i].len = U[j].len
    BY <2>1, <2>2, <2>4
  <2> QED BY <2>3, <2>5
<1>3. /\ DOMAIN Lengths(p) = Modes(p.a) \cup Modes(p.b)
      /\ \A m \in Modes(p.a) \cup Modes(p.b):
           Lengths(p)[m] = IF m \in Modes(p.a) THEN Dim(p.a, m).len ELSE Dim(p.b, m).len
  BY DEF Lengths
<1>4. \A d \in Dimensions: d.len \in Nat \ {0}
  BY DEF Dimensions
<1>5. ASSUME NEW m \in Modes(p.a) \cup Modes(p.b) PROVE Lengths(p)[m] \in Nat \ {0}
  BY <1>1, <1>3, <1>4, DimOf
<1>6. \A m \in Modes(p.b): Dim(p.b, m).len = Lengths(p)[m]
  BY <1>2, <1>3
<1>7. \A m \in Modes(p.e): m \in Modes(p.a) \/ m \in Modes(p.b)
  BY DEF WellFormed
<1>8. \A m \in Modes(p.e): Dim(p.e, m).len = Lengths(p)[m]
  BY <1>2, <1>3, <1>7
<1> QED BY <1>3, <1>5, <1>6, <1>8

\* A value of every mode, below its length.
Valued(x, p) ==
  /\ x = [m \in Modes(p.a) \cup Modes(p.b) |-> x[m]]
  /\ \A m \in Modes(p.a) \cup Modes(p.b): x[m] \in Nat /\ x[m] < Lengths(p)[m]

LEMMA ValuesAre ==
  ASSUME NEW p, WellFormed(p)
  PROVE  \A x: x \in Values(p) <=> Valued(x, p)
<1> DEFINE D == Modes(p.a) \cup Modes(p.b)
           lengths == Lengths(p)
           V == UNION {0..lengths[m] - 1 : m \in D}
<1>1. DOMAIN lengths = D /\ \A m \in D: lengths[m] \in Nat \ {0}
  BY LengthsAgree
<1>2. Values(p) = {x \in [D -> V]: \A m \in D: x[m] < lengths[m]}
  BY <1>1 DEF Values
<1> HIDE DEF D, lengths
<1>3. \A v \in V: v \in Nat
  BY <1>1
<1>4. ASSUME NEW x, x \in Values(p) PROVE Valued(x, p)
  <2>1. x \in [D -> V] /\ \A m \in D: x[m] < lengths[m]
    BY <1>2, <1>4
  <2>2. x = [m \in D |-> x[m]] /\ \A m \in D: x[m] \in V
    BY <2>1
  <2> HIDE DEF V
  <2> QED BY <1>3, <2>1, <2>2 DEF Valued, D, lengths
<1>5. ASSUME NEW x, Valued(x, p) PROVE x \in Values(p)
  <2>1. x = [m \in D |-> x[m]] /\ \A m \in D: x[m] \in Nat /\ x[m] < lengths[m]
    BY <1>5 DEF Valued, D, lengths
  <2>2. ASSUME NEW m \in D PROVE x[m] \in V
    <3>1. x[m] \in 0..lengths[m] - 1
      BY <1>1, <2>1
    <3> QED BY <3>1
  <2> HIDE DEF V
  <2>3. x \in [D -> V]
    BY <2>1, <2>2
  <2> QED BY <1>2, <2>1, <2>3
<1> QED BY <1>4, <1>5

-----------------------------------------------------------------------------
\* Where dims has the mode m.
Position(dims, m) == CHOOSE i \in DOMAIN dims: dims[i].mode = m

LEMMA PositionIs ==
  ASSUME NEW dims, Tensor(dims)
  PROVE  /\ \A m \in Modes(dims): /\ Position(dims, m) \in 1..Len(dims)
                                  /\ dims[Position(dims, m)].mode = m
         /\ \A i \in 1..Len(dims): dims[i].mode \in Modes(dims) /\ Position(dims, dims[i].mode) = i
<1>1. DOMAIN dims = 1..Len(dims)
  BY DEF Tensor
<1>2. ASSUME NEW m \in Modes(dims)
      PROVE  Position(dims, m) \in 1..Len(dims) /\ dims[Position(dims, m)].mode = m
  <2>1. \E i \in DOMAIN dims: dims[i].mode = m
    BY DEF Modes
  <2> QED BY <1>1, <2>1 DEF Position
<1>3. ASSUME NEW i \in 1..Len(dims)
      PROVE  dims[i].mode \in Modes(dims) /\ Position(dims, dims[i].mode) = i
  <2>1. dims[i].mode \in Modes(dims)
    BY <1>1 DEF Modes
  <2>2. /\ Position(dims, dims[i].mode) \in 1..Len(dims)
        /\ dims[Position(dims, dims[i].mode)].mode = dims[i].mode
    BY <1>2, <2>1
  <2> QED BY <1>1, <2>1, <2>2 DEF Tensor
<1> QED BY <1>2, <1>3

\* The values of the modes are the indices of a loop, and the indices values.
LEMMA VectorsLoop ==
  ASSUME NEW dims, Tensor(dims), NEW X \in Nat, Len(dims) <= X,
         NEW lengths, NEW lens, LaidLengths(lens, dims, lengths, X)
  PROVE  /\ \A x: (\A m \in Modes(dims): x[m] \in Nat /\ x[m] < lengths[m])
                    => Vector(x, dims, X) \in Coordinates(lens)
         /\ \A y \in Coordinates(lens), m \in Modes(dims):
              y[Position(dims, m)] \in Nat /\ y[Position(dims, m)] < lengths[m]
         /\ \A y \in Coordinates(lens): \A x:
              (\A m \in Modes(dims): x[m] = y[Position(dims, m)]) => Vector(x, dims, X) = y
         /\ \A x, y: Vector(x, dims, X) = Vector(y, dims, X) => \A m \in Modes(dims): x[m] = y[m]
<1> DEFINE F == Len(dims)
<1>1. F \in Nat /\ F <= X /\ lens \in Seq(Nat) /\ Len(lens) = X
  BY DEF Tensor, LaidLengths
<1>2. \A i \in 1..X: i <= F => i \in 1..F
  BY <1>1
<1>3. \A i \in 1..F: i \in 1..X /\ i <= F
  BY <1>1
<1>4. /\ \A i \in 1..F: lens[i] = lengths[dims[i].mode]
      /\ \A i \in 1..X: ~ (i <= F) => lens[i] = 1
  BY <1>3 DEF LaidLengths
<1>5. /\ \A m \in Modes(dims): Position(dims, m) \in 1..F /\ dims[Position(dims, m)].mode = m
      /\ \A i \in 1..F: dims[i].mode \in Modes(dims) /\ Position(dims, dims[i].mode) = i
  BY PositionIs
<1>6. \A x: \A i \in 1..X: Vector(x, dims, X)[i] = IF i <= F THEN x[dims[i].mode] ELSE 0
  BY DEF Vector
<1>7. \A x: Vector(x, dims, X) = [i \in 1..X |-> Vector(x, dims, X)[i]]
  BY DEF Vector
<1> HIDE DEF F
<1>8. ASSUME NEW x, \A m \in Modes(dims): x[m] \in Nat /\ x[m] < lengths[m]
      PROVE  Vector(x, dims, X) \in Coordinates(lens)
  <2> DEFINE v == Vector(x, dims, X)
  <2>1. \A i \in 1..X: v[i] \in Nat /\ v[i] < lens[i]
    <3> SUFFICES ASSUME NEW i \in 1..X PROVE v[i] \in Nat /\ v[i] < lens[i]
      OBVIOUS
    <3>1. CASE i <= F
      <4>1. i \in 1..F /\ v[i] = x[dims[i].mode]
        BY <1>2, <1>6, <3>1
      <4> QED BY <1>4, <1>5, <1>8, <4>1
    <3>2. CASE ~ (i <= F)
      <4>1. v[i] = 0 /\ lens[i] = 1
        BY <1>4, <1>6, <3>2
      <4> QED BY <4>1
    <3> QED BY <3>1, <3>2
  <2>2. v = [i \in 1..X |-> v[i]]
    BY <1>7
  <2> HIDE DEF v
  <2>3. v \in [1..X -> Nat]
    BY <2>1, <2>2
  <2>4. v \in Seq(Nat) /\ Len(v) = X
    BY <2>3
  <2>5. v \in Coordinates(lens)
    BY <1>1, <2>1, <2>4, CoordinatesAre
  <2> QED BY <2>5 DEF v
<1>9. ASSUME NEW y \in Coordinates(lens)
      PROVE  /\ y = [i \in 1..X |-> y[i]]
             /\ \A i \in 1..X: y[i] \in Nat /\ y[i] < lens[i]
  <2>1. y \in Seq(Nat) /\ Len(y) = X /\ \A i \in 1..X: y[i] < lens[i]
    BY <1>1, CoordinatesTyped
  <2> QED BY <2>1
<1>10. ASSUME NEW y \in Coordinates(lens), NEW m \in Modes(dims)
       PROVE  y[Position(dims, m)] \in Nat /\ y[Position(dims, m)] < lengths[m]
  <2>1. /\ Position(dims, m) \in 1..F /\ Position(dims, m) \in 1..X
        /\ dims[Position(dims, m)].mode = m
    BY <1>3, <1>5
  <2> QED BY <1>4, <1>9, <2>1
<1>11. ASSUME NEW y \in Coordinates(lens), NEW x,
              \A m \in Modes(dims): x[m] = y[Position(dims, m)]
       PROVE  Vector(x, dims, X) = y
  <2>1. ASSUME NEW i \in 1..X PROVE Vector(x, dims, X)[i] = y[i]
    <3>1. CASE i <= F
      <4>1. /\ i \in 1..F /\ dims[i].mode \in Modes(dims) /\ Position(dims, dims[i].mode) = i
            /\ Vector(x, dims, X)[i] = x[dims[i].mode]
        BY <1>2, <1>5, <1>6, <3>1
      <4> QED BY <1>11, <4>1
    <3>2. CASE ~ (i <= F)
      <4>1. Vector(x, dims, X)[i] = 0 /\ lens[i] = 1 /\ y[i] \in Nat /\ y[i] < lens[i]
        BY <1>4, <1>6, <1>9, <3>2
      <4> QED BY <4>1
    <3> QED BY <3>1, <3>2
  <2> QED BY <1>7, <1>9, <2>1
<1>12. ASSUME NEW x, NEW y, Vector(x, dims, X) = Vector(y, dims, X), NEW m \in Modes(dims)
       PROVE  x[m] = y[m]
  <2>1. /\ Position(dims, m) \in 1..X /\ Position(dims, m) <= F
        /\ dims[Position(dims, m)].mode = m
    BY <1>3, <1>5
  <2>2. /\ Vector(x, dims, X)[Position(dims, m)] = x[m]
        /\ Vector(y, dims, X)[Position(dims, m)] = y[m]
    BY <1>6, <2>1
  <2> QED BY <1>12, <2>2
<1> QED BY <1>8, <1>10, <1>11, <1>12

-----------------------------------------------------------------------------
\* The loops over M, N and K of the normalised tensors of p.
LoopM(p) == Loops(NormalE(p), 1, MaxM)
LoopN(p) == Loops(NormalE(p), MaxM + 1, MaxM + MaxN)
LoopK(p) == Loops(NormalA(p), MaxM + 1, MaxM + MaxK)

\* The values of p's modes as indices of those loops.
VectorM(x, p) == Vector(x, ModesM(p), MaxM)
VectorN(x, p) == Vector(x, ModesN(p), MaxN)
VectorK(x, p) == Vector(x, ModesK(p), MaxK)

LEMMA AllSplit ==
  ASSUME NEW p, WellFormed(p)
  PROVE  /\ Splits(p.a, ModesM(p), ModesK(p))
         /\ Splits(p.b, ModesN(p), ModesK(p))
         /\ Splits(p.e, ModesM(p), ModesN(p))
         /\ Len(ModesM(p)) <= MaxM /\ Len(ModesN(p)) <= MaxN /\ Len(ModesK(p)) <= MaxK
<1> DEFINE a == Modes(p.a)
           b == Modes(p.b)
           e == Modes(p.e)
<1>1. /\ Tensor(p.a) /\ Tensor(p.b) /\ Tensor(p.e)
      /\ Part(ModesM(p), a \cap e, 1, MaxM)
      /\ Part(ModesN(p), b \cap e, 1, MaxN)
      /\ Part(ModesK(p), a \cap b, 0, MaxK)
  BY Parts
<1>2. a \cap b \cap e = {} /\ a \subseteq b \cup e /\ b \subseteq a \cup e /\ e \subseteq a \cup b
  BY DEF WellFormed
<1> HIDE DEF a, b, e
<1>3. /\ (a \cap e) \cap (a \cap b) = {} /\ (a \cap e) \cup (a \cap b) = a
      /\ (b \cap e) \cap (a \cap b) = {} /\ (b \cap e) \cup (a \cap b) = b
      /\ (a \cap e) \cap (b \cap e) = {} /\ (a \cap e) \cup (b \cap e) = e
  BY <1>2
<1>4. Len(ModesM(p)) <= MaxM /\ Len(ModesN(p)) <= MaxN /\ Len(ModesK(p)) <= MaxK
  BY <1>1 DEF Part
<1> QED BY <1>1, <1>3, <1>4 DEF Splits, Part, a, b, e

\* The loops count the modes by the lengths the program gave them.
LEMMA LoopsLaid ==
  ASSUME NEW p, WellFormed(p)
  PROVE  /\ LaidLengths(LengthsOf(NormalE(p), 1, MaxM), ModesM(p), Lengths(p), MaxM)
         /\ LaidLengths(LengthsOf(NormalA(p), 1, MaxM), ModesM(p), Lengths(p), MaxM)
         /\ LaidLengths(LengthsOf(NormalE(p), MaxM + 1, MaxM + MaxN), ModesN(p), Lengths(p), MaxN)
         /\ LaidLengths(LengthsOf(NormalB(p), 1, MaxN), ModesN(p), Lengths(p), MaxN)
         /\ LaidLengths(LengthsOf(NormalA(p), MaxM + 1, MaxM + MaxK), ModesK(p), Lengths(p), MaxK)
<1>1. MaxM \in Nat /\ MaxN \in Nat /\ MaxK \in Nat
  BY BoundsAssumption
<1>2. /\ Splits(p.a, ModesM(p), ModesK(p))
      /\ Splits(p.b, ModesN(p), ModesK(p))
      /\ Splits(p.e, ModesM(p), ModesN(p))
      /\ Len(ModesM(p)) <= MaxM /\ Len(ModesN(p)) <= MaxN /\ Len(ModesK(p)) <= MaxK
  BY AllSplit
<1>3. /\ \A m \in Modes(p.a): Dim(p.a, m).len = Lengths(p)[m]
      /\ \A m \in Modes(p.b): Dim(p.b, m).len = Lengths(p)[m]
      /\ \A m \in Modes(p.e): Dim(p.e, m).len = Lengths(p)[m]
  BY LengthsAgree
<1>4. /\ LaidLengths(LengthsOf(NormalA(p), 1, MaxM), ModesM(p), Lengths(p), MaxM)
      /\ LaidLengths(LengthsOf(NormalA(p), MaxM + 1, MaxM + MaxK), ModesK(p), Lengths(p), MaxK)
  BY <1>1, <1>2, <1>3, NormalALaid, LengthsLaid
<1>5. LaidLengths(LengthsOf(NormalB(p), 1, MaxN), ModesN(p), Lengths(p), MaxN)
  BY <1>1, <1>2, <1>3, NormalBLaid, LengthsLaid
<1>6. /\ LaidLengths(LengthsOf(NormalE(p), 1, MaxM), ModesM(p), Lengths(p), MaxM)
      /\ LaidLengths(LengthsOf(NormalE(p), MaxM + 1, MaxM + MaxN), ModesN(p), Lengths(p), MaxN)
  BY <1>1, <1>2, <1>3, NormalELaid, LengthsLaid
<1> QED BY <1>4, <1>5, <1>6

\* A value of p's modes is a turn of the three loops, and a turn one value.
LEMMA ValuesLoop ==
  ASSUME NEW p, WellFormed(p)
  PROVE  /\ \A x \in Values(p):
              /\ VectorM(x, p) \in LoopM(p) /\ VectorN(x, p) \in LoopN(p)
              /\ VectorK(x, p) \in LoopK(p)
         /\ \A m \in LoopM(p), j \in LoopN(p), k \in LoopK(p):
              \E x \in Values(p): VectorM(x, p) = m /\ VectorN(x, p) = j /\ VectorK(x, p) = k
         /\ \A x, y \in Values(p):
              VectorM(x, p) = VectorM(y, p) /\ VectorN(x, p) = VectorN(y, p)
                /\ VectorK(x, p) = VectorK(y, p) => x = y
<1> DEFINE D == Modes(p.a) \cup Modes(p.b)
           M == ModesM(p)
           N == ModesN(p)
           K == ModesK(p)
           lengths == Lengths(p)
           lM == LengthsOf(NormalE(p), 1, MaxM)
           lN == LengthsOf(NormalE(p), MaxM + 1, MaxM + MaxN)
           lK == LengthsOf(NormalA(p), MaxM + 1, MaxM + MaxK)
<1>1. MaxM \in Nat /\ MaxN \in Nat /\ MaxK \in Nat
  BY BoundsAssumption
<1>2. /\ Tensor(M) /\ Tensor(N) /\ Tensor(K)
      /\ Len(M) <= MaxM /\ Len(N) <= MaxN /\ Len(K) <= MaxK
  BY AllSplit DEF Splits
<1>3. /\ Modes(M) \cup Modes(N) \cup Modes(K) = D
      /\ Modes(M) \cap Modes(N) = {} /\ Modes(M) \cap Modes(K) = {} /\ Modes(N) \cap Modes(K) = {}
  BY AllSplit DEF Splits
<1>4. /\ LaidLengths(lM, M, lengths, MaxM)
      /\ LaidLengths(lN, N, lengths, MaxN)
      /\ LaidLengths(lK, K, lengths, MaxK)
  BY LoopsLaid
<1>5. /\ LoopM(p) = Coordinates(lM) /\ LoopN(p) = Coordinates(lN) /\ LoopK(p) = Coordinates(lK)
      /\ \A x: /\ VectorM(x, p) = Vector(x, M, MaxM) /\ VectorN(x, p) = Vector(x, N, MaxN)
               /\ VectorK(x, p) = Vector(x, K, MaxK)
  BY DEF LoopM, LoopN, LoopK, Loops, VectorM, VectorN, VectorK
<1>6. \A x: x \in Values(p) <=> /\ x = [m \in D |-> x[m]]
                                /\ \A m \in D: x[m] \in Nat /\ x[m] < lengths[m]
  BY ValuesAre DEF Valued
<1> HIDE DEF D, M, N, K, lengths, lM, lN, lK
<1>7. ASSUME NEW x \in Values(p)
      PROVE  /\ VectorM(x, p) \in LoopM(p) /\ VectorN(x, p) \in LoopN(p)
             /\ VectorK(x, p) \in LoopK(p)
  <2>1. \A m \in Modes(M) \cup Modes(N) \cup Modes(K): x[m] \in Nat /\ x[m] < lengths[m]
    BY <1>3, <1>6
  <2>2. Vector(x, M, MaxM) \in Coordinates(lM)
    BY <1>1, <1>2, <1>4, <2>1, VectorsLoop
  <2>3. Vector(x, N, MaxN) \in Coordinates(lN)
    BY <1>1, <1>2, <1>4, <2>1, VectorsLoop
  <2>4. Vector(x, K, MaxK) \in Coordinates(lK)
    BY <1>1, <1>2, <1>4, <2>1, VectorsLoop
  <2> QED BY <1>5, <2>2, <2>3, <2>4
<1>8. ASSUME NEW m \in LoopM(p), NEW j \in LoopN(p), NEW k \in LoopK(p)
      PROVE  \E x \in Values(p): VectorM(x, p) = m /\ VectorN(x, p) = j /\ VectorK(x, p) = k
  <2> DEFINE x == [t \in D |-> IF t \in Modes(M) THEN m[Position(M, t)]
                               ELSE IF t \in Modes(N) THEN j[Position(N, t)]
                               ELSE k[Position(K, t)]]
  <2>1. /\ \A t \in Modes(M): x[t] = m[Position(M, t)]
        /\ \A t \in Modes(N): x[t] = j[Position(N, t)]
        /\ \A t \in Modes(K): x[t] = k[Position(K, t)]
        /\ x = [t \in D |-> x[t]]
    BY <1>3
  <2> HIDE DEF x
  <2>2. /\ Vector(x, M, MaxM) = m
        /\ \A t \in Modes(M): m[Position(M, t)] \in Nat /\ m[Position(M, t)] < lengths[t]
    <3>1. m \in Coordinates(lM)
      BY <1>5
    <3>2. /\ \A v \in Coordinates(lM), t \in Modes(M):
               v[Position(M, t)] \in Nat /\ v[Position(M, t)] < lengths[t]
          /\ \A v \in Coordinates(lM): \A z:
               (\A t \in Modes(M): z[t] = v[Position(M, t)]) => Vector(z, M, MaxM) = v
      BY <1>1, <1>2, <1>4, VectorsLoop
    <3> QED BY <2>1, <3>1, <3>2
  <2>3. /\ Vector(x, N, MaxN) = j
        /\ \A t \in Modes(N): j[Position(N, t)] \in Nat /\ j[Position(N, t)] < lengths[t]
    <3>1. j \in Coordinates(lN)
      BY <1>5
    <3>2. /\ \A v \in Coordinates(lN), t \in Modes(N):
               v[Position(N, t)] \in Nat /\ v[Position(N, t)] < lengths[t]
          /\ \A v \in Coordinates(lN): \A z:
               (\A t \in Modes(N): z[t] = v[Position(N, t)]) => Vector(z, N, MaxN) = v
      BY <1>1, <1>2, <1>4, VectorsLoop
    <3> QED BY <2>1, <3>1, <3>2
  <2>4. /\ Vector(x, K, MaxK) = k
        /\ \A t \in Modes(K): k[Position(K, t)] \in Nat /\ k[Position(K, t)] < lengths[t]
    <3>1. k \in Coordinates(lK)
      BY <1>5
    <3>2. /\ \A v \in Coordinates(lK), t \in Modes(K):
               v[Position(K, t)] \in Nat /\ v[Position(K, t)] < lengths[t]
          /\ \A v \in Coordinates(lK): \A z:
               (\A t \in Modes(K): z[t] = v[Position(K, t)]) => Vector(z, K, MaxK) = v
      BY <1>1, <1>2, <1>4, VectorsLoop
    <3> QED BY <2>1, <3>1, <3>2
  <2>5. \A t \in D: x[t] \in Nat /\ x[t] < lengths[t]
    BY <1>3, <2>1, <2>2, <2>3, <2>4
  <2>6. x \in Values(p)
    BY <1>6, <2>1, <2>5
  <2> QED BY <1>5, <2>2, <2>3, <2>4, <2>6
<1>9. ASSUME NEW x \in Values(p), NEW y \in Values(p), VectorM(x, p) = VectorM(y, p),
             VectorN(x, p) = VectorN(y, p), VectorK(x, p) = VectorK(y, p)
      PROVE  x = y
  <2>1. \A t \in Modes(M): x[t] = y[t]
    BY <1>1, <1>2, <1>4, <1>5, <1>9, VectorsLoop
  <2>2. \A t \in Modes(N): x[t] = y[t]
    BY <1>1, <1>2, <1>4, <1>5, <1>9, VectorsLoop
  <2>3. \A t \in Modes(K): x[t] = y[t]
    BY <1>1, <1>2, <1>4, <1>5, <1>9, VectorsLoop
  <2>4. \A t \in D: x[t] = y[t]
    BY <1>3, <2>1, <2>2, <2>3
  <2>5. x = [t \in D |-> x[t]] /\ y = [t \in D |-> y[t]]
    BY <1>6
  <2> QED BY <2>4, <2>5
<1> QED BY <1>7, <1>8, <1>9

LEMMA ElementsMeet ==
  ASSUME NEW p, WellFormed(p), NEW x \in Values(p)
  PROVE  /\ Offset(NormalA(p), VectorM(x, p) \o VectorK(x, p)) = At(p.a, x)
         /\ Offset(NormalB(p), VectorN(x, p) \o VectorK(x, p)) = At(p.b, x)
         /\ Offset(NormalE(p), VectorM(x, p) \o VectorN(x, p)) = At(p.e, x)
<1>1. MaxM \in Nat /\ MaxN \in Nat /\ MaxK \in Nat
  BY BoundsAssumption
<1>2. /\ Splits(p.a, ModesM(p), ModesK(p))
      /\ Splits(p.b, ModesN(p), ModesK(p))
      /\ Splits(p.e, ModesM(p), ModesN(p))
      /\ Len(ModesM(p)) <= MaxM /\ Len(ModesN(p)) <= MaxN /\ Len(ModesK(p)) <= MaxK
  BY AllSplit
<1>3. /\ Laid(NormalA(p), p.a, ModesM(p), ModesK(p), MaxM, MaxK)
      /\ Laid(NormalB(p), p.b, ModesN(p), ModesK(p), MaxN, MaxK)
      /\ Laid(NormalE(p), p.e, ModesM(p), ModesN(p), MaxM, MaxN)
  BY NormalALaid, NormalBLaid, NormalELaid
<1>4. \A m \in Modes(p.a) \cup Modes(p.b): x[m] \in Nat
  BY ValuesAre DEF Valued
<1>5. Modes(p.e) \subseteq Modes(p.a) \cup Modes(p.b)
  BY DEF WellFormed
<1>6. Offset(NormalA(p), VectorM(x, p) \o VectorK(x, p)) = At(p.a, x)
  <2>1. \A m \in Modes(p.a): x[m] \in Nat
    BY <1>4
  <2> QED BY <1>1, <1>2, <1>3, <2>1, NormalOffset DEF VectorM, VectorK
<1>7. Offset(NormalB(p), VectorN(x, p) \o VectorK(x, p)) = At(p.b, x)
  <2>1. \A m \in Modes(p.b): x[m] \in Nat
    BY <1>4
  <2> QED BY <1>1, <1>2, <1>3, <2>1, NormalOffset DEF VectorN, VectorK
<1>8. Offset(NormalE(p), VectorM(x, p) \o VectorN(x, p)) = At(p.e, x)
  <2>1. \A m \in Modes(p.e): x[m] \in Nat
    BY <1>4, <1>5
  <2> QED BY <1>1, <1>2, <1>3, <2>1, NormalOffset DEF VectorM, VectorN
<1> QED BY <1>6, <1>7, <1>8

\* The elements that meet for the values x.
Element(x, p) == <<At(p.a, x), At(p.b, x), At(p.e, x)>>

\* Where one turn of the loops accesses A, B and E.
Turn(m, j, k, p) ==
  <<Offset(NormalA(p), m \o k), Offset(NormalB(p), j \o k), Offset(NormalE(p), m \o j)>>

LEMMA VisitedAreWanted ==
  ASSUME NEW p, WellFormed(p)
  PROVE  Visited(Normalized(p)) = Wanted(p)
<1>1. Visited(Normalized(p)) =
        {Turn(m, j, k, p) : m \in LoopM(p), j \in LoopN(p), k \in LoopK(p)}
  BY DEF Visited, Normalized, Turn, LoopM, LoopN, LoopK
<1>2. Wanted(p) = {Element(x, p) : x \in Values(p)}
  BY DEF Wanted, Element
<1>3. \A x \in Values(p): Turn(VectorM(x, p), VectorN(x, p), VectorK(x, p), p) = Element(x, p)
  BY ElementsMeet DEF Turn, Element
<1>4. ASSUME NEW v \in Visited(Normalized(p)) PROVE v \in Wanted(p)
  <2>1. PICK m \in LoopM(p), j \in LoopN(p), k \in LoopK(p): v = Turn(m, j, k, p)
    BY <1>1
  <2>2. PICK x \in Values(p): VectorM(x, p) = m /\ VectorN(x, p) = j /\ VectorK(x, p) = k
    BY ValuesLoop
  <2>3. v = Element(x, p)
    BY <1>3, <2>1, <2>2
  <2> QED BY <1>2, <2>3
<1>5. ASSUME NEW v \in Wanted(p) PROVE v \in Visited(Normalized(p))
  <2>1. PICK x \in Values(p): v = Element(x, p)
    BY <1>2
  <2>2. /\ VectorM(x, p) \in LoopM(p) /\ VectorN(x, p) \in LoopN(p)
        /\ VectorK(x, p) \in LoopK(p)
    BY ValuesLoop
  <2>3. v = Turn(VectorM(x, p), VectorN(x, p), VectorK(x, p), p)
    BY <1>3, <2>1
  <2> QED BY <1>1, <2>2, <2>3
<1> QED BY <1>4, <1>5

-----------------------------------------------------------------------------
\* Padding adds no length and no stride that a tensor that fits has not.
LEMMA PadFits ==
  ASSUME NEW dims \in Seq(Dimensions), Len(dims) # 0, NEW n \in Nat, Len(dims) <= n, Fits(dims)
  PROVE  Fits(Pad(dims, n))
<1> DEFINE L == Len(dims)
           pad == [i \in 1..n - L |-> [mode |-> NoMode, len |-> 1, stride |-> dims[L].stride]]
<1>1. L \in Nat /\ L \in DOMAIN dims /\ n - L \in Nat
  OBVIOUS
<1>2. \A i \in 1..n - L: pad[i].len < IndexLimit /\ pad[i].stride < IndexLimit
  BY <1>1, IndexAssumption DEF Fits
<1>3. Pad(dims, n) = dims \o pad /\ Len(Pad(dims, n)) = n /\ Pad(dims, n) \in Seq(Dimensions)
  BY Padded DEF Pad
<1>4. Len(pad) = n - L /\ pad \in Seq({pad[i] : i \in 1..n - L})
  <2>1. pad \in [1..n - L -> {pad[i] : i \in 1..n - L}]
    OBVIOUS
  <2> HIDE DEF pad, L
  <2> QED BY <1>1, <2>1
<1>5. ASSUME NEW i \in 1..n
      PROVE  Pad(dims, n)[i] = IF i <= L THEN dims[i] ELSE pad[i - L]
  <2>1. DOMAIN dims = 1..L /\ DOMAIN pad = 1..n - L /\ i \in 1..L + (n - L)
    BY <1>1
  <2> HIDE DEF pad
  <2> QED BY <1>1, <1>3, <1>4, <2>1
<1>6. ASSUME NEW i \in 1..n PROVE i \in DOMAIN dims \/ (~ (i <= L) /\ i - L \in 1..n - L)
  BY <1>1
<1>7. DOMAIN Pad(dims, n) = 1..n
  BY <1>3
<1> HIDE DEF pad
<1> QED BY <1>2, <1>5, <1>6, <1>7 DEF Fits

LEMMA JoinFits ==
  ASSUME NEW u \in Seq(Dimensions), NEW v \in Seq(Dimensions), Fits(u), Fits(v)
  PROVE  Fits(u \o v) /\ u \o v \in Seq(Dimensions) /\ Len(u \o v) = Len(u) + Len(v)
<1>1. u \o v \in Seq(Dimensions) /\ Len(u \o v) = Len(u) + Len(v)
  OBVIOUS
<1>2. \A i \in 1..Len(u) + Len(v):
        /\ (u \o v)[i] = IF i <= Len(u) THEN u[i] ELSE v[i - Len(u)]
        /\ i \in DOMAIN u \/ (~ (i <= Len(u)) /\ i - Len(u) \in DOMAIN v)
  OBVIOUS
<1>3. DOMAIN (u \o v) = 1..Len(u) + Len(v)
  BY <1>1
<1>4. \A i \in DOMAIN u: i <= Len(u)
  OBVIOUS
<1> QED BY <1>1, <1>2, <1>3, <1>4 DEF Fits

LEMMA OfFits ==
  ASSUME NEW T, Tensor(T), Fits(T), NEW dims \in Seq(Dimensions), Modes(dims) \subseteq Modes(T)
  PROVE  Fits(Of(T, dims))
<1>1. \A i \in DOMAIN dims: dims[i].mode \in Modes(T)
  BY DEF Modes
<1>2. \A m \in Modes(T): Dim(T, m).len < IndexLimit /\ Dim(T, m).stride < IndexLimit
  BY DimFound DEF Modes, Fits
<1>3. DOMAIN Of(T, dims) = DOMAIN dims
      /\ \A i \in DOMAIN dims: Of(T, dims)[i] = Dim(T, dims[i].mode)
  BY DEF Of
<1> QED BY <1>1, <1>2, <1>3 DEF Fits

\* Tensors that fit stay so when they are normalised.
LEMMA NormalFits ==
  ASSUME NEW p, WellFormed(p), Fits(p.a), Fits(p.b), Fits(p.e)
  PROVE  Fits(NormalA(p)) /\ Fits(NormalB(p)) /\ Fits(NormalE(p))
<1>1. MaxM \in Nat /\ MaxN \in Nat /\ MaxK \in Nat
  BY BoundsAssumption
<1>2. ASSUME NEW T, Tensor(T), Fits(T), NEW first, Tensor(first), NEW second, Tensor(second),
             Modes(first) \subseteq Modes(T), Modes(second) \subseteq Modes(T),
             NEW X \in Nat, NEW Y \in Nat, Len(first) \in 1..X, Len(second) \in 0..Y
      PROVE  Fits(Pad(Pad(Of(T, first), X) \o Of(T, second), X + Y))
  <2> DEFINE f == Of(T, first)
             s == Of(T, second)
             P == Pad(f, X)
  <2>1. /\ f \in Seq(Dimensions) /\ Len(f) = Len(first) /\ Fits(f)
        /\ s \in Seq(Dimensions) /\ Len(s) = Len(second) /\ Fits(s)
    BY <1>2, OfDims, OfFits DEF Tensor
  <2> HIDE DEF f, s
  <2>2. P \in Seq(Dimensions) /\ Len(P) = X /\ Fits(P)
    <3>1. Len(f) # 0 /\ Len(f) <= X
      BY <1>2, <2>1
    <3> QED BY <2>1, <3>1, Padded, PadFits
  <2> HIDE DEF P
  <2>3. Fits(P \o s) /\ P \o s \in Seq(Dimensions) /\ Len(P \o s) = X + Len(s)
    BY <2>1, <2>2, JoinFits
  <2>4. Len(P \o s) # 0 /\ Len(P \o s) <= X + Y /\ X + Y \in Nat
    BY <1>2, <2>1, <2>3
  <2>5. Fits(Pad(P \o s, X + Y))
    BY <2>3, <2>4, PadFits
  <2> QED BY <2>5 DEF P, f, s
<1>3. Fits(NormalA(p))
  <2>1. ModesK(p) = Of(p.a, ModesK(p))
    BY Parts, OfItself DEF ModesK
  <2>2. NormalA(p) = Pad(Pad(Of(p.a, ModesM(p)), MaxM) \o Of(p.a, ModesK(p)), MaxM + MaxK)
    BY <2>1 DEF NormalA
  <2> QED BY <1>1, <1>2, <2>2, Parts DEF Part
<1>4. Fits(NormalB(p))
  BY <1>1, <1>2, Parts DEF Part, NormalB
<1>5. Fits(NormalE(p))
  <2> DEFINE E == NormalE(p)
             L == MaxM + MaxN
             modes == Sides(p)
             Small == {n \in Nat: n \in 1..L => E[n].len < IndexLimit /\ E[n].stride < IndexLimit}
  <2>1. /\ Follows(E, modes, p.e, L) /\ modes[1].mode \in Modes(p.e)
    BY NormalELaid
  <2>2. L \in Nat /\ DOMAIN E = 1..L
    BY <1>1, <2>1 DEF Follows
  <2>3. \A m \in Modes(p.e): Dim(p.e, m).len < IndexLimit /\ Dim(p.e, m).stride < IndexLimit
    BY Parts, DimFound DEF Modes, Fits
  <2>4. \A i \in 1..L: E[i] = IF modes[i].mode \in Modes(p.e) THEN Dim(p.e, modes[i].mode)
                               ELSE [mode |-> NoMode, len |-> 1, stride |-> E[i - 1].stride]
    <3> HIDE DEF E, L, modes
    <3> QED BY <2>1 DEF Follows
  <2> HIDE DEF E, L, modes
  <2>5. 0 \in Small
    BY <2>2
  <2>6. ASSUME NEW n \in Nat, n \in Small PROVE n + 1 \in Small
    <3> SUFFICES ASSUME n + 1 \in 1..L
                 PROVE  E[n + 1].len < IndexLimit /\ E[n + 1].stride < IndexLimit
      OBVIOUS
    <3>1. CASE modes[n + 1].mode \in Modes(p.e)
      BY <2>3, <2>4, <3>1
    <3>2. CASE modes[n + 1].mode \notin Modes(p.e)
      <4>1. n # 0
        BY <2>1, <3>2
      <4>2. n \in 1..L /\ (n + 1) - 1 = n
        BY <2>2, <4>1
      <4>3. E[n + 1] = [mode |-> NoMode, len |-> 1, stride |-> E[n].stride]
        BY <2>4, <3>2, <4>2
      <4> QED BY <2>6, <4>2, <4>3, IndexAssumption
    <3> QED BY <3>1, <3>2
  <2>7. Nat \subseteq Small
    <3> HIDE DEF Small
    <3> QED BY <2>5, <2>6, NaturalsIn
  <2>8. \A n \in 1..L: n \in Nat
    BY <2>2
  <2>9. Fits(E)
    BY <2>2, <2>7, <2>8 DEF Fits
  <2> QED BY <2>9 DEF E
<1> QED BY <1>3, <1>4, <1>5

\* A kernel gets tensors that fit as they are.
LEMMA FitsGiven ==
  ASSUME NEW p, WellFormed(p), Fits(p.a), Fits(p.b), Fits(p.e)
  PROVE  Visited(Given(p)) = Visited(Normalized(p))
<1>1. ASSUME NEW T \in Seq(Dimensions), Fits(T) PROVE IndexTensor(T) = T
  <2>1. ASSUME NEW i \in DOMAIN T
        PROVE  T[i] = [mode |-> T[i].mode, len |-> Index(T[i].len), stride |-> Index(T[i].stride)]
    <3>1. T[i] \in Dimensions
      OBVIOUS
    <3>2. /\ T[i] = [mode |-> T[i].mode, len |-> T[i].len, stride |-> T[i].stride]
          /\ T[i].len \in Nat /\ T[i].stride \in Nat
      BY <3>1 DEF Dimensions
    <3>3. T[i].len < IndexLimit /\ T[i].stride < IndexLimit
      BY <1>1 DEF Fits
    <3>4. Index(T[i].len) = T[i].len /\ Index(T[i].stride) = T[i].stride
      BY <3>2, <3>3, IndexFits
    <3> QED BY <3>2, <3>4
  <2>2. T = [i \in DOMAIN T |-> T[i]]
    OBVIOUS
  <2> QED BY <2>1, <2>2 DEF IndexTensor
<1>2. /\ NormalA(p) \in Seq(Dimensions) /\ NormalB(p) \in Seq(Dimensions)
      /\ NormalE(p) \in Seq(Dimensions)
  BY NormalALaid, NormalBLaid, NormalELaid DEF Laid
<1>3. Given(p).a = Normalized(p).a /\ Given(p).b = Normalized(p).b /\ Given(p).e = Normalized(p).e
  BY <1>1, <1>2, NormalFits DEF Given, Normalized
<1> QED BY <1>3 DEF Visited

\* The elements multiplied and added are those the program asked for, whatever
\* the order it lists the modes in, their lengths and strides, as long as the
\* lengths and strides fit ck::index_t.
THEOREM NormalSameContraction == Spec => []SameContraction
<1>1. NormalInv => SameContraction
  <2> SUFFICES ASSUME NormalInv, accessed # None, Fits(problem.a), Fits(problem.b), Fits(problem.e)
               PROVE  accessed = Wanted(problem)
    BY DEF SameContraction
  <2>1. WellFormed(problem) /\ accessed = Visited(Given(problem))
    BY InputsAssumption DEF NormalInv
  <2> QED BY <2>1, FitsGiven, VisitedAreWanted
<1> QED BY <1>1, NormalInvHolds, PTL

-----------------------------------------------------------------------------
\* mM, mN and mK are the turns of the loops over M, N and K.
LEMMA DimsCountLoops ==
  ASSUME NEW p, WellFormed(p)
  PROVE  /\ IsFiniteSet(LoopM(p)) /\ Normalized(p).dims.m = Cardinality(LoopM(p))
         /\ IsFiniteSet(LoopN(p)) /\ Normalized(p).dims.n = Cardinality(LoopN(p))
         /\ IsFiniteSet(LoopK(p)) /\ Normalized(p).dims.k = Cardinality(LoopK(p))
<1> DEFINE A == NormalA(p)
           B == NormalB(p)
           E == NormalE(p)
<1>1. ASSUME NEW k, NEW l, NEW dims, NEW lengths, NEW X,
             LaidLengths(k, dims, lengths, X), LaidLengths(l, dims, lengths, X)
      PROVE  k = l
  <2>1. k \in Seq(Nat) /\ l \in Seq(Nat) /\ Len(k) = Len(l) /\ \A i \in 1..Len(k): k[i] = l[i]
    BY <1>1 DEF LaidLengths
  <2> QED BY <2>1
<1>2. /\ LengthsOf(A, 1, MaxM) = LengthsOf(E, 1, MaxM)
      /\ LengthsOf(B, 1, MaxN) = LengthsOf(E, MaxM + 1, MaxM + MaxN)
  BY <1>1, LoopsLaid
<1>3. /\ LengthsOf(E, 1, MaxM) \in Seq(Nat) /\ LengthsOf(E, MaxM + 1, MaxM + MaxN) \in Seq(Nat)
      /\ LengthsOf(A, MaxM + 1, MaxM + MaxK) \in Seq(Nat)
  BY LoopsLaid DEF LaidLengths
<1>4. /\ Normalized(p).dims.m = ElementsFromLengths(LengthsOf(A, 1, MaxM))
      /\ Normalized(p).dims.n = ElementsFromLengths(LengthsOf(B, 1, MaxN))
      /\ Normalized(p).dims.k = ElementsFromLengths(LengthsOf(A, MaxM + 1, MaxM + MaxK))
  BY DEF Normalized, Extents, Extent
<1>5. /\ LoopM(p) = Coordinates(LengthsOf(E, 1, MaxM))
      /\ LoopN(p) = Coordinates(LengthsOf(E, MaxM + 1, MaxM + MaxN))
      /\ LoopK(p) = Coordinates(LengthsOf(A, MaxM + 1, MaxM + MaxK))
  BY DEF LoopM, LoopN, LoopK, Loops
<1> HIDE DEF A, B, E
<1> QED BY <1>2, <1>3, <1>4, <1>5, CoordinatesCount

\* Where no two elements share an offset, the offset tells the values.
LEMMA ApartValues ==
  ASSUME NEW T, Tensor(T), Apart(T), NEW x, NEW y,
         \A m \in Modes(T): x[m] \in Nat /\ x[m] < Dim(T, m).len,
         \A m \in Modes(T): y[m] \in Nat /\ y[m] < Dim(T, m).len,
         At(T, x) = At(T, y)
  PROVE  \A m \in Modes(T): x[m] = y[m]
<1> DEFINE L == Len(T)
           lens == [i \in DOMAIN T |-> T[i].len]
           Of1(z) == [i \in DOMAIN T |-> z[T[i].mode]]
<1>1. T \in Seq(Dimensions) /\ DOMAIN T = 1..L /\ L \in Nat
  BY DEF Tensor
<1>2. \A i \in 1..L: T[i].len \in Nat /\ T[i].mode \in Modes(T) /\ Dim(T, T[i].mode) = T[i]
  <2>1. \A d \in Dimensions: d.len \in Nat
    BY DEF Dimensions
  <2>2. \A i \in 1..L: T[i] \in Dimensions
    BY <1>1
  <2>3. \A i \in 1..L: T[i].mode \in Modes(T) /\ Dim(T, T[i].mode) = T[i]
    BY <1>1, DimFound DEF Modes
  <2> QED BY <2>1, <2>2, <2>3
<1> HIDE DEF L
<1>3. lens \in Seq(Nat) /\ Len(lens) = L /\ \A i \in 1..L: lens[i] = T[i].len
  <2>1. lens \in [1..L -> Nat]
    BY <1>1, <1>2
  <2> QED BY <1>1, <2>1
<1> HIDE DEF lens
<1>4. ASSUME NEW z, \A m \in Modes(T): z[m] \in Nat /\ z[m] < Dim(T, m).len
      PROVE  Of1(z) \in Coordinates(lens)
  <2>1. \A i \in 1..L: Of1(z)[i] \in Nat /\ Of1(z)[i] < lens[i]
    BY <1>1, <1>2, <1>3, <1>4
  <2>2. Of1(z) = [i \in 1..L |-> Of1(z)[i]]
    BY <1>1
  <2> HIDE DEF Of1
  <2>3. Of1(z) \in [1..L -> Nat]
    BY <2>1, <2>2
  <2>4. Of1(z) \in Seq(Nat) /\ Len(Of1(z)) = L
    BY <1>1, <2>3
  <2> QED BY <1>3, <2>1, <2>4, CoordinatesAre
<1>5. Of1(x) \in Coordinates(lens) /\ Of1(y) \in Coordinates(lens)
  BY <1>4
<1>6. Offset(T, Of1(x)) = Offset(T, Of1(y))
  BY DEF At
<1>7. \A i \in 1..L: Of1(x)[i] = x[T[i].mode] /\ Of1(y)[i] = y[T[i].mode]
  BY <1>1
<1> HIDE DEF Of1
<1>8. Of1(x) = Of1(y)
  BY <1>5, <1>6 DEF Apart, lens
<1>9. \A i \in 1..L: x[T[i].mode] = y[T[i].mode]
  BY <1>7, <1>8
<1> QED BY <1>1, <1>9 DEF Modes

LEMMA ValuesApart ==
  ASSUME NEW p, WellFormed(p), NEW x \in Values(p), NEW y \in Values(p)
  PROVE  /\ Apart(p.e) /\ At(p.e, x) = At(p.e, y) =>
              VectorM(x, p) = VectorM(y, p) /\ VectorN(x, p) = VectorN(y, p)
         /\ Apart(p.a) /\ Apart(p.e) /\ Element(x, p) = Element(y, p) => x = y
<1>1. Tensor(p.a) /\ Tensor(p.e) /\ Modes(p.e) \subseteq Modes(p.a) \cup Modes(p.b)
      /\ Modes(p.b) \subseteq Modes(p.a) \cup Modes(p.e)
  BY Parts DEF WellFormed
<1>2. /\ \A m \in Modes(p.a) \cup Modes(p.b): x[m] \in Nat /\ x[m] < Lengths(p)[m]
      /\ \A m \in Modes(p.a) \cup Modes(p.b): y[m] \in Nat /\ y[m] < Lengths(p)[m]
      /\ x = [m \in Modes(p.a) \cup Modes(p.b) |-> x[m]]
      /\ y = [m \in Modes(p.a) \cup Modes(p.b) |-> y[m]]
  BY ValuesAre DEF Valued
<1>3. /\ \A m \in Modes(p.a): Dim(p.a, m).len = Lengths(p)[m]
      /\ \A m \in Modes(p.e): Dim(p.e, m).len = Lengths(p)[m]
  BY LengthsAgree
<1>4. ASSUME Apart(p.e), At(p.e, x) = At(p.e, y) PROVE \A m \in Modes(p.e): x[m] = y[m]
  <2>1. \A m \in Modes(p.e): /\ x[m] \in Nat /\ x[m] < Dim(p.e, m).len
                             /\ y[m] \in Nat /\ y[m] < Dim(p.e, m).len
    BY <1>1, <1>2, <1>3
  <2> QED BY <1>1, <1>4, <2>1, ApartValues
<1>5. ASSUME Apart(p.a), At(p.a, x) = At(p.a, y) PROVE \A m \in Modes(p.a): x[m] = y[m]
  <2>1. \A m \in Modes(p.a): /\ x[m] \in Nat /\ x[m] < Dim(p.a, m).len
                             /\ y[m] \in Nat /\ y[m] < Dim(p.a, m).len
    BY <1>2, <1>3
  <2> QED BY <1>1, <1>5, <2>1, ApartValues
<1>6. ASSUME Apart(p.e), At(p.e, x) = At(p.e, y)
      PROVE  VectorM(x, p) = VectorM(y, p) /\ VectorN(x, p) = VectorN(y, p)
  <2>1. /\ Tensor(ModesM(p)) /\ Tensor(ModesN(p))
        /\ Modes(ModesM(p)) \cup Modes(ModesN(p)) = Modes(p.e)
    BY AllSplit DEF Splits
  <2>2. ASSUME NEW dims, Tensor(dims), Modes(dims) \subseteq Modes(p.e), NEW X
        PROVE  Vector(x, dims, X) = Vector(y, dims, X)
    <3>1. \A i \in 1..X: i <= Len(dims) => dims[i].mode \in Modes(p.e)
      <4> SUFFICES ASSUME NEW i \in 1..X, i <= Len(dims) PROVE dims[i].mode \in Modes(p.e)
        OBVIOUS
      <4>1. i \in 1..Len(dims) /\ DOMAIN dims = 1..Len(dims)
        BY <2>2 DEF Tensor
      <4> QED BY <2>2, <4>1 DEF Modes
    <3> QED BY <1>4, <1>6, <3>1 DEF Vector
  <2> QED BY <2>1, <2>2 DEF VectorM, VectorN
<1>7. ASSUME Apart(p.a), Apart(p.e), Element(x, p) = Element(y, p) PROVE x = y
  <2>1. At(p.a, x) = At(p.a, y) /\ At(p.e, x) = At(p.e, y)
    BY <1>7 DEF Element
  <2>2. \A m \in Modes(p.a) \cup Modes(p.b): x[m] = y[m]
    BY <1>1, <1>4, <1>5, <1>7, <2>1
  <2> QED BY <1>2, <2>2
<1> QED BY <1>6, <1>7

LEMMA LoopsNotEmpty ==
  ASSUME NEW p, WellFormed(p)
  PROVE  \E k: k \in LoopK(p)
<1> DEFINE x == [m \in Modes(p.a) \cup Modes(p.b) |-> 0]
<1>1. Valued(x, p)
  <2>1. \A m \in Modes(p.a) \cup Modes(p.b): Lengths(p)[m] \in Nat \ {0} /\ x[m] = 0
    BY LengthsAgree
  <2>2. x = [m \in Modes(p.a) \cup Modes(p.b) |-> x[m]]
    OBVIOUS
  <2> HIDE DEF x
  <2>3. \A l \in Nat \ {0}: 0 \in Nat /\ 0 < l
    OBVIOUS
  <2> QED BY <2>1, <2>2, <2>3 DEF Valued
<1> HIDE DEF x
<1>2. x \in Values(p)
  BY <1>1, ValuesAre
<1> QED BY <1>2, ValuesLoop

LEMMA WantedCounted ==
  ASSUME NEW p, WellFormed(p), Apart(p.a), Apart(p.e)
  PROVE  Cardinality(Wanted(p))
           = (Cardinality(LoopM(p)) * Cardinality(LoopN(p))) * Cardinality(LoopK(p))
<1> DEFINE MN == LoopM(p) \X LoopN(p)
           S == MN \X LoopK(p)
           f == [q \in S |-> Turn(q[1][1], q[1][2], q[2], p)]
<1>1. IsFiniteSet(LoopM(p)) /\ IsFiniteSet(LoopN(p)) /\ IsFiniteSet(LoopK(p))
  BY DimsCountLoops
<1>2. IsFiniteSet(MN) /\ Cardinality(MN) = Cardinality(LoopM(p)) * Cardinality(LoopN(p))
  BY <1>1, FS_Product
<1>3. IsFiniteSet(S) /\ Cardinality(S) = Cardinality(MN) * Cardinality(LoopK(p))
  <2> HIDE DEF MN
  <2> QED BY <1>1, <1>2, FS_Product
<1>4. Wanted(p) = {Turn(m, j, k, p) : m \in LoopM(p), j \in LoopN(p), k \in LoopK(p)}
  <2>1. Wanted(p) = Visited(Normalized(p))
    BY VisitedAreWanted
  <2> QED BY <2>1 DEF Visited, Normalized, Turn, LoopM, LoopN, LoopK
<1>5. ASSUME NEW q \in S
      PROVE  \E x \in Values(p):
               /\ VectorM(x, p) = q[1][1] /\ VectorN(x, p) = q[1][2] /\ VectorK(x, p) = q[2]
               /\ Turn(q[1][1], q[1][2], q[2], p) = Element(x, p)
  <2>1. q[1][1] \in LoopM(p) /\ q[1][2] \in LoopN(p) /\ q[2] \in LoopK(p)
    OBVIOUS
  <2>2. PICK x \in Values(p):
          VectorM(x, p) = q[1][1] /\ VectorN(x, p) = q[1][2] /\ VectorK(x, p) = q[2]
    BY <2>1, ValuesLoop
  <2>3. Turn(VectorM(x, p), VectorN(x, p), VectorK(x, p), p) = Element(x, p)
    BY ElementsMeet DEF Turn, Element
  <2> QED BY <2>2, <2>3
<1>6. ASSUME NEW q \in S, NEW r \in S, f[q] = f[r] PROVE q = r
  <2>1. PICK x \in Values(p):
          /\ VectorM(x, p) = q[1][1] /\ VectorN(x, p) = q[1][2] /\ VectorK(x, p) = q[2]
          /\ Turn(q[1][1], q[1][2], q[2], p) = Element(x, p)
    BY <1>5
  <2>2. PICK y \in Values(p):
          /\ VectorM(y, p) = r[1][1] /\ VectorN(y, p) = r[1][2] /\ VectorK(y, p) = r[2]
          /\ Turn(r[1][1], r[1][2], r[2], p) = Element(y, p)
    BY <1>5
  <2>3. Element(x, p) = Element(y, p)
    BY <1>6, <2>1, <2>2
  <2>4. x = y
    BY <2>3, ValuesApart
  <2>5. q[1][1] = r[1][1] /\ q[1][2] = r[1][2] /\ q[2] = r[2]
    BY <2>1, <2>2, <2>4
  <2>6. q = <<<<q[1][1], q[1][2]>>, q[2]>> /\ r = <<<<r[1][1], r[1][2]>>, r[2]>>
    OBVIOUS
  <2> QED BY <2>5, <2>6
<1>7. f \in [S -> Wanted(p)]
  <2>1. \A q \in S: q[1][1] \in LoopM(p) /\ q[1][2] \in LoopN(p) /\ q[2] \in LoopK(p)
    OBVIOUS
  <2>2. \A q \in S: Turn(q[1][1], q[1][2], q[2], p) \in Wanted(p)
    BY <1>4, <2>1
  <2> QED BY <2>2
<1>8. ASSUME NEW v \in Wanted(p) PROVE \E q \in S: f[q] = v
  <2>1. PICK m \in LoopM(p), j \in LoopN(p), k \in LoopK(p): v = Turn(m, j, k, p)
    BY <1>4
  <2>2. <<<<m, j>>, k>> \in S
    OBVIOUS
  <2>3. f[<<<<m, j>>, k>>] = v
    BY <2>1, <2>2
  <2> QED BY <2>2, <2>3
<1> HIDE DEF f, S, MN
<1>9. f \in Bijection(S, Wanted(p))
  BY <1>6, <1>7, <1>8 DEF Bijection, Injection, Surjection, IsInjective
<1>10. Cardinality(Wanted(p)) = Cardinality(S)
  BY <1>3, <1>9, FS_Bijection DEF ExistsBijection
<1> QED BY <1>2, <1>3, <1>10

LEMMA OutputsCounted ==
  ASSUME NEW p, WellFormed(p), Apart(p.e)
  PROVE  Cardinality({v[3] : v \in Wanted(p)}) = Cardinality(LoopM(p)) * Cardinality(LoopN(p))
<1> DEFINE S == LoopM(p) \X LoopN(p)
           O == {v[3] : v \in Wanted(p)}
           f == [q \in S |-> Offset(NormalE(p), q[1] \o q[2])]
<1>1. IsFiniteSet(LoopM(p)) /\ IsFiniteSet(LoopN(p))
  BY DimsCountLoops
<1>2. IsFiniteSet(S) /\ Cardinality(S) = Cardinality(LoopM(p)) * Cardinality(LoopN(p))
  BY <1>1, FS_Product
<1>3. O = {At(p.e, x) : x \in Values(p)}
  <2>1. Wanted(p) = {Element(x, p) : x \in Values(p)} /\ \A x: Element(x, p)[3] = At(p.e, x)
    BY DEF Wanted, Element
  <2>2. ASSUME NEW v \in O PROVE \E x \in Values(p): v = At(p.e, x)
    BY <2>1
  <2>3. ASSUME NEW x \in Values(p) PROVE At(p.e, x) \in O
    <3>1. Element(x, p) \in Wanted(p) /\ Element(x, p)[3] = At(p.e, x)
      BY <2>1
    <3> QED BY <3>1
  <2> HIDE DEF O
  <2> QED BY <2>2, <2>3
<1>4. \A x \in Values(p): /\ VectorM(x, p) \in LoopM(p) /\ VectorN(x, p) \in LoopN(p)
                          /\ Offset(NormalE(p), VectorM(x, p) \o VectorN(x, p)) = At(p.e, x)
  BY ValuesLoop, ElementsMeet
<1>5. ASSUME NEW q \in S
      PROVE  \E x \in Values(p): /\ VectorM(x, p) = q[1] /\ VectorN(x, p) = q[2]
                                 /\ Offset(NormalE(p), q[1] \o q[2]) = At(p.e, x)
  <2>1. q[1] \in LoopM(p) /\ q[2] \in LoopN(p)
    OBVIOUS
  <2>2. PICK k: k \in LoopK(p)
    BY LoopsNotEmpty
  <2>3. PICK x \in Values(p): VectorM(x, p) = q[1] /\ VectorN(x, p) = q[2]
    BY <2>1, <2>2, ValuesLoop
  <2> QED BY <1>4, <2>3
<1>6. ASSUME NEW q \in S, NEW r \in S, f[q] = f[r] PROVE q = r
  <2>1. PICK x \in Values(p): /\ VectorM(x, p) = q[1] /\ VectorN(x, p) = q[2]
                              /\ Offset(NormalE(p), q[1] \o q[2]) = At(p.e, x)
    BY <1>5
  <2>2. PICK y \in Values(p): /\ VectorM(y, p) = r[1] /\ VectorN(y, p) = r[2]
                              /\ Offset(NormalE(p), r[1] \o r[2]) = At(p.e, y)
    BY <1>5
  <2>3. At(p.e, x) = At(p.e, y)
    BY <1>6, <2>1, <2>2
  <2>4. VectorM(x, p) = VectorM(y, p) /\ VectorN(x, p) = VectorN(y, p)
    BY <2>3, ValuesApart
  <2>5. q = <<q[1], q[2]>> /\ r = <<r[1], r[2]>>
    OBVIOUS
  <2> QED BY <2>1, <2>2, <2>4, <2>5
<1>7. f \in [S -> O]
  <2>1. \A q \in S: Offset(NormalE(p), q[1] \o q[2]) \in O
    BY <1>3, <1>5
  <2> HIDE DEF O
  <2> QED BY <2>1
<1>8. ASSUME NEW v \in O PROVE \E q \in S: f[q] = v
  <2>1. PICK x \in Values(p): v = At(p.e, x)
    BY <1>3
  <2>2. <<VectorM(x, p), VectorN(x, p)>> \in S
    BY <1>4
  <2>3. f[<<VectorM(x, p), VectorN(x, p)>>] = v
    BY <1>4, <2>1, <2>2
  <2> QED BY <2>2, <2>3
<1> HIDE DEF f, S, O
<1>9. f \in Bijection(S, O)
  BY <1>6, <1>7, <1>8 DEF Bijection, Injection, Surjection, IsInjective
<1>10. Cardinality(O) = Cardinality(S)
  BY <1>2, <1>9, FS_Bijection DEF ExistsBijection
<1> QED BY <1>2, <1>10 DEF O

\* For tensors whose elements are apart and whose mM, mN and mK fit, mM * mN counts the outputs and mK the
\* products that are added in each.
THEOREM NormalDimsCountWork ==
  ASSUME \A p \in Inputs: Apart(p.a) /\ Apart(p.e)
  PROVE  Spec => []DimsCountWork
<1>1. NormalInv => DimsCountWork
  <2> DEFINE extents == Extents(NormalA(problem), NormalB(problem))
  <2> SUFFICES ASSUME NormalInv, normal # None, FitsIndex(extents)
               PROVE  /\ normal.dims.m * normal.dims.n
                           = Cardinality({v[3] : v \in Wanted(problem)})
                      /\ normal.dims.m * normal.dims.n * normal.dims.k
                           = Cardinality(Wanted(problem))
    BY DEF DimsCountWork
  <2>1. WellFormed(problem) /\ Apart(problem.a) /\ Apart(problem.e)
    BY InputsAssumption DEF NormalInv
  <2>2. extents = Normalized(problem).dims /\ DOMAIN extents = {"m", "n", "k"}
    BY DEF Normalized, Extents
  <2>3. normal.dims = IndexVector(extents)
    BY DEF NormalInv, Given, ProblemDims
  <2>4. extents.m \in Nat /\ extents.n \in Nat /\ extents.k \in Nat
    BY <2>1, <2>2, DimsCountLoops, FS_CardinalityType
  <2> HIDE DEF extents
  <2>5. extents.m < IndexLimit /\ extents.n < IndexLimit /\ extents.k < IndexLimit
    BY <2>2 DEF FitsIndex
  <2>6. /\ normal.dims.m = extents.m /\ normal.dims.n = extents.n /\ normal.dims.k = extents.k
    BY <2>2, <2>3, <2>4, <2>5, IndexFits DEF IndexVector
  <2> QED BY <2>1, <2>2, <2>6, DimsCountLoops, WantedCounted, OutputsCounted
<1> QED BY <1>1, NormalInvHolds, PTL
=============================================================================

------------------------- MODULE KernelSelectionProofs -------------------------
(***************************************************************************)
(* Proofs about KernelSelection.tla: the queries of a plan find exactly the   *)
(* kernels of its operation and types, whatever contractions programs         *)
(* describe, and the files that are kept in step by hand agree.              *)
(***************************************************************************)
EXTENDS KernelSelection, TensorLayoutProofs, SequenceTheorems, FiniteSetTheorems

\* What a query knows after solutions were added.
LEMMA Added ==
  ASSUME NEW q, NEW solutions
  PROVE  /\ AddSolutions(q, solutions).all = q.all \cup solutions
         /\ \A key: Bucket(AddSolutions(q, solutions), key)
                      = Bucket(q, key) \cup {k \in solutions: key \in Keys(Params(k))}
<1> DEFINE keysOf == [k \in solutions |-> Keys(Params(k))]
           hash == AddSolutions(q, solutions).hash
           S(key) == {k \in solutions: key \in Keys(Params(k))}
<1>1. /\ AddSolutions(q, solutions).all = q.all \cup solutions
      /\ DOMAIN hash = DOMAIN q.hash \cup UNION Range(keysOf)
      /\ \A key \in DOMAIN hash: hash[key] = Bucket(q, key) \cup S(key)
  <2> HIDE DEF keysOf, S
  <2>1. AddSolutions(q, solutions)
          = [all |-> q.all \cup solutions,
             hash |-> [y \in DOMAIN q.hash \cup UNION Range(keysOf) |->
                         Bucket(q, y) \cup {k \in solutions: y \in keysOf[k]}]]
    BY DEF AddSolutions, keysOf
  <2>2. \A k \in solutions: keysOf[k] = Keys(Params(k))
    BY DEF keysOf
  <2>3. \A key: {k \in solutions: key \in keysOf[k]} = S(key)
    BY <2>2 DEF S
  <2> QED BY <2>1, <2>3
<1>2. \A k \in solutions: Keys(Params(k)) \in Range(keysOf)
  BY DEF Range
<1> HIDE DEF hash, keysOf
<1>3. ASSUME NEW key
      PROVE  Bucket(AddSolutions(q, solutions), key) = Bucket(q, key) \cup S(key)
  <2>1. CASE key \in DOMAIN hash
    BY <1>1, <2>1 DEF Bucket, hash
  <2>2. CASE key \notin DOMAIN hash
    <3>1. S(key) = {} /\ key \notin DOMAIN q.hash
      BY <1>1, <1>2, <2>2
    <3> QED BY <2>2, <3>1 DEF Bucket, hash
  <2> QED BY <2>1, <2>2
<1> QED BY <1>1, <1>3

\* Everything known is filed under its keys, and nothing else.
WellFiled(q) == \A key: Bucket(q, key) = {k \in q.all: key \in Keys(Params(k))}

LEMMA EmptyWellFiled == WellFiled(EmptyQuery)
BY DEF WellFiled, EmptyQuery, Bucket

LEMMA AddedWellFiled ==
  ASSUME NEW q, NEW solutions, WellFiled(q)
  PROVE  WellFiled(AddSolutions(q, solutions))
<1>1. ASSUME NEW key
      PROVE  Bucket(AddSolutions(q, solutions), key)
               = {k \in q.all \cup solutions: key \in Keys(Params(k))}
  BY Added DEF WellFiled
<1> QED BY <1>1, Added DEF WellFiled

\* The registry holds the solutions of every batch, filed under their keys.
LEMMA BatchesRegistered ==
  ASSUME NEW batches, Len(batches) \in Nat
  PROVE  /\ RegisterSolutions(batches).all = UNION {batches[n] : n \in 1..Len(batches)}
         /\ WellFiled(RegisterSolutions(batches))
<1> DEFINE After(f, N) ==
             f = [n \in 0..N |-> IF n = 0 THEN EmptyQuery ELSE AddSolutions(f[n - 1], batches[n])]
           Exists == {N \in Nat: \E f: After(f, N)}
           L == Len(batches)
<1>1. 0 \in Exists
  <2>1. After([n \in 0..0 |-> EmptyQuery], 0)
    OBVIOUS
  <2> QED BY <2>1
<1>2. ASSUME NEW N \in Nat, N \in Exists PROVE N + 1 \in Exists
  <2>1. PICK f: After(f, N)
    BY <1>2
  <2> DEFINE g == [n \in 0..N + 1 |-> IF n <= N THEN f[n] ELSE AddSolutions(f[N], batches[N + 1])]
  <2>2. \A n \in 1..N + 1: n - 1 \in 0..N /\ g[n - 1] = f[n - 1]
    OBVIOUS
  <2>3. \A n \in 0..N + 1: g[n] = IF n = 0 THEN EmptyQuery ELSE AddSolutions(g[n - 1], batches[n])
    <3>1. f[0] = EmptyQuery /\ \A n \in 1..N: f[n] = AddSolutions(f[n - 1], batches[n])
      BY <2>1
    <3>2. g[0] = EmptyQuery
      BY <3>1
    <3>3. \A n \in 1..N: g[n] = AddSolutions(g[n - 1], batches[n])
      BY <2>2, <3>1
    <3>4. g[N + 1] = AddSolutions(g[N + 1 - 1], batches[N + 1])
      BY <2>2
    <3> HIDE DEF g
    <3> QED BY <3>2, <3>3, <3>4
  <2>4. After(g, N + 1)
    BY <2>3
  <2>5. N + 1 \in Nat
    OBVIOUS
  <2> HIDE DEF After
  <2> QED BY <2>4, <2>5
<1>3. Nat \subseteq Exists
  <2> HIDE DEF Exists
  <2> QED BY <1>1, <1>2, NaturalsIn
<1> DEFINE after == CHOOSE f: After(f, L)
<1>4. After(after, L)
  BY <1>3
<1>5. RegisterSolutions(batches) = after[L]
  BY DEF RegisterSolutions
<1> HIDE DEF after
<1>6. after[0] = EmptyQuery /\ \A n \in 1..L: after[n] = AddSolutions(after[n - 1], batches[n])
  BY <1>4
<1> DEFINE Filed == {N \in Nat: N <= L => /\ after[N].all = UNION {batches[n] : n \in 1..N}
                                           /\ WellFiled(after[N])}
<1>7. 0 \in Filed
  BY <1>6, EmptyWellFiled DEF EmptyQuery
<1>8. ASSUME NEW N \in Nat, N \in Filed PROVE N + 1 \in Filed
  <2> SUFFICES ASSUME N + 1 <= L
               PROVE  /\ after[N + 1].all = UNION {batches[n] : n \in 1..N + 1}
                      /\ WellFiled(after[N + 1])
    OBVIOUS
  <2>1. after[N + 1] = AddSolutions(after[N], batches[N + 1])
    BY <1>6
  <2>2. after[N + 1].all = after[N].all \cup batches[N + 1]
    BY <2>1, Added
  <2>3. after[N].all = UNION {batches[n] : n \in 1..N} /\ WellFiled(after[N])
    BY <1>8
  <2>4. 1..N + 1 = (1..N) \cup {N + 1}
    OBVIOUS
  <2>5. WellFiled(after[N + 1])
    BY <2>1, <2>3, AddedWellFiled
  <2> QED BY <2>2, <2>3, <2>4, <2>5
<1>9. Nat \subseteq Filed
  <2> HIDE DEF Filed
  <2> QED BY <1>7, <1>8, NaturalsIn
<1> QED BY <1>5, <1>9

-----------------------------------------------------------------------------
\* The files of one operation and one combination of types differ in the
\* layout only.
Accumulator(compute) == IF compute \in {"F64", "CF64"} THEN "F64" ELSE "F32"
Wide(type) == type \in {"F64", "CF64"}
FamiliesOf(type) ==
  IF Wide(type) THEN {"f64_kk", "f64_kn", "f64_mk", "f64_mn"} ELSE {"kk", "kn", "mk", "mn"}
Shuffle(type) == CASE type = "CF32" -> "F32" [] type = "CF64" -> "F64" [] OTHER -> type

Files(op, t) ==
  {Xdl(family, t.a, t.b, Accumulator(t.compute), Shuffle(t.a), t.d, t.e, t.compute, op) :
     family \in FamiliesOf(t.a)}

BilinearTypes ==
  {Types("BF16", "BF16", "BF16", "BF16", "F32"),
   Types("F16", "F16", "F16", "F16", "F32"),
   Types("F32", "F32", "F32", "F32", "BF16"),
   Types("F32", "F32", "F32", "F32", "F16"),
   Types("F32", "F32", "F32", "F32", "F32"),
   Types("F64", "F64", "F64", "F64", "F32"),
   Types("F64", "F64", "F64", "F64", "F64")}
ScaleTypes ==
  {Types("BF16", "BF16", "none", "BF16", "F32"),
   Types("F16", "F16", "none", "F16", "F32"),
   Types("F32", "F32", "none", "F32", "BF16"),
   Types("F32", "F32", "none", "F32", "F16"),
   Types("F32", "F32", "none", "F32", "F32"),
   Types("F64", "F64", "none", "F64", "F32"),
   Types("F64", "F64", "none", "F64", "F64")}

\* The kernels of a combination are the four of its files.
LEMMA BilinearFiles ==
  /\ Files("Bilinear", Types("BF16", "BF16", "BF16", "BF16", "F32"))
       = {bilinear_bf16_compute_f32_kknn, bilinear_bf16_compute_f32_knnn,
          bilinear_bf16_compute_f32_mknn, bilinear_bf16_compute_f32_mnnn}
  /\ Files("Bilinear", Types("F16", "F16", "F16", "F16", "F32"))
       = {bilinear_f16_compute_f32_kknn, bilinear_f16_compute_f32_knnn,
          bilinear_f16_compute_f32_mknn, bilinear_f16_compute_f32_mnnn}
  /\ Files("Bilinear", Types("F32", "F32", "F32", "F32", "BF16"))
       = {bilinear_f32_compute_bf16_kknn, bilinear_f32_compute_bf16_knnn,
          bilinear_f32_compute_bf16_mknn, bilinear_f32_compute_bf16_mnnn}
  /\ Files("Bilinear", Types("F32", "F32", "F32", "F32", "F16"))
       = {bilinear_f32_compute_f16_kknn, bilinear_f32_compute_f16_knnn,
          bilinear_f32_compute_f16_mknn, bilinear_f32_compute_f16_mnnn}
  /\ Files("Bilinear", Types("F32", "F32", "F32", "F32", "F32"))
       = {bilinear_f32_kknn, bilinear_f32_knnn,
          bilinear_f32_mknn, bilinear_f32_mnnn}
  /\ Files("Bilinear", Types("F64", "F64", "F64", "F64", "F32"))
       = {bilinear_f64_compute_f32_kknn, bilinear_f64_compute_f32_knnn,
          bilinear_f64_compute_f32_mknn, bilinear_f64_compute_f32_mnnn}
  /\ Files("Bilinear", Types("F64", "F64", "F64", "F64", "F64"))
       = {bilinear_f64_kknn, bilinear_f64_knnn,
          bilinear_f64_mknn, bilinear_f64_mnnn}
<1>1. Files("Bilinear", Types("BF16", "BF16", "BF16", "BF16", "F32"))
       = {bilinear_bf16_compute_f32_kknn, bilinear_bf16_compute_f32_knnn,
          bilinear_bf16_compute_f32_mknn, bilinear_bf16_compute_f32_mnnn}
  BY DEF Files, Types, Shuffle, Accumulator, Wide, FamiliesOf, bilinear_bf16_compute_f32_kknn,
    bilinear_bf16_compute_f32_knnn, bilinear_bf16_compute_f32_mknn, bilinear_bf16_compute_f32_mnnn
<1>2. Files("Bilinear", Types("F16", "F16", "F16", "F16", "F32"))
       = {bilinear_f16_compute_f32_kknn, bilinear_f16_compute_f32_knnn,
          bilinear_f16_compute_f32_mknn, bilinear_f16_compute_f32_mnnn}
  BY DEF Files, Types, Shuffle, Accumulator, Wide, FamiliesOf, bilinear_f16_compute_f32_kknn,
    bilinear_f16_compute_f32_knnn, bilinear_f16_compute_f32_mknn, bilinear_f16_compute_f32_mnnn
<1>3. Files("Bilinear", Types("F32", "F32", "F32", "F32", "BF16"))
       = {bilinear_f32_compute_bf16_kknn, bilinear_f32_compute_bf16_knnn,
          bilinear_f32_compute_bf16_mknn, bilinear_f32_compute_bf16_mnnn}
  BY DEF Files, Types, Shuffle, Accumulator, Wide, FamiliesOf, bilinear_f32_compute_bf16_kknn,
    bilinear_f32_compute_bf16_knnn, bilinear_f32_compute_bf16_mknn, bilinear_f32_compute_bf16_mnnn
<1>4. Files("Bilinear", Types("F32", "F32", "F32", "F32", "F16"))
       = {bilinear_f32_compute_f16_kknn, bilinear_f32_compute_f16_knnn,
          bilinear_f32_compute_f16_mknn, bilinear_f32_compute_f16_mnnn}
  BY DEF Files, Types, Shuffle, Accumulator, Wide, FamiliesOf, bilinear_f32_compute_f16_kknn,
    bilinear_f32_compute_f16_knnn, bilinear_f32_compute_f16_mknn, bilinear_f32_compute_f16_mnnn
<1>5. Files("Bilinear", Types("F32", "F32", "F32", "F32", "F32"))
       = {bilinear_f32_kknn, bilinear_f32_knnn,
          bilinear_f32_mknn, bilinear_f32_mnnn}
  BY DEF Files, Types, Shuffle, Accumulator, Wide, FamiliesOf, bilinear_f32_kknn,
    bilinear_f32_knnn, bilinear_f32_mknn, bilinear_f32_mnnn
<1>6. Files("Bilinear", Types("F64", "F64", "F64", "F64", "F32"))
       = {bilinear_f64_compute_f32_kknn, bilinear_f64_compute_f32_knnn,
          bilinear_f64_compute_f32_mknn, bilinear_f64_compute_f32_mnnn}
  BY DEF Files, Types, Shuffle, Accumulator, Wide, FamiliesOf, bilinear_f64_compute_f32_kknn,
    bilinear_f64_compute_f32_knnn, bilinear_f64_compute_f32_mknn, bilinear_f64_compute_f32_mnnn
<1>7. Files("Bilinear", Types("F64", "F64", "F64", "F64", "F64"))
       = {bilinear_f64_kknn, bilinear_f64_knnn,
          bilinear_f64_mknn, bilinear_f64_mnnn}
  BY DEF Files, Types, Shuffle, Accumulator, Wide, FamiliesOf, bilinear_f64_kknn,
    bilinear_f64_knnn, bilinear_f64_mknn, bilinear_f64_mnnn
<1> QED BY <1>1, <1>2, <1>3, <1>4, <1>5, <1>6, <1>7

LEMMA ScaleFiles ==
  /\ Files("Scale", Types("BF16", "BF16", "none", "BF16", "F32"))
       = {scale_bf16_compute_f32_kkn, scale_bf16_compute_f32_knn,
          scale_bf16_compute_f32_mkn, scale_bf16_compute_f32_mnn}
  /\ Files("Scale", Types("F16", "F16", "none", "F16", "F32"))
       = {scale_f16_compute_f32_kkn, scale_f16_compute_f32_knn,
          scale_f16_compute_f32_mkn, scale_f16_compute_f32_mnn}
  /\ Files("Scale", Types("F32", "F32", "none", "F32", "BF16"))
       = {scale_f32_compute_bf16_kkn, scale_f32_compute_bf16_knn,
          scale_f32_compute_bf16_mkn, scale_f32_compute_bf16_mnn}
  /\ Files("Scale", Types("F32", "F32", "none", "F32", "F16"))
       = {scale_f32_compute_f16_kkn, scale_f32_compute_f16_knn,
          scale_f32_compute_f16_mkn, scale_f32_compute_f16_mnn}
  /\ Files("Scale", Types("F32", "F32", "none", "F32", "F32"))
       = {scale_f32_kkn, scale_f32_knn,
          scale_f32_mkn, scale_f32_mnn}
  /\ Files("Scale", Types("F64", "F64", "none", "F64", "F32"))
       = {scale_f64_compute_f32_kkn, scale_f64_compute_f32_knn,
          scale_f64_compute_f32_mkn, scale_f64_compute_f32_mnn}
  /\ Files("Scale", Types("F64", "F64", "none", "F64", "F64"))
       = {scale_f64_kkn, scale_f64_knn,
          scale_f64_mkn, scale_f64_mnn}
<1>1. Files("Scale", Types("BF16", "BF16", "none", "BF16", "F32"))
       = {scale_bf16_compute_f32_kkn, scale_bf16_compute_f32_knn,
          scale_bf16_compute_f32_mkn, scale_bf16_compute_f32_mnn}
  BY DEF Files, Types, Shuffle, Accumulator, Wide, FamiliesOf, scale_bf16_compute_f32_kkn,
    scale_bf16_compute_f32_knn, scale_bf16_compute_f32_mkn, scale_bf16_compute_f32_mnn
<1>2. Files("Scale", Types("F16", "F16", "none", "F16", "F32"))
       = {scale_f16_compute_f32_kkn, scale_f16_compute_f32_knn,
          scale_f16_compute_f32_mkn, scale_f16_compute_f32_mnn}
  BY DEF Files, Types, Shuffle, Accumulator, Wide, FamiliesOf, scale_f16_compute_f32_kkn,
    scale_f16_compute_f32_knn, scale_f16_compute_f32_mkn, scale_f16_compute_f32_mnn
<1>3. Files("Scale", Types("F32", "F32", "none", "F32", "BF16"))
       = {scale_f32_compute_bf16_kkn, scale_f32_compute_bf16_knn,
          scale_f32_compute_bf16_mkn, scale_f32_compute_bf16_mnn}
  BY DEF Files, Types, Shuffle, Accumulator, Wide, FamiliesOf, scale_f32_compute_bf16_kkn,
    scale_f32_compute_bf16_knn, scale_f32_compute_bf16_mkn, scale_f32_compute_bf16_mnn
<1>4. Files("Scale", Types("F32", "F32", "none", "F32", "F16"))
       = {scale_f32_compute_f16_kkn, scale_f32_compute_f16_knn,
          scale_f32_compute_f16_mkn, scale_f32_compute_f16_mnn}
  BY DEF Files, Types, Shuffle, Accumulator, Wide, FamiliesOf, scale_f32_compute_f16_kkn,
    scale_f32_compute_f16_knn, scale_f32_compute_f16_mkn, scale_f32_compute_f16_mnn
<1>5. Files("Scale", Types("F32", "F32", "none", "F32", "F32"))
       = {scale_f32_kkn, scale_f32_knn,
          scale_f32_mkn, scale_f32_mnn}
  BY DEF Files, Types, Shuffle, Accumulator, Wide, FamiliesOf, scale_f32_kkn,
    scale_f32_knn, scale_f32_mkn, scale_f32_mnn
<1>6. Files("Scale", Types("F64", "F64", "none", "F64", "F32"))
       = {scale_f64_compute_f32_kkn, scale_f64_compute_f32_knn,
          scale_f64_compute_f32_mkn, scale_f64_compute_f32_mnn}
  BY DEF Files, Types, Shuffle, Accumulator, Wide, FamiliesOf, scale_f64_compute_f32_kkn,
    scale_f64_compute_f32_knn, scale_f64_compute_f32_mkn, scale_f64_compute_f32_mnn
<1>7. Files("Scale", Types("F64", "F64", "none", "F64", "F64"))
       = {scale_f64_kkn, scale_f64_knn,
          scale_f64_mkn, scale_f64_mnn}
  BY DEF Files, Types, Shuffle, Accumulator, Wide, FamiliesOf, scale_f64_kkn,
    scale_f64_knn, scale_f64_mkn, scale_f64_mnn
<1> QED BY <1>1, <1>2, <1>3, <1>4, <1>5, <1>6, <1>7

LEMMA BilinearComplexFiles ==
  /\ Files("BilinearComplex", Types("CF32", "CF32", "CF32", "CF32", "CF32"))
       = {bilinear_cf32_compute_cf32_kknn, bilinear_cf32_compute_cf32_knnn,
          bilinear_cf32_compute_cf32_mknn, bilinear_cf32_compute_cf32_mnnn}
  /\ Files("BilinearComplex", Types("CF64", "CF64", "CF64", "CF64", "CF64"))
       = {bilinear_cf64_compute_cf64_kknn, bilinear_cf64_compute_cf64_knnn,
          bilinear_cf64_compute_cf64_mknn, bilinear_cf64_compute_cf64_mnnn}
<1>1. Files("BilinearComplex", Types("CF32", "CF32", "CF32", "CF32", "CF32"))
       = {bilinear_cf32_compute_cf32_kknn, bilinear_cf32_compute_cf32_knnn,
          bilinear_cf32_compute_cf32_mknn, bilinear_cf32_compute_cf32_mnnn}
  BY DEF Files, Types, Shuffle, Accumulator, Wide, FamiliesOf, bilinear_cf32_compute_cf32_kknn,
    bilinear_cf32_compute_cf32_knnn, bilinear_cf32_compute_cf32_mknn, bilinear_cf32_compute_cf32_mnnn
<1>2. Files("BilinearComplex", Types("CF64", "CF64", "CF64", "CF64", "CF64"))
       = {bilinear_cf64_compute_cf64_kknn, bilinear_cf64_compute_cf64_knnn,
          bilinear_cf64_compute_cf64_mknn, bilinear_cf64_compute_cf64_mnnn}
  BY DEF Files, Types, Shuffle, Accumulator, Wide, FamiliesOf, bilinear_cf64_compute_cf64_kknn,
    bilinear_cf64_compute_cf64_knnn, bilinear_cf64_compute_cf64_mknn, bilinear_cf64_compute_cf64_mnnn
<1> QED BY <1>1, <1>2

LEMMA ScaleComplexFiles ==
  /\ Files("ScaleComplex", Types("CF32", "CF32", "none", "CF32", "CF32"))
       = {scale_cf32_compute_cf32_kkn, scale_cf32_compute_cf32_knn,
          scale_cf32_compute_cf32_mkn, scale_cf32_compute_cf32_mnn}
  /\ Files("ScaleComplex", Types("CF64", "CF64", "none", "CF64", "CF64"))
       = {scale_cf64_compute_cf64_kkn, scale_cf64_compute_cf64_knn,
          scale_cf64_compute_cf64_mkn, scale_cf64_compute_cf64_mnn}
<1>1. Files("ScaleComplex", Types("CF32", "CF32", "none", "CF32", "CF32"))
       = {scale_cf32_compute_cf32_kkn, scale_cf32_compute_cf32_knn,
          scale_cf32_compute_cf32_mkn, scale_cf32_compute_cf32_mnn}
  BY DEF Files, Types, Shuffle, Accumulator, Wide, FamiliesOf, scale_cf32_compute_cf32_kkn,
    scale_cf32_compute_cf32_knn, scale_cf32_compute_cf32_mkn, scale_cf32_compute_cf32_mnn
<1>2. Files("ScaleComplex", Types("CF64", "CF64", "none", "CF64", "CF64"))
       = {scale_cf64_compute_cf64_kkn, scale_cf64_compute_cf64_knn,
          scale_cf64_compute_cf64_mkn, scale_cf64_compute_cf64_mnn}
  BY DEF Files, Types, Shuffle, Accumulator, Wide, FamiliesOf, scale_cf64_compute_cf64_kkn,
    scale_cf64_compute_cf64_knn, scale_cf64_compute_cf64_mkn, scale_cf64_compute_cf64_mnn
<1> QED BY <1>1, <1>2
\* What the registry, the queries and the reference see of a file's kernels.
LEMMA FilesFields ==
  ASSUME NEW op, NEW a, NEW b, NEW d, NEW e, NEW compute,
         NEW k \in Files(op, Types(a, b, d, e, compute))
  PROVE  /\ k.op = op /\ k.dims = <<6, 6, 6>> /\ TypesOf(k) = Types(a, b, d, e, compute)
         /\ k.a = a /\ k.b = b /\ k.d = d /\ k.e = e /\ k.compute = compute
         /\ k.acc = Accumulator(compute) /\ k.wide = Wide(a)
<1>1. PICK family \in FamiliesOf(a):
        k = Xdl(family, a, b, Accumulator(compute), Shuffle(a), d, e, compute, op)
  BY DEF Files, Types
<1>2. Families[family].wide = Wide(a)
  <2> DEFINE F64Family == family \in {"f64_kk", "f64_kn", "f64_mk", "f64_mn"}
  <2>1. Families[family].wide = F64Family
    BY DEF Families, FamiliesOf
  <2>2. F64Family <=> Wide(a)
    BY DEF FamiliesOf
  <2>3. F64Family \in BOOLEAN /\ Wide(a) \in BOOLEAN
    BY DEF Wide
  <2> HIDE DEF F64Family, Wide, Families
  <2> QED BY <2>1, <2>2, <2>3
<1> HIDE DEF Wide, Families, Accumulator, Shuffle
<1> QED BY <1>1, <1>2 DEF Xdl, TypesOf, Types

\* Every layout has a file.
LEMMA FilesLayouts ==
  ASSUME NEW op, NEW t
  PROVE  {k.fast : k \in Files(op, t)} = {"k", "m"} \X {"k", "n"}
<1>1. \A family: Xdl(family, t.a, t.b, Accumulator(t.compute), Shuffle(t.a), t.d, t.e, t.compute,
                     op).fast = Families[family].fast
  BY DEF Xdl
<1>2. {k.fast : k \in Files(op, t)} = {Families[family].fast : family \in FamiliesOf(t.a)}
  <2> HIDE DEF Xdl
  <2> QED BY <1>1 DEF Files
<1>3. {Families[family].fast : family \in {"kk", "kn", "mk", "mn"}} = {"k", "m"} \X {"k", "n"}
  BY DEF Families
<1>4. {Families[family].fast : family \in {"f64_kk", "f64_kn", "f64_mk", "f64_mn"}}
        = {"k", "m"} \X {"k", "n"}
  BY DEF Families
<1> QED BY <1>2, <1>3, <1>4 DEF FamiliesOf
\* RealKernels are the files of the real types.
LEMMA RealKernelsFiles ==
  RealKernels = (UNION {Files("Bilinear", t) : t \in BilinearTypes})
                  \cup (UNION {Files("Scale", t) : t \in ScaleTypes})
<1>1. UNION {Files("Bilinear", t) : t \in BilinearTypes}
        = Files("Bilinear", Types("BF16", "BF16", "BF16", "BF16", "F32"))
            \cup Files("Bilinear", Types("F16", "F16", "F16", "F16", "F32"))
            \cup Files("Bilinear", Types("F32", "F32", "F32", "F32", "BF16"))
            \cup Files("Bilinear", Types("F32", "F32", "F32", "F32", "F16"))
            \cup Files("Bilinear", Types("F32", "F32", "F32", "F32", "F32"))
            \cup Files("Bilinear", Types("F64", "F64", "F64", "F64", "F32"))
            \cup Files("Bilinear", Types("F64", "F64", "F64", "F64", "F64"))
  BY DEF BilinearTypes
<1>2. UNION {Files("Scale", t) : t \in ScaleTypes}
        = Files("Scale", Types("BF16", "BF16", "none", "BF16", "F32"))
            \cup Files("Scale", Types("F16", "F16", "none", "F16", "F32"))
            \cup Files("Scale", Types("F32", "F32", "none", "F32", "BF16"))
            \cup Files("Scale", Types("F32", "F32", "none", "F32", "F16"))
            \cup Files("Scale", Types("F32", "F32", "none", "F32", "F32"))
            \cup Files("Scale", Types("F64", "F64", "none", "F64", "F32"))
            \cup Files("Scale", Types("F64", "F64", "none", "F64", "F64"))
  BY DEF ScaleTypes
<1> QED BY <1>1, <1>2, BilinearFiles, ScaleFiles DEF RealKernels

\* The factories: for each operation, the combinations that have files.
LEMMA FactoryFiles ==
  /\ \A t \in BilinearTypes: EnumerateContractionSolutions("Bilinear", t) = Files("Bilinear", t)
  /\ \A t \in ScaleTypes: EnumerateContractionSolutions("Scale", t) = Files("Scale", t)
<1>1. \A op, u, k: k \in Files(op, u) /\ u \in BilinearTypes \cup ScaleTypes
                     => k.op = op /\ TypesOf(k) = u
  <2> SUFFICES ASSUME NEW op, NEW u \in BilinearTypes \cup ScaleTypes, NEW k \in Files(op, u)
               PROVE  k.op = op /\ TypesOf(k) = u
    OBVIOUS
  <2>1. u = Types(u.a, u.b, u.d, u.e, u.compute)
    BY DEF BilinearTypes, ScaleTypes, Types
  <2> QED BY <2>1, FilesFields
<1>2. ASSUME NEW t \in BilinearTypes PROVE RealFactory("Bilinear", t) = Files("Bilinear", t)
  BY <1>1, RealKernelsFiles DEF RealFactory
<1>3. ASSUME NEW t \in ScaleTypes PROVE RealFactory("Scale", t) = Files("Scale", t)
  BY <1>1, RealKernelsFiles DEF RealFactory
<1> QED BY <1>2, <1>3 DEF EnumerateContractionSolutions
BilinearComplexTypes ==
  {Types("CF32", "CF32", "CF32", "CF32", "CF32"), Types("CF64", "CF64", "CF64", "CF64", "CF64")}
ScaleComplexTypes ==
  {Types("CF32", "CF32", "none", "CF32", "CF32"), Types("CF64", "CF64", "none", "CF64", "CF64")}

LEMMA ComplexFactoryFiles ==
  /\ \A t \in BilinearComplexTypes:
       EnumerateContractionSolutions("BilinearComplex", t) = Files("BilinearComplex", t)
  /\ \A t \in ScaleComplexTypes:
       EnumerateContractionSolutions("ScaleComplex", t) = Files("ScaleComplex", t)
<1>1. Types("CF32", "CF32", "CF32", "CF32", "CF32") # Types("CF64", "CF64", "CF64", "CF64", "CF64")
  BY DEF Types
<1>2. Types("CF32", "CF32", "none", "CF32", "CF32") # Types("CF64", "CF64", "none", "CF64", "CF64")
  BY DEF Types
<1>3. ASSUME NEW t \in BilinearComplexTypes
      PROVE  EnumerateContractionSolutions("BilinearComplex", t) = Files("BilinearComplex", t)
  BY <1>1, BilinearComplexFiles
  DEF EnumerateContractionSolutions, BilinearComplexFactory, BilinearComplexTypes
<1>4. ASSUME NEW t \in ScaleComplexTypes
      PROVE  EnumerateContractionSolutions("ScaleComplex", t) = Files("ScaleComplex", t)
  BY <1>2, ScaleComplexFiles
  DEF EnumerateContractionSolutions, ScaleComplexFactory, ScaleComplexTypes
<1> QED BY <1>3, <1>4

\* What the library supports: operations and types.
Supported ==
  {<<"Bilinear", t>> : t \in BilinearTypes} \cup {<<"Scale", t>> : t \in ScaleTypes}
    \cup {<<"BilinearComplex", t>> : t \in BilinearComplexTypes}
    \cup {<<"ScaleComplex", t>> : t \in ScaleComplexTypes}

\* The constructor registers each of them once.
LEMMA RegistrationsFiles ==
  UNION {Registrations[n] : n \in 1..18} = UNION {Files(p[1], p[2]) : p \in Supported}
<1>1. Registrations[1] = Files("Bilinear", Types("BF16", "BF16", "BF16", "BF16", "F32"))
         /\ <<"Bilinear", Types("BF16", "BF16", "BF16", "BF16", "F32")>> \in Supported
  <2>1. Types("BF16", "BF16", "BF16", "BF16", "F32") \in BilinearTypes
    BY DEF BilinearTypes
  <2>2. BilinearRegistrations[1] = Types("BF16", "BF16", "BF16", "BF16", "F32")
    BY DEF BilinearRegistrations
  <2>3. ~IsComplex(Types("BF16", "BF16", "BF16", "BF16", "F32"))
    BY DEF IsComplex, Types
  <2> QED BY <2>1, <2>2, <2>3, FactoryFiles DEF Registrations, Supported
<1>2. Registrations[2] = Files("Bilinear", Types("F16", "F16", "F16", "F16", "F32"))
         /\ <<"Bilinear", Types("F16", "F16", "F16", "F16", "F32")>> \in Supported
  <2>1. Types("F16", "F16", "F16", "F16", "F32") \in BilinearTypes
    BY DEF BilinearTypes
  <2>2. BilinearRegistrations[2] = Types("F16", "F16", "F16", "F16", "F32")
    BY DEF BilinearRegistrations
  <2>3. ~IsComplex(Types("F16", "F16", "F16", "F16", "F32"))
    BY DEF IsComplex, Types
  <2> QED BY <2>1, <2>2, <2>3, FactoryFiles DEF Registrations, Supported
<1>3. Registrations[3] = Files("Bilinear", Types("F32", "F32", "F32", "F32", "F32"))
         /\ <<"Bilinear", Types("F32", "F32", "F32", "F32", "F32")>> \in Supported
  <2>1. Types("F32", "F32", "F32", "F32", "F32") \in BilinearTypes
    BY DEF BilinearTypes
  <2>2. BilinearRegistrations[3] = Types("F32", "F32", "F32", "F32", "F32")
    BY DEF BilinearRegistrations
  <2>3. ~IsComplex(Types("F32", "F32", "F32", "F32", "F32"))
    BY DEF IsComplex, Types
  <2> QED BY <2>1, <2>2, <2>3, FactoryFiles DEF Registrations, Supported
<1>4. Registrations[4] = Files("Bilinear", Types("F32", "F32", "F32", "F32", "F16"))
         /\ <<"Bilinear", Types("F32", "F32", "F32", "F32", "F16")>> \in Supported
  <2>1. Types("F32", "F32", "F32", "F32", "F16") \in BilinearTypes
    BY DEF BilinearTypes
  <2>2. BilinearRegistrations[4] = Types("F32", "F32", "F32", "F32", "F16")
    BY DEF BilinearRegistrations
  <2>3. ~IsComplex(Types("F32", "F32", "F32", "F32", "F16"))
    BY DEF IsComplex, Types
  <2> QED BY <2>1, <2>2, <2>3, FactoryFiles DEF Registrations, Supported
<1>5. Registrations[5] = Files("Bilinear", Types("F32", "F32", "F32", "F32", "BF16"))
         /\ <<"Bilinear", Types("F32", "F32", "F32", "F32", "BF16")>> \in Supported
  <2>1. Types("F32", "F32", "F32", "F32", "BF16") \in BilinearTypes
    BY DEF BilinearTypes
  <2>2. BilinearRegistrations[5] = Types("F32", "F32", "F32", "F32", "BF16")
    BY DEF BilinearRegistrations
  <2>3. ~IsComplex(Types("F32", "F32", "F32", "F32", "BF16"))
    BY DEF IsComplex, Types
  <2> QED BY <2>1, <2>2, <2>3, FactoryFiles DEF Registrations, Supported
<1>6. Registrations[6] = Files("BilinearComplex", Types("CF32", "CF32", "CF32", "CF32", "CF32"))
         /\ <<"BilinearComplex", Types("CF32", "CF32", "CF32", "CF32", "CF32")>> \in Supported
  <2>1. Types("CF32", "CF32", "CF32", "CF32", "CF32") \in BilinearComplexTypes
    BY DEF BilinearComplexTypes
  <2>2. BilinearRegistrations[6] = Types("CF32", "CF32", "CF32", "CF32", "CF32")
    BY DEF BilinearRegistrations
  <2>3. IsComplex(Types("CF32", "CF32", "CF32", "CF32", "CF32"))
    BY DEF IsComplex, Types
  <2> QED BY <2>1, <2>2, <2>3, ComplexFactoryFiles DEF Registrations, Supported
<1>7. Registrations[7] = Files("Bilinear", Types("F64", "F64", "F64", "F64", "F32"))
         /\ <<"Bilinear", Types("F64", "F64", "F64", "F64", "F32")>> \in Supported
  <2>1. Types("F64", "F64", "F64", "F64", "F32") \in BilinearTypes
    BY DEF BilinearTypes
  <2>2. BilinearRegistrations[7] = Types("F64", "F64", "F64", "F64", "F32")
    BY DEF BilinearRegistrations
  <2>3. ~IsComplex(Types("F64", "F64", "F64", "F64", "F32"))
    BY DEF IsComplex, Types
  <2> QED BY <2>1, <2>2, <2>3, FactoryFiles DEF Registrations, Supported
<1>8. Registrations[8] = Files("Bilinear", Types("F64", "F64", "F64", "F64", "F64"))
         /\ <<"Bilinear", Types("F64", "F64", "F64", "F64", "F64")>> \in Supported
  <2>1. Types("F64", "F64", "F64", "F64", "F64") \in BilinearTypes
    BY DEF BilinearTypes
  <2>2. BilinearRegistrations[8] = Types("F64", "F64", "F64", "F64", "F64")
    BY DEF BilinearRegistrations
  <2>3. ~IsComplex(Types("F64", "F64", "F64", "F64", "F64"))
    BY DEF IsComplex, Types
  <2> QED BY <2>1, <2>2, <2>3, FactoryFiles DEF Registrations, Supported
<1>9. Registrations[9] = Files("BilinearComplex", Types("CF64", "CF64", "CF64", "CF64", "CF64"))
         /\ <<"BilinearComplex", Types("CF64", "CF64", "CF64", "CF64", "CF64")>> \in Supported
  <2>1. Types("CF64", "CF64", "CF64", "CF64", "CF64") \in BilinearComplexTypes
    BY DEF BilinearComplexTypes
  <2>2. BilinearRegistrations[9] = Types("CF64", "CF64", "CF64", "CF64", "CF64")
    BY DEF BilinearRegistrations
  <2>3. IsComplex(Types("CF64", "CF64", "CF64", "CF64", "CF64"))
    BY DEF IsComplex, Types
  <2> QED BY <2>1, <2>2, <2>3, ComplexFactoryFiles DEF Registrations, Supported
<1>10. Registrations[10] = Files("Scale", Types("BF16", "BF16", "none", "BF16", "F32"))
         /\ <<"Scale", Types("BF16", "BF16", "none", "BF16", "F32")>> \in Supported
  <2>1. Types("BF16", "BF16", "none", "BF16", "F32") \in ScaleTypes
    BY DEF ScaleTypes
  <2>2. ScaleRegistrations[1] = Types("BF16", "BF16", "none", "BF16", "F32")
    BY DEF ScaleRegistrations
  <2>3. ~IsComplex(Types("BF16", "BF16", "none", "BF16", "F32"))
    BY DEF IsComplex, Types
  <2> QED BY <2>1, <2>2, <2>3, FactoryFiles DEF Registrations, Supported
<1>11. Registrations[11] = Files("Scale", Types("F16", "F16", "none", "F16", "F32"))
         /\ <<"Scale", Types("F16", "F16", "none", "F16", "F32")>> \in Supported
  <2>1. Types("F16", "F16", "none", "F16", "F32") \in ScaleTypes
    BY DEF ScaleTypes
  <2>2. ScaleRegistrations[2] = Types("F16", "F16", "none", "F16", "F32")
    BY DEF ScaleRegistrations
  <2>3. ~IsComplex(Types("F16", "F16", "none", "F16", "F32"))
    BY DEF IsComplex, Types
  <2> QED BY <2>1, <2>2, <2>3, FactoryFiles DEF Registrations, Supported
<1>12. Registrations[12] = Files("Scale", Types("F32", "F32", "none", "F32", "F32"))
         /\ <<"Scale", Types("F32", "F32", "none", "F32", "F32")>> \in Supported
  <2>1. Types("F32", "F32", "none", "F32", "F32") \in ScaleTypes
    BY DEF ScaleTypes
  <2>2. ScaleRegistrations[3] = Types("F32", "F32", "none", "F32", "F32")
    BY DEF ScaleRegistrations
  <2>3. ~IsComplex(Types("F32", "F32", "none", "F32", "F32"))
    BY DEF IsComplex, Types
  <2> QED BY <2>1, <2>2, <2>3, FactoryFiles DEF Registrations, Supported
<1>13. Registrations[13] = Files("Scale", Types("F32", "F32", "none", "F32", "F16"))
         /\ <<"Scale", Types("F32", "F32", "none", "F32", "F16")>> \in Supported
  <2>1. Types("F32", "F32", "none", "F32", "F16") \in ScaleTypes
    BY DEF ScaleTypes
  <2>2. ScaleRegistrations[4] = Types("F32", "F32", "none", "F32", "F16")
    BY DEF ScaleRegistrations
  <2>3. ~IsComplex(Types("F32", "F32", "none", "F32", "F16"))
    BY DEF IsComplex, Types
  <2> QED BY <2>1, <2>2, <2>3, FactoryFiles DEF Registrations, Supported
<1>14. Registrations[14] = Files("Scale", Types("F32", "F32", "none", "F32", "BF16"))
         /\ <<"Scale", Types("F32", "F32", "none", "F32", "BF16")>> \in Supported
  <2>1. Types("F32", "F32", "none", "F32", "BF16") \in ScaleTypes
    BY DEF ScaleTypes
  <2>2. ScaleRegistrations[5] = Types("F32", "F32", "none", "F32", "BF16")
    BY DEF ScaleRegistrations
  <2>3. ~IsComplex(Types("F32", "F32", "none", "F32", "BF16"))
    BY DEF IsComplex, Types
  <2> QED BY <2>1, <2>2, <2>3, FactoryFiles DEF Registrations, Supported
<1>15. Registrations[15] = Files("ScaleComplex", Types("CF32", "CF32", "none", "CF32", "CF32"))
         /\ <<"ScaleComplex", Types("CF32", "CF32", "none", "CF32", "CF32")>> \in Supported
  <2>1. Types("CF32", "CF32", "none", "CF32", "CF32") \in ScaleComplexTypes
    BY DEF ScaleComplexTypes
  <2>2. ScaleRegistrations[6] = Types("CF32", "CF32", "none", "CF32", "CF32")
    BY DEF ScaleRegistrations
  <2>3. IsComplex(Types("CF32", "CF32", "none", "CF32", "CF32"))
    BY DEF IsComplex, Types
  <2> QED BY <2>1, <2>2, <2>3, ComplexFactoryFiles DEF Registrations, Supported
<1>16. Registrations[16] = Files("Scale", Types("F64", "F64", "none", "F64", "F32"))
         /\ <<"Scale", Types("F64", "F64", "none", "F64", "F32")>> \in Supported
  <2>1. Types("F64", "F64", "none", "F64", "F32") \in ScaleTypes
    BY DEF ScaleTypes
  <2>2. ScaleRegistrations[7] = Types("F64", "F64", "none", "F64", "F32")
    BY DEF ScaleRegistrations
  <2>3. ~IsComplex(Types("F64", "F64", "none", "F64", "F32"))
    BY DEF IsComplex, Types
  <2> QED BY <2>1, <2>2, <2>3, FactoryFiles DEF Registrations, Supported
<1>17. Registrations[17] = Files("Scale", Types("F64", "F64", "none", "F64", "F64"))
         /\ <<"Scale", Types("F64", "F64", "none", "F64", "F64")>> \in Supported
  <2>1. Types("F64", "F64", "none", "F64", "F64") \in ScaleTypes
    BY DEF ScaleTypes
  <2>2. ScaleRegistrations[8] = Types("F64", "F64", "none", "F64", "F64")
    BY DEF ScaleRegistrations
  <2>3. ~IsComplex(Types("F64", "F64", "none", "F64", "F64"))
    BY DEF IsComplex, Types
  <2> QED BY <2>1, <2>2, <2>3, FactoryFiles DEF Registrations, Supported
<1>18. Registrations[18] = Files("ScaleComplex", Types("CF64", "CF64", "none", "CF64", "CF64"))
         /\ <<"ScaleComplex", Types("CF64", "CF64", "none", "CF64", "CF64")>> \in Supported
  <2>1. Types("CF64", "CF64", "none", "CF64", "CF64") \in ScaleComplexTypes
    BY DEF ScaleComplexTypes
  <2>2. ScaleRegistrations[9] = Types("CF64", "CF64", "none", "CF64", "CF64")
    BY DEF ScaleRegistrations
  <2>3. IsComplex(Types("CF64", "CF64", "none", "CF64", "CF64"))
    BY DEF IsComplex, Types
  <2> QED BY <2>1, <2>2, <2>3, ComplexFactoryFiles DEF Registrations, Supported
<1> DEFINE Batches == {Registrations[n] : n \in 1..18}
<1>19. \A n \in 1..18: Registrations[n] \in {Files(p[1], p[2]) : p \in Supported}
  BY <1>1, <1>2, <1>3, <1>4, <1>5, <1>6, <1>7, <1>8, <1>9, <1>10, <1>11, <1>12, <1>13, <1>14, <1>15, <1>16, <1>17, <1>18
<1>20. \A p \in Supported: Files(p[1], p[2]) \in Batches
  <2>1. \A t \in BilinearTypes: Files("Bilinear", t) \in Batches
    BY <1>1, <1>2, <1>3, <1>4, <1>5, <1>7, <1>8 DEF BilinearTypes
  <2>2. \A t \in ScaleTypes: Files("Scale", t) \in Batches
    BY <1>10, <1>11, <1>12, <1>13, <1>14, <1>16, <1>17 DEF ScaleTypes
  <2>3. \A t \in BilinearComplexTypes: Files("BilinearComplex", t) \in Batches
    BY <1>6, <1>9 DEF BilinearComplexTypes
  <2>4. \A t \in ScaleComplexTypes: Files("ScaleComplex", t) \in Batches
    BY <1>15, <1>18 DEF ScaleComplexTypes
  <2> HIDE DEF Batches
  <2> QED BY <2>1, <2>2, <2>3, <2>4 DEF Supported
<1> QED BY <1>19, <1>20
LEMMA KernelsRegistered ==
  Registered.all = UNION {Files(p[1], p[2]) : p \in Supported}
<1>1. Registrations \in Seq({Registrations[n] : n \in 1..18}) /\ Len(Registrations) = 18
  BY DEF Registrations
<1>2. RegisterSolutions(Registrations).all = UNION {Registrations[n] : n \in 1..Len(Registrations)}
  <2>1. Len(Registrations) \in Nat
    BY <1>1
  <2> QED BY <2>1, BatchesRegistered, Zenon
<1>3. Registered.all = UNION {Registrations[n] : n \in 1..18}
  BY <1>1, <1>2 DEF Registered
<1> QED BY <1>3, RegistrationsFiles

\* The solution of the CPU reference for one combination.
Reference(op, t) ==
  [a |-> t.a, b |-> t.b, acc |-> Accumulator(t.compute), d |-> t.d, e |-> t.e,
   compute |-> t.compute, op |-> op, dims |-> <<6, 6, 6>>, opA |-> "PassThrough",
   opB |-> "PassThrough"]

-----------------------------------------------------------------------------
\* The types a program describes for those of a kernel.
RunTypes(t) ==
  <<HipDataType(t.a), HipDataType(t.b), HipDataType(t.d), HipDataType(t.e),
    ConvertToComputeType(HipDataType(t.compute))>>

\* The rows of the support table, as programs name them.
LEMMA BilinearRows ==
  /\ RunTypes(Types("BF16", "BF16", "BF16", "BF16", "F32"))
       = <<"R_16BF", "R_16BF", "R_16BF", "R_16BF", "COMPUTE_32F">>
  /\ RunTypes(Types("F16", "F16", "F16", "F16", "F32"))
       = <<"R_16F", "R_16F", "R_16F", "R_16F", "COMPUTE_32F">>
  /\ RunTypes(Types("F32", "F32", "F32", "F32", "BF16"))
       = <<"R_32F", "R_32F", "R_32F", "R_32F", "COMPUTE_16BF">>
  /\ RunTypes(Types("F32", "F32", "F32", "F32", "F16"))
       = <<"R_32F", "R_32F", "R_32F", "R_32F", "COMPUTE_16F">>
  /\ RunTypes(Types("F32", "F32", "F32", "F32", "F32"))
       = <<"R_32F", "R_32F", "R_32F", "R_32F", "COMPUTE_32F">>
  /\ RunTypes(Types("F64", "F64", "F64", "F64", "F32"))
       = <<"R_64F", "R_64F", "R_64F", "R_64F", "COMPUTE_32F">>
  /\ RunTypes(Types("F64", "F64", "F64", "F64", "F64"))
       = <<"R_64F", "R_64F", "R_64F", "R_64F", "COMPUTE_64F">>
BY DEF RunTypes, Types, HipDataType, ConvertToComputeType

LEMMA ScaleRows ==
  /\ RunTypes(Types("BF16", "BF16", "none", "BF16", "F32"))
       = <<"R_16BF", "R_16BF", "NONE", "R_16BF", "COMPUTE_32F">>
  /\ RunTypes(Types("F16", "F16", "none", "F16", "F32"))
       = <<"R_16F", "R_16F", "NONE", "R_16F", "COMPUTE_32F">>
  /\ RunTypes(Types("F32", "F32", "none", "F32", "BF16"))
       = <<"R_32F", "R_32F", "NONE", "R_32F", "COMPUTE_16BF">>
  /\ RunTypes(Types("F32", "F32", "none", "F32", "F16"))
       = <<"R_32F", "R_32F", "NONE", "R_32F", "COMPUTE_16F">>
  /\ RunTypes(Types("F32", "F32", "none", "F32", "F32"))
       = <<"R_32F", "R_32F", "NONE", "R_32F", "COMPUTE_32F">>
  /\ RunTypes(Types("F64", "F64", "none", "F64", "F32"))
       = <<"R_64F", "R_64F", "NONE", "R_64F", "COMPUTE_32F">>
  /\ RunTypes(Types("F64", "F64", "none", "F64", "F64"))
       = <<"R_64F", "R_64F", "NONE", "R_64F", "COMPUTE_64F">>
BY DEF RunTypes, Types, HipDataType, ConvertToComputeType

LEMMA BilinearComplexRows ==
  /\ RunTypes(Types("CF32", "CF32", "CF32", "CF32", "CF32"))
       = <<"C_32F", "C_32F", "C_32F", "C_32F", "COMPUTE_C32F">>
  /\ RunTypes(Types("CF64", "CF64", "CF64", "CF64", "CF64"))
       = <<"C_64F", "C_64F", "C_64F", "C_64F", "COMPUTE_C64F">>
BY DEF RunTypes, Types, HipDataType, ConvertToComputeType

LEMMA ScaleComplexRows ==
  /\ RunTypes(Types("CF32", "CF32", "none", "CF32", "CF32"))
       = <<"C_32F", "C_32F", "NONE", "C_32F", "COMPUTE_C32F">>
  /\ RunTypes(Types("CF64", "CF64", "none", "CF64", "CF64"))
       = <<"C_64F", "C_64F", "NONE", "C_64F", "COMPUTE_C64F">>
BY DEF RunTypes, Types, HipDataType, ConvertToComputeType

\* The supported combination that types of a program belong to.
KernelType(hipType) ==
  CASE hipType = "R_16F" -> "F16" [] hipType = "R_16BF" -> "BF16" [] hipType = "R_32F" -> "F32"
    [] hipType = "R_64F" -> "F64" [] hipType = "C_32F" -> "CF32" [] hipType = "C_64F" -> "CF64"
    [] OTHER -> "none"
KernelCompute(computeType) ==
  CASE computeType = "COMPUTE_16BF" -> "BF16" [] computeType = "COMPUTE_16F" -> "F16"
    [] computeType = "COMPUTE_32F" -> "F32" [] computeType = "COMPUTE_64F" -> "F64"
    [] computeType = "COMPUTE_C32F" -> "CF32" [] OTHER -> "CF64"
KernelOperation(types) ==
  IF types[5] \in {"COMPUTE_C32F", "COMPUTE_C64F"}
  THEN IF types[3] = "NONE" THEN "ScaleComplex" ELSE "BilinearComplex"
  ELSE IF types[3] = "NONE" THEN "Scale" ELSE "Bilinear"
Combination(types) ==
  <<KernelOperation(types),
    Types(KernelType(types[1]), KernelType(types[2]), KernelType(types[3]), KernelType(types[4]),
          KernelCompute(types[5]))>>
\* Every table has a constant for each number of modes.
LEMMA TablesHaveIds ==
  \A table \in {F16_F32_Scale, F16_F32_Bilinear, BF16_F32_Scale, BF16_F32_Bilinear,
                F32_F16_Scale, F32_F16_Bilinear, F32_BF16_Scale, F32_BF16_Bilinear,
                F32_F32_Scale, F32_F32_Bilinear, F64_F32_Scale, F64_F32_Bilinear,
                F64_F64_Scale, F64_F64_Bilinear, CF32_CF32_Scale, CF32_CF32_Bilinear,
                CF64_CF64_Scale, CF64_CF64_Bilinear}:
    table.ids \in [1..6 -> {table.ids[r] : r \in 1..6}] /\ table # NoTable
<1>1. ASSUME NEW name, NEW ids, NEW dim1
      PROVE  LET table == Table(name, ids, dim1)
             IN table.ids \in [1..6 -> {table.ids[r] : r \in 1..6}] /\ table # NoTable
  <2>1. DOMAIN Table(name, ids, dim1).ids = 1..6 /\ DOMAIN NoTable.ids = {}
    BY DEF Table, NoTable
  <2>2. Table(name, ids, dim1).ids = [r \in 1..6 |-> Table(name, ids, dim1).ids[r]]
    BY DEF Table
  <2> HIDE DEF Table, NoTable
  <2> QED BY <2>1, <2>2
<1> HIDE DEF Table, NoTable
<1> QED
  BY <1>1
  DEF F16_F32_Scale, F16_F32_Bilinear, BF16_F32_Scale, BF16_F32_Bilinear,
      F32_F16_Scale, F32_F16_Bilinear, F32_BF16_Scale, F32_BF16_Bilinear,
      F32_F32_Scale, F32_F32_Bilinear, F64_F32_Scale, F64_F32_Bilinear,
      F64_F64_Scale, F64_F64_Bilinear, CF32_CF32_Scale, CF32_CF32_Bilinear,
      CF64_CF64_Scale, CF64_CF64_Bilinear

\* A supported combination has a table, and is the one its types name.
LEMMA SupportedRow ==
  ASSUME NEW op, NEW t, <<op, t>> \in Supported
  PROVE  /\ t = Types(t.a, t.b, t.d, t.e, t.compute)
         /\ Combination(RunTypes(t)) = <<op, t>>
         /\ HasTable(RunTypes(t))
<1>1. ASSUME NEW u \in BilinearTypes
      PROVE  /\ u = Types(u.a, u.b, u.d, u.e, u.compute)
             /\ Combination(RunTypes(u)) = <<"Bilinear", u>>
             /\ HasTable(RunTypes(u))
  <2>1. u = Types(u.a, u.b, u.d, u.e, u.compute)
    BY DEF BilinearTypes, Types
  <2>2. Combination(RunTypes(u)) = <<"Bilinear", u>>
    BY BilinearRows DEF BilinearTypes, Combination, KernelOperation, KernelType, KernelCompute
  <2>3. HasTable(RunTypes(u))
    BY BilinearRows, TablesHaveIds DEF BilinearTypes, HasTable, TableOf
  <2> QED BY <2>1, <2>2, <2>3
<1>2. ASSUME NEW u \in ScaleTypes
      PROVE  /\ u = Types(u.a, u.b, u.d, u.e, u.compute)
             /\ Combination(RunTypes(u)) = <<"Scale", u>>
             /\ HasTable(RunTypes(u))
  <2>1. u = Types(u.a, u.b, u.d, u.e, u.compute)
    BY DEF ScaleTypes, Types
  <2>2. Combination(RunTypes(u)) = <<"Scale", u>>
    BY ScaleRows DEF ScaleTypes, Combination, KernelOperation, KernelType, KernelCompute
  <2>3. HasTable(RunTypes(u))
    BY ScaleRows, TablesHaveIds DEF ScaleTypes, HasTable, TableOf
  <2> QED BY <2>1, <2>2, <2>3
<1>3. ASSUME NEW u \in BilinearComplexTypes
      PROVE  /\ u = Types(u.a, u.b, u.d, u.e, u.compute)
             /\ Combination(RunTypes(u)) = <<"BilinearComplex", u>>
             /\ HasTable(RunTypes(u))
  <2>1. u = Types(u.a, u.b, u.d, u.e, u.compute)
    BY DEF BilinearComplexTypes, Types
  <2>2. Combination(RunTypes(u)) = <<"BilinearComplex", u>>
    BY BilinearComplexRows DEF BilinearComplexTypes, Combination, KernelOperation, KernelType, KernelCompute
  <2>3. HasTable(RunTypes(u))
    BY BilinearComplexRows, TablesHaveIds DEF BilinearComplexTypes, HasTable, TableOf
  <2> QED BY <2>1, <2>2, <2>3
<1>4. ASSUME NEW u \in ScaleComplexTypes
      PROVE  /\ u = Types(u.a, u.b, u.d, u.e, u.compute)
             /\ Combination(RunTypes(u)) = <<"ScaleComplex", u>>
             /\ HasTable(RunTypes(u))
  <2>1. u = Types(u.a, u.b, u.d, u.e, u.compute)
    BY DEF ScaleComplexTypes, Types
  <2>2. Combination(RunTypes(u)) = <<"ScaleComplex", u>>
    BY ScaleComplexRows DEF ScaleComplexTypes, Combination, KernelOperation, KernelType, KernelCompute
  <2>3. HasTable(RunTypes(u))
    BY ScaleComplexRows, TablesHaveIds DEF ScaleComplexTypes, HasTable, TableOf
  <2> QED BY <2>1, <2>2, <2>3
<1>5. \/ op = "Bilinear" /\ t \in BilinearTypes
      \/ op = "Scale" /\ t \in ScaleTypes
      \/ op = "BilinearComplex" /\ t \in BilinearComplexTypes
      \/ op = "ScaleComplex" /\ t \in ScaleComplexTypes
  BY DEF Supported
<1> QED BY <1>1, <1>2, <1>3, <1>4, <1>5
-----------------------------------------------------------------------------
\* The CPU reference has one solution for each supported combination.
LEMMA ReferencesSupported ==
  (UNION {BilinearReferences[n] : n \in 1..9}) \cup (UNION {ScaleReferences[n] : n \in 1..9})
    = {Reference(p[1], p[2]) : p \in Supported}
<1>1. BilinearReferences[1] = {Reference("Bilinear", Types("F16", "F16", "F16", "F16", "F32"))}
  BY DEF BilinearReferences, EnumerateReferenceSolutions, Reference, Types, Accumulator
<1>2. BilinearReferences[2] = {Reference("Bilinear", Types("BF16", "BF16", "BF16", "BF16", "F32"))}
  BY DEF BilinearReferences, EnumerateReferenceSolutions, Reference, Types, Accumulator
<1>3. BilinearReferences[3] = {Reference("Bilinear", Types("F32", "F32", "F32", "F32", "F16"))}
  BY DEF BilinearReferences, EnumerateReferenceSolutions, Reference, Types, Accumulator
<1>4. BilinearReferences[4] = {Reference("Bilinear", Types("F32", "F32", "F32", "F32", "BF16"))}
  BY DEF BilinearReferences, EnumerateReferenceSolutions, Reference, Types, Accumulator
<1>5. BilinearReferences[5] = {Reference("Bilinear", Types("F32", "F32", "F32", "F32", "F32"))}
  BY DEF BilinearReferences, EnumerateReferenceSolutions, Reference, Types, Accumulator
<1>6. BilinearReferences[6] = {Reference("BilinearComplex", Types("CF32", "CF32", "CF32", "CF32", "CF32"))}
  BY DEF BilinearReferences, EnumerateReferenceSolutions, Reference, Types, Accumulator
<1>7. BilinearReferences[7] = {Reference("Bilinear", Types("F64", "F64", "F64", "F64", "F32"))}
  BY DEF BilinearReferences, EnumerateReferenceSolutions, Reference, Types, Accumulator
<1>8. BilinearReferences[8] = {Reference("Bilinear", Types("F64", "F64", "F64", "F64", "F64"))}
  BY DEF BilinearReferences, EnumerateReferenceSolutions, Reference, Types, Accumulator
<1>9. BilinearReferences[9] = {Reference("BilinearComplex", Types("CF64", "CF64", "CF64", "CF64", "CF64"))}
  BY DEF BilinearReferences, EnumerateReferenceSolutions, Reference, Types, Accumulator
<1>10. ScaleReferences[1] = {Reference("Scale", Types("F16", "F16", "none", "F16", "F32"))}
  BY DEF ScaleReferences, EnumerateReferenceSolutions, Reference, Types, Accumulator
<1>11. ScaleReferences[2] = {Reference("Scale", Types("BF16", "BF16", "none", "BF16", "F32"))}
  BY DEF ScaleReferences, EnumerateReferenceSolutions, Reference, Types, Accumulator
<1>12. ScaleReferences[3] = {Reference("Scale", Types("F32", "F32", "none", "F32", "F16"))}
  BY DEF ScaleReferences, EnumerateReferenceSolutions, Reference, Types, Accumulator
<1>13. ScaleReferences[4] = {Reference("Scale", Types("F32", "F32", "none", "F32", "BF16"))}
  BY DEF ScaleReferences, EnumerateReferenceSolutions, Reference, Types, Accumulator
<1>14. ScaleReferences[5] = {Reference("Scale", Types("F32", "F32", "none", "F32", "F32"))}
  BY DEF ScaleReferences, EnumerateReferenceSolutions, Reference, Types, Accumulator
<1>15. ScaleReferences[6] = {Reference("ScaleComplex", Types("CF32", "CF32", "none", "CF32", "CF32"))}
  BY DEF ScaleReferences, EnumerateReferenceSolutions, Reference, Types, Accumulator
<1>16. ScaleReferences[7] = {Reference("Scale", Types("F64", "F64", "none", "F64", "F32"))}
  BY DEF ScaleReferences, EnumerateReferenceSolutions, Reference, Types, Accumulator
<1>17. ScaleReferences[8] = {Reference("Scale", Types("F64", "F64", "none", "F64", "F64"))}
  BY DEF ScaleReferences, EnumerateReferenceSolutions, Reference, Types, Accumulator
<1>18. ScaleReferences[9] = {Reference("ScaleComplex", Types("CF64", "CF64", "none", "CF64", "CF64"))}
  BY DEF ScaleReferences, EnumerateReferenceSolutions, Reference, Types, Accumulator
<1> DEFINE All == (UNION {BilinearReferences[n] : n \in 1..9})
                    \cup (UNION {ScaleReferences[n] : n \in 1..9})
<1>19. \A r \in All: \E p \in Supported: r = Reference(p[1], p[2])
  <2>1. \A n \in 1..9: \A r \in BilinearReferences[n]:
            \/ \E t \in BilinearTypes: r = Reference("Bilinear", t)
            \/ \E t \in BilinearComplexTypes: r = Reference("BilinearComplex", t)
    BY <1>1, <1>2, <1>3, <1>4, <1>5, <1>6, <1>7, <1>8, <1>9 DEF BilinearTypes, BilinearComplexTypes
  <2>2. \A n \in 1..9: \A r \in ScaleReferences[n]:
            \/ \E t \in ScaleTypes: r = Reference("Scale", t)
            \/ \E t \in ScaleComplexTypes: r = Reference("ScaleComplex", t)
    BY <1>10, <1>11, <1>12, <1>13, <1>14, <1>15, <1>16, <1>17, <1>18 DEF ScaleTypes, ScaleComplexTypes
  <2>3. ASSUME NEW op, NEW t, <<op, t>> \in Supported, NEW r, r = Reference(op, t)
        PROVE  \E p \in Supported: r = Reference(p[1], p[2])
    BY <2>3
  <2>4. \A n \in 1..9: \A r \in BilinearReferences[n]: \E p \in Supported: r = Reference(p[1], p[2])
    BY <2>1, <2>3 DEF Supported
  <2>5. \A n \in 1..9: \A r \in ScaleReferences[n]: \E p \in Supported: r = Reference(p[1], p[2])
    BY <2>2, <2>3 DEF Supported
  <2> QED BY <2>4, <2>5
<1>20. \A p \in Supported: Reference(p[1], p[2]) \in All
  <2>1. \A t \in BilinearTypes: Reference("Bilinear", t) \in All
    BY <1>1, <1>2, <1>3, <1>4, <1>5, <1>7, <1>8 DEF BilinearTypes
  <2>2. \A t \in ScaleTypes: Reference("Scale", t) \in All
    BY <1>10, <1>11, <1>12, <1>13, <1>14, <1>16, <1>17 DEF ScaleTypes
  <2>3. \A t \in BilinearComplexTypes: Reference("BilinearComplex", t) \in All
    BY <1>6, <1>9 DEF BilinearComplexTypes
  <2>4. \A t \in ScaleComplexTypes: Reference("ScaleComplex", t) \in All
    BY <1>15, <1>18 DEF ScaleComplexTypes
  <2> HIDE DEF All
  <2> QED BY <2>1, <2>2, <2>3, <2>4 DEF Supported
<1>21. All = {Reference(p[1], p[2]) : p \in Supported}
  <2> HIDE DEF All
  <2> QED BY <1>19, <1>20
<1> QED BY <1>21

LEMMA ReferencesFiled ==
  /\ ReferenceRegistered.all = {Reference(p[1], p[2]) : p \in Supported}
  /\ WellFiled(ReferenceRegistered)
<1>1. /\ Len(ReferenceRegistrations) = 18
      /\ \A n \in 1..9: ReferenceRegistrations[n] = BilinearReferences[n]
      /\ \A n \in 1..9: ReferenceRegistrations[n + 9] = ScaleReferences[n]
  <2> DEFINE S == {BilinearReferences[n] : n \in 1..9} \cup {ScaleReferences[n] : n \in 1..9}
  <2>1. BilinearReferences \in Seq(S) /\ Len(BilinearReferences) = 9
    BY DEF BilinearReferences
  <2>2. ScaleReferences \in Seq(S) /\ Len(ScaleReferences) = 9
    BY DEF ScaleReferences
  <2> HIDE DEF S
  <2>3. /\ Len(ReferenceRegistrations) = 18
        /\ \A i \in 1..18: ReferenceRegistrations[i]
             = IF i <= 9 THEN BilinearReferences[i] ELSE ScaleReferences[i - 9]
    <3> DEFINE B == BilinearReferences
               C == ScaleReferences
    <3>1. B \in Seq(S) /\ C \in Seq(S) /\ Len(B) = 9 /\ Len(C) = 9 /\ ReferenceRegistrations = B \o C
      BY <2>1, <2>2 DEF ReferenceRegistrations
    <3> HIDE DEF B, C
    <3>2. /\ Len(B \o C) = Len(B) + Len(C)
          /\ \A i \in 1..Len(B) + Len(C):
               (B \o C)[i] = IF i <= Len(B) THEN B[i] ELSE C[i - Len(B)]
      BY <3>1, ConcatProperties
    <3>3. Len(B \o C) = 18 /\ \A i \in 1..18: (B \o C)[i] = IF i <= 9 THEN B[i] ELSE C[i - 9]
      BY <3>1, <3>2
    <3> QED BY <3>1, <3>3 DEF B, C
  <2>4. \A n \in 1..9: n \in 1..18 /\ n + 9 \in 1..18 /\ ~(n + 9 <= 9) /\ n + 9 - 9 = n
    OBVIOUS
  <2> QED BY <2>3, <2>4
<1>2. /\ ReferenceRegistered.all
           = UNION {ReferenceRegistrations[n] : n \in 1..Len(ReferenceRegistrations)}
      /\ WellFiled(ReferenceRegistered)
  <2>1. Len(ReferenceRegistrations) \in Nat
    BY <1>1
  <2>2. /\ RegisterSolutions(ReferenceRegistrations).all
             = UNION {ReferenceRegistrations[n] : n \in 1..Len(ReferenceRegistrations)}
        /\ WellFiled(RegisterSolutions(ReferenceRegistrations))
    BY <2>1, BatchesRegistered, Zenon
  <2> QED BY <2>2 DEF ReferenceRegistered
<1>3. \A n \in 1..18: n \in 1..9 \/ (n - 9 \in 1..9 /\ n = (n - 9) + 9)
  OBVIOUS
<1>4. \A n \in 1..9: n \in 1..18 /\ n + 9 \in 1..18
  OBVIOUS
<1>5. {ReferenceRegistrations[n] : n \in 1..18}
        = {BilinearReferences[n] : n \in 1..9} \cup {ScaleReferences[n] : n \in 1..9}
  BY <1>1, <1>3, <1>4
<1> QED BY <1>1, <1>2, <1>5, ReferencesSupported
-----------------------------------------------------------------------------
\* A query finds the solutions known that are filed under its key.
LEMMA QueryFinds ==
  ASSUME NEW q, WellFiled(q), NEW key
  PROVE  /\ Query(q, key).all = {k \in q.all: key \in Keys(Params(k))}
         /\ WellFiled(Query(q, key))
<1>1. Bucket(q, key) = {k \in q.all: key \in Keys(Params(k))}
  BY DEF WellFiled
<1>2. Query(q, key) = AddSolutions(EmptyQuery, Bucket(q, key))
  BY DEF Query
<1>3. AddSolutions(EmptyQuery, Bucket(q, key)).all = EmptyQuery.all \cup Bucket(q, key)
  BY Added
<1>4. WellFiled(AddSolutions(EmptyQuery, Bucket(q, key)))
  BY AddedWellFiled, EmptyWellFiled
<1> QED BY <1>1, <1>2, <1>3, <1>4 DEF EmptyQuery

\* What a query reads of a kernel of a supported combination, and of its reference.
LEMMA KernelOfFiles ==
  ASSUME NEW op, NEW t, <<op, t>> \in Supported, NEW k \in Files(op, t)
  PROVE  /\ k.op = op /\ TypesOf(k) = t /\ k.dims = <<6, 6, 6>>
         /\ Params(k).types = RunTypes(t)
         /\ k.acc = Accumulator(t.compute) /\ k.wide = Wide(t.a)
<1>1. t = Types(t.a, t.b, t.d, t.e, t.compute)
  BY SupportedRow
<1>2. k \in Files(op, Types(t.a, t.b, t.d, t.e, t.compute))
  BY <1>1
<1>3. /\ k.op = op /\ k.dims = <<6, 6, 6>> /\ TypesOf(k) = t
      /\ k.a = t.a /\ k.b = t.b /\ k.d = t.d /\ k.e = t.e /\ k.compute = t.compute
      /\ k.acc = Accumulator(t.compute) /\ k.wide = Wide(t.a)
  BY <1>1, <1>2, FilesFields
<1>4. Params(k).types = RunTypes(t)
  BY <1>3 DEF Params, RunTypes
<1> QED BY <1>3, <1>4

LEMMA ReferenceParams ==
  ASSUME NEW op, NEW t
  PROVE  /\ Reference(op, t).dims = <<6, 6, 6>> /\ Reference(op, t).op = op
         /\ Reference(op, t).acc = Accumulator(t.compute)
         /\ Params(Reference(op, t)).types = RunTypes(t)
         /\ Params(Reference(op, t)) = [dims |-> <<6, 6, 6>>, types |-> RunTypes(t),
                                        ops |-> <<"IDENTITY", "IDENTITY">>,
                                        opCDE |-> ContractionOpId(op)]
BY DEF Reference, Params, RunTypes

\* A registered kernel is one of the files of a supported combination.
LEMMA RegisteredKernel ==
  ASSUME NEW k \in Registered.all
  PROVE  \E op, t: <<op, t>> \in Supported /\ k \in Files(op, t)
<1>1. PICK p \in Supported: k \in Files(p[1], p[2])
  BY KernelsRegistered
<1>2. p = <<p[1], p[2]>>
  BY DEF Supported
<1> QED BY <1>1, <1>2

\* The categories do not meet: their keys have 11, 3, 5, 2 and 1 values.
LEMMA KeysOfCategories ==
  ASSUME NEW k, k.dims = <<6, 6, 6>>
  PROVE  /\ \A name: HashOps(name) \in Keys(Params(k)) <=> ContractionOpId(k.op) = name
         /\ \A t1, t2, t3, t4, t5:
              HashTypes(<<t1, t2, t3, t4, t5>>) \in Keys(Params(k))
                <=> Params(k).types = <<t1, t2, t3, t4, t5>>
<1> DEFINE types == Params(k).types
           all == <<6, 6, 6>> \o types \o <<"IDENTITY", "IDENTITY">> \o <<ContractionOpId(k.op)>>
<1>1. \E u1, u2, u3, u4, u5: types = <<u1, u2, u3, u4, u5>>
  BY DEF Params
<1>2. Keys(Params(k)) = {all, <<6, 6, 6>>, types, <<"IDENTITY", "IDENTITY">>,
                         <<ContractionOpId(k.op)>>}
  BY DEF Keys, Params, HashTypes, HashOps
<1> HIDE DEF types
<1>3. Len(all) = 11
  BY <1>1
<1> HIDE DEF all
<1>4. /\ \A x: Len(<<x>>) = 1
      /\ \A x, y: Len(<<x, y>>) = 2
      /\ \A x, y, z: Len(<<x, y, z>>) = 3
      /\ \A v, w, x, y, z: Len(<<v, w, x, y, z>>) = 5
  OBVIOUS
<1>5. \A name: HashOps(name) \in Keys(Params(k)) <=> ContractionOpId(k.op) = name
  BY <1>1, <1>2, <1>3, <1>4 DEF HashOps
<1>6. \A t1, t2, t3, t4, t5:
        HashTypes(<<t1, t2, t3, t4, t5>>) \in Keys(Params(k)) <=> types = <<t1, t2, t3, t4, t5>>
  BY <1>1, <1>2, <1>3, <1>4 DEF HashTypes
<1> QED BY <1>5, <1>6 DEF types

\* The two queries of a plan find the kernels of its operation and types.
LEMMA QueriesFind ==
  ASSUME NEW r
  PROVE  QueryKernels(r) = {k \in Registered.all: /\ ContractionOpId(k.op) = OpOf(r)
                                                  /\ Params(k).types = TypesAsked(r)}
<1> DEFINE op == OpOf(r)
           types == TypesAsked(r)
           K == {k \in Registered.all: ContractionOpId(k.op) = op}
<1>1. ASSUME NEW k \in Registered.all PROVE k.dims = <<6, 6, 6>>
  <2>1. PICK o, u: <<o, u>> \in Supported /\ k \in Files(o, u)
    BY RegisteredKernel
  <2> QED BY <2>1, KernelOfFiles
<1>2. op \in {"SCALE", "SCALE_COMPLEX", "BILINEAR", "BILINEAR_COMPLEX"}
  BY DEF OpOf
<1>3. \E t1, t2, t3, t4, t5: types = <<t1, t2, t3, t4, t5>>
  BY DEF TypesAsked
<1> HIDE DEF op, types
<1>4. ByOperation[op] = Query(AddSolutions(EmptyQuery, Registered.all), HashOps(op))
  BY <1>2 DEF ByOperation
<1>5. /\ AddSolutions(EmptyQuery, Registered.all).all = Registered.all
      /\ WellFiled(AddSolutions(EmptyQuery, Registered.all))
  <2>1. AddSolutions(EmptyQuery, Registered.all).all = EmptyQuery.all \cup Registered.all
    BY Added
  <2>2. WellFiled(AddSolutions(EmptyQuery, Registered.all))
    BY AddedWellFiled, EmptyWellFiled
  <2> QED BY <2>1, <2>2 DEF EmptyQuery
<1>6. {k \in Registered.all: HashOps(op) \in Keys(Params(k))} = K
  BY <1>1, KeysOfCategories
<1>7. ByOperation[op].all = K /\ WellFiled(ByOperation[op])
  BY <1>4, <1>5, <1>6, QueryFinds
<1>8. Query(ByOperation[op], HashTypes(types)).all = {k \in K: HashTypes(types) \in Keys(Params(k))}
  BY <1>7, QueryFinds
<1>9. {k \in K: HashTypes(types) \in Keys(Params(k))} = {k \in K: Params(k).types = types}
  BY <1>1, <1>3, KeysOfCategories
<1> QED BY <1>8, <1>9 DEF QueryKernels, op, types
\* What is known of a combination from the types a program gives.
LEMMA SupportedWidths ==
  ASSUME NEW op, NEW t, <<op, t>> \in Supported
  PROVE  /\ t.compute \in {"F64", "CF64"} <=> RunTypes(t)[5] \in {"COMPUTE_64F", "COMPUTE_C64F"}
         /\ Wide(t.a) <=> RunTypes(t)[1] \in {"R_64F", "C_64F"}
<1>1. ASSUME NEW u \in BilinearTypes
      PROVE  /\ u.compute \in {"F64", "CF64"} <=> RunTypes(u)[5] \in {"COMPUTE_64F", "COMPUTE_C64F"}
             /\ Wide(u.a) <=> RunTypes(u)[1] \in {"R_64F", "C_64F"}
  BY BilinearRows DEF BilinearTypes, Types, Wide
<1>2. ASSUME NEW u \in ScaleTypes
      PROVE  /\ u.compute \in {"F64", "CF64"} <=> RunTypes(u)[5] \in {"COMPUTE_64F", "COMPUTE_C64F"}
             /\ Wide(u.a) <=> RunTypes(u)[1] \in {"R_64F", "C_64F"}
  BY ScaleRows DEF ScaleTypes, Types, Wide
<1>3. ASSUME NEW u \in BilinearComplexTypes
      PROVE  /\ u.compute \in {"F64", "CF64"} <=> RunTypes(u)[5] \in {"COMPUTE_64F", "COMPUTE_C64F"}
             /\ Wide(u.a) <=> RunTypes(u)[1] \in {"R_64F", "C_64F"}
  BY BilinearComplexRows DEF BilinearComplexTypes, Types, Wide
<1>4. ASSUME NEW u \in ScaleComplexTypes
      PROVE  /\ u.compute \in {"F64", "CF64"} <=> RunTypes(u)[5] \in {"COMPUTE_64F", "COMPUTE_C64F"}
             /\ Wide(u.a) <=> RunTypes(u)[1] \in {"R_64F", "C_64F"}
  BY ScaleComplexRows DEF ScaleComplexTypes, Types, Wide
<1> QED BY <1>1, <1>2, <1>3, <1>4 DEF Supported

\* Types have a table only if some combination has them.
LEMMA TablesSupported ==
  ASSUME NEW types, HasTable(types)
  PROVE  \E op, t: <<op, t>> \in Supported /\ RunTypes(t) = types
<1>1. types \in {RunTypes(t) : t \in BilinearTypes \cup ScaleTypes
                                     \cup BilinearComplexTypes \cup ScaleComplexTypes}
  BY BilinearRows, ScaleRows, BilinearComplexRows, ScaleComplexRows
  DEF HasTable, TableOf, BilinearTypes, ScaleTypes, BilinearComplexTypes, ScaleComplexTypes
<1> QED BY <1>1 DEF Supported

\* The operation of a descriptor is that of its types.
LEMMA OperationOfTypes ==
  ASSUME NEW r \in Requests, NEW op, NEW t, <<op, t>> \in Supported, RunTypes(t) = TypesAsked(r)
  PROVE  ContractionOpId(op) = OpOf(r)
<1>1. KernelOperation(TypesAsked(r)) = op
  BY SupportedRow DEF Combination
<1>2. r.c \in ScalarTypes \cup {None}
  BY RequestsAssumption
<1>3. TypesAsked(r)[3] = "NONE" <=> r.c = None
  BY <1>2 DEF TypesAsked, ScalarTypes
<1>4. TypesAsked(r)[5] = r.compute
  BY DEF TypesAsked
<1> QED BY <1>1, <1>3, <1>4 DEF KernelOperation, ContractionOpId, OpOf

\* A request that has a table gets the kernels of the files of one combination
\* and the one reference for it.
LEMMA CandidatesWithTable ==
  ASSUME NEW r \in Requests, HasTable(TypesAsked(r))
  PROVE  \E op, t: /\ <<op, t>> \in Supported /\ RunTypes(t) = TypesAsked(r)
                   /\ QueryKernels(r) = Files(op, t)
                   /\ ReferenceCandidates(r) = {Reference(op, t)}
<1>1. PICK op, t: <<op, t>> \in Supported /\ RunTypes(t) = TypesAsked(r)
  BY TablesSupported
<1>2. \A o, u: <<o, u>> \in Supported /\ RunTypes(u) = TypesAsked(r) => o = op /\ u = t
  BY <1>1, SupportedRow
<1>3. ASSUME NEW k \in QueryKernels(r) PROVE k \in Files(op, t)
  <2>1. k \in Registered.all /\ Params(k).types = TypesAsked(r)
    BY QueriesFind
  <2>2. PICK o, u: <<o, u>> \in Supported /\ k \in Files(o, u)
    BY <2>1, RegisteredKernel
  <2>3. Params(k).types = RunTypes(u)
    BY <2>2, KernelOfFiles
  <2> QED BY <1>2, <2>1, <2>2, <2>3
<1>4. ASSUME NEW k \in Files(op, t) PROVE k \in QueryKernels(r)
  <2>1. k \in Registered.all
    BY <1>1, KernelsRegistered
  <2>2. k.op = op /\ Params(k).types = RunTypes(t)
    BY <1>1, <1>4, KernelOfFiles
  <2>3. ContractionOpId(k.op) = OpOf(r)
    BY <1>1, <2>2, OperationOfTypes
  <2> QED BY <1>1, <2>1, <2>2, <2>3, QueriesFind
<1>5. ReferenceCandidates(r) = {Reference(op, t)}
  <2>1. ReferenceCandidates(r)
          = {k \in ReferenceRegistered.all: HashTypes(TypesAsked(r)) \in Keys(Params(k))}
    BY ReferencesFiled, QueryFinds DEF ReferenceCandidates
  <2>2. ASSUME NEW o, NEW u, <<o, u>> \in Supported
        PROVE  HashTypes(TypesAsked(r)) \in Keys(Params(Reference(o, u))) <=> RunTypes(u) = TypesAsked(r)
    BY ReferenceParams, KeysOfCategories DEF TypesAsked
  <2>3. \A p \in Supported: p = <<p[1], p[2]>>
    BY DEF Supported
  <2> QED BY <1>1, <1>2, <2>1, <2>2, <2>3, ReferencesFiled
<1>6. QueryKernels(r) = Files(op, t)
  BY <1>3, <1>4
<1> QED BY <1>1, <1>5, <1>6
LEMMA CandidatesWithoutTable ==
  ASSUME NEW r \in Requests, ~HasTable(TypesAsked(r))
  PROVE  QueryKernels(r) = {} /\ ReferenceCandidates(r) = {}
<1>1. \A op, t: <<op, t>> \in Supported => RunTypes(t) # TypesAsked(r)
  BY SupportedRow
<1>2. ASSUME NEW k \in QueryKernels(r) PROVE FALSE
  <2>1. k \in Registered.all /\ Params(k).types = TypesAsked(r)
    BY QueriesFind
  <2>2. PICK o, u: <<o, u>> \in Supported /\ k \in Files(o, u)
    BY <2>1, RegisteredKernel
  <2> QED BY <1>1, <2>1, <2>2, KernelOfFiles
<1>3. ASSUME NEW k \in ReferenceCandidates(r) PROVE FALSE
  <2>1. k \in ReferenceRegistered.all /\ HashTypes(TypesAsked(r)) \in Keys(Params(k))
    BY ReferencesFiled, QueryFinds DEF ReferenceCandidates
  <2>2. PICK p \in Supported: k = Reference(p[1], p[2])
    BY <2>1, ReferencesFiled
  <2>3. p = <<p[1], p[2]>>
    BY DEF Supported
  <2>4. Params(k).types = TypesAsked(r)
    BY <2>1, <2>2, ReferenceParams, KeysOfCategories DEF TypesAsked
  <2> QED BY <1>1, <2>2, <2>3, <2>4, ReferenceParams
<1> QED BY <1>2, <1>3

-----------------------------------------------------------------------------
\* What holds of a contraction while its kernel is looked for.
SelectionInv ==
  /\ request \in Requests \cup {None}
  /\ candidates = None \/ candidates \subseteq Registered.all
  /\ request # None => candidates \in {Registered.all, QueryKernels(request)}
  /\ answer # None =>
       /\ request # None /\ answer.status \in {"SUCCESS", "EXECUTION_FAILED"}
       /\ answer.id = IF HasTable(TypesAsked(request))
                      THEN UniqueId(TableOf(TypesAsked(request)), request.strides, request.past,
                                    request.oneInB \/ 1 \in Range(request.lengths))
                      ELSE NoId

LEMMA SelectionStep == SelectionInv /\ [Next]_vars => SelectionInv'
<1> SUFFICES ASSUME SelectionInv, [Next]_vars PROVE SelectionInv'
  OBVIOUS
<1>1. CASE Describe
  BY <1>1 DEF Describe, SelectionInv
<1>2. CASE InitPlan
  <2>1. QueryKernels(request) \subseteq Registered.all
    BY QueriesFind
  <2> QED BY <1>2, <2>1 DEF InitPlan, SelectionInv
<1>3. CASE SelectWinner
  <2>1. UNCHANGED <<request, candidates>> /\ request # None
    BY <1>3 DEF SelectWinner, Queried
  <2>2. answer'.status \in {"SUCCESS", "EXECUTION_FAILED"}
    BY <1>3 DEF SelectWinner
  <2>3. answer'.id = IF HasTable(TypesAsked(request))
                     THEN UniqueId(TableOf(TypesAsked(request)), request.strides, request.past,
                                   request.oneInB \/ 1 \in Range(request.lengths))
                     ELSE NoId
    BY <1>3 DEF SelectWinner
  <2> QED BY <2>1, <2>2, <2>3 DEF SelectionInv
<1>4. CASE Finish
  BY <1>4 DEF Finish, SelectionInv
<1>5. CASE UNCHANGED vars
  BY <1>5 DEF vars, SelectionInv
<1> QED BY <1>1, <1>2, <1>3, <1>4, <1>5 DEF Next

LEMMA SelectionInvariant == Spec => []SelectionInv
<1>1. Init => SelectionInv
  BY DEF Init, SelectionInv
<1> QED BY <1>1, SelectionStep, PTL DEF Spec

\* Once queried, the candidates are what the queries find.
LEMMA CandidatesQueried ==
  ASSUME SelectionInv, Queried
  PROVE  request \in Requests /\ candidates = QueryKernels(request)
BY DEF SelectionInv, Queried

LEMMA MinOfRanks ==
  ASSUME NEW ones \in SUBSET (1..6), ones # {}
  PROVE  Min(ones) \in ones /\ \A r \in ones: Min(ones) <= r
<1>1. PICK x \in ones: \A y \in ones: x <= y
  BY LeastNatural
<1> QED BY <1>1 DEF Min

\* The ids of a table are its own.
LEMMA TableIds ==
  ASSUME NEW types, HasTable(types)
  PROVE  /\ DOMAIN TableOf(types).ids = 1..6
         /\ \A r \in 1..6: TableOf(types).ids[r] # NoId
<1>1. ASSUME NEW name, name # "0", NEW ids, NEW dim1
      PROVE  /\ DOMAIN Table(name, ids, dim1).ids = 1..6
             /\ \A r \in 1..6: Table(name, ids, dim1).ids[r] # NoId
  BY <1>1 DEF Table, NoId
<1>2. TableOf(types) \in {F16_F32_Scale, F16_F32_Bilinear, BF16_F32_Scale, BF16_F32_Bilinear,
          F32_F16_Scale, F32_F16_Bilinear, F32_BF16_Scale, F32_BF16_Bilinear,
          F32_F32_Scale, F32_F32_Bilinear, F64_F32_Scale, F64_F32_Bilinear,
          F64_F64_Scale, F64_F64_Bilinear, CF32_CF32_Scale, CF32_CF32_Bilinear,
          CF64_CF64_Scale, CF64_CF64_Bilinear}
  BY DEF HasTable, TableOf
<1> HIDE DEF Table
<1> QED
  BY <1>1, <1>2
  DEF F16_F32_Scale, F16_F32_Bilinear, BF16_F32_Scale, BF16_F32_Bilinear,
      F32_F16_Scale, F32_F16_Bilinear, F32_BF16_Scale, F32_BF16_Bilinear,
      F32_F32_Scale, F32_F32_Bilinear, F64_F32_Scale, F64_F32_Bilinear,
      F64_F64_Scale, F64_F64_Bilinear, CF32_CF32_Scale, CF32_CF32_Bilinear,
      CF64_CF64_Scale, CF64_CF64_Bilinear

LEMMA UniqueIdOfTable ==
  ASSUME NEW types, HasTable(types), NEW strides, NEW past, NEW dim1
  PROVE  UniqueId(TableOf(types), strides, past, dim1)
           \in {NoId, TableOf(types).dim1} \cup Range(TableOf(types).ids)
<1> DEFINE ones == {r \in 1..6: StrideRead(strides, past, r) = 1}
<1>1. ones # {} => Min(ones) \in 1..6
  BY MinOfRanks
<1> HIDE DEF ones
<1>2. ones # {} => TableOf(types).ids[Min(ones)] \in Range(TableOf(types).ids)
  BY <1>1, TableIds DEF Range
<1> QED BY <1>2 DEF UniqueId, ones

-----------------------------------------------------------------------------
\* Candidates are registered solutions, and selectWinner's id is a constant of
\* the table for the request's types or none.
THEOREM KernelSelectionTypeOK == Spec => []TypeOK
<1>1. SelectionInv => TypeOK
  <2> SUFFICES ASSUME SelectionInv PROVE TypeOK
    OBVIOUS
  <2>1. CASE answer = None
    BY <2>1 DEF SelectionInv, TypeOK
  <2>2. CASE answer # None
    <3> DEFINE table == TableOf(TypesAsked(request))
    <3>1. answer.id \in {NoId, table.dim1} \cup Range(table.ids)
      BY <2>2, UniqueIdOfTable DEF SelectionInv
    <3> HIDE DEF table
    <3> QED BY <2>2, <3>1 DEF SelectionInv, TypeOK, table
  <2> QED BY <2>1, <2>2
<1> QED BY <1>1, SelectionInvariant, PTL

\* Whatever programs describe, the two queries of hiptensorInitContractionPlan
\* leave exactly the registered kernels of its operation and types.
THEOREM KernelSelectionQueryExact == Spec => []QueryExact
<1>1. SelectionInv => QueryExact
  BY CandidatesQueried, QueriesFind DEF QueryExact
<1> QED BY <1>1, SelectionInvariant, PTL

\* Kernels are found exactly for the types actorCriticModel has a branch for.
THEOREM KernelSelectionDispatch == Spec => []DispatchMeetsRegistry
<1>1. ASSUME NEW r \in Requests PROVE QueryKernels(r) # {} <=> HasTable(TypesAsked(r))
  <2>1. ASSUME HasTable(TypesAsked(r)) PROVE QueryKernels(r) # {}
    <3>1. PICK op, t: QueryKernels(r) = Files(op, t)
      BY <2>1, CandidatesWithTable
    <3>2. <<"k", "k">> \in {k.fast : k \in Files(op, t)}
      BY FilesLayouts
    <3> QED BY <3>1, <3>2
  <2> QED BY <2>1, CandidatesWithoutTable
<1>2. SelectionInv => DispatchMeetsRegistry
  BY <1>1, CandidatesQueried DEF DispatchMeetsRegistry
<1> QED BY <1>2, SelectionInvariant, PTL

\* Where a contraction has kernels, it has one for each layout of A and B.
THEOREM KernelSelectionLayouts == Spec => []EveryLayoutServed
<1>1. ASSUME NEW r \in Requests, QueryKernels(r) # {}
      PROVE  {k.fast : k \in QueryKernels(r)} = {"k", "m"} \X {"k", "n"}
  <2>1. HasTable(TypesAsked(r))
    BY <1>1, CandidatesWithoutTable
  <2>2. PICK op, t: QueryKernels(r) = Files(op, t)
    BY <2>1, CandidatesWithTable
  <2> QED BY <2>2, FilesLayouts
<1>2. SelectionInv => EveryLayoutServed
  BY <1>1, CandidatesQueried DEF EveryLayoutServed
<1> QED BY <1>2, SelectionInvariant, PTL

\* Candidates accumulate in the type the compute type calls for, and double data
\* gets the tiles made for it.
THEOREM KernelSelectionPrecision == Spec => []PrecisionKept
<1>1. ASSUME NEW r \in Requests, NEW k \in QueryKernels(r)
      PROVE  /\ k.acc = IF r.compute \in {"COMPUTE_64F", "COMPUTE_C64F"} THEN "F64" ELSE "F32"
             /\ k.wide = (r.a \in {"R_64F", "C_64F"})
  <2>1. HasTable(TypesAsked(r))
    BY CandidatesWithoutTable
  <2>2. PICK op, t: /\ <<op, t>> \in Supported /\ RunTypes(t) = TypesAsked(r)
                    /\ QueryKernels(r) = Files(op, t)
    BY <2>1, CandidatesWithTable
  <2>3. k.acc = Accumulator(t.compute) /\ k.wide = Wide(t.a)
    BY <2>2, KernelOfFiles
  <2>4. /\ t.compute \in {"F64", "CF64"} <=> r.compute \in {"COMPUTE_64F", "COMPUTE_C64F"}
        /\ Wide(t.a) <=> r.a \in {"R_64F", "C_64F"}
    BY <2>2, SupportedWidths DEF TypesAsked
  <2>5. Wide(t.a) = (r.a \in {"R_64F", "C_64F"})
    BY <2>4 DEF Wide
  <2> QED BY <2>3, <2>4, <2>5 DEF Accumulator
<1>2. SelectionInv => PrecisionKept
  BY <1>1, CandidatesQueried DEF PrecisionKept
<1> QED BY <1>2, SelectionInvariant, PTL

\* hiptensorContractionReference finds one solution for what the device supports
\* and none for the rest, with the operation, types and accumulator of each kernel.
THEOREM KernelSelectionReference == Spec => []OneReference
<1>1. ASSUME NEW r \in Requests
      PROVE  /\ ReferenceStatus(r) = "SUCCESS" <=> QueryKernels(r) # {}
             /\ \A ref \in ReferenceCandidates(r), k \in QueryKernels(r):
                  ref.op = k.op /\ ref.acc = k.acc /\ Params(ref) = Params(k)
  <2>1. CASE HasTable(TypesAsked(r))
    <3>1. PICK op, t: /\ <<op, t>> \in Supported /\ QueryKernels(r) = Files(op, t)
                      /\ ReferenceCandidates(r) = {Reference(op, t)}
      BY <2>1, CandidatesWithTable
    <3>2. QueryKernels(r) # {}
      <4>1. <<"k", "k">> \in {k.fast : k \in Files(op, t)}
        BY FilesLayouts
      <4> QED BY <3>1, <4>1
    <3>3. Cardinality(ReferenceCandidates(r)) = 1
      BY <3>1, FS_Singleton
    <3>4. ASSUME NEW k \in QueryKernels(r)
          PROVE  /\ Reference(op, t).op = k.op /\ Reference(op, t).acc = k.acc
                 /\ Params(Reference(op, t)) = Params(k)
      <4>1. /\ k.op = op /\ k.dims = <<6, 6, 6>> /\ Params(k).types = RunTypes(t)
            /\ k.acc = Accumulator(t.compute)
        BY <3>1, KernelOfFiles
      <4>2. Params(k) = [dims |-> k.dims, types |-> Params(k).types,
                         ops |-> <<"IDENTITY", "IDENTITY">>, opCDE |-> ContractionOpId(k.op)]
        BY DEF Params
      <4> QED BY <4>1, <4>2, ReferenceParams
    <3> QED BY <3>1, <3>2, <3>3, <3>4 DEF ReferenceStatus
  <2>2. CASE ~HasTable(TypesAsked(r))
    <3>1. QueryKernels(r) = {} /\ ReferenceCandidates(r) = {}
      BY <2>2, CandidatesWithoutTable
    <3>2. Cardinality(ReferenceCandidates(r)) = 0
      BY <3>1, FS_EmptySet
    <3> QED BY <3>1, <3>2 DEF ReferenceStatus
  <2> QED BY <2>1, <2>2
<1>2. SelectionInv => OneReference
  BY <1>1, CandidatesQueried DEF OneReference
<1> QED BY <1>2, SelectionInvariant, PTL

\* The strides that the tables test: of a packed row-major A with 2r modes,
\* the one of rank r is 1, and none before it is unless a length is 1 or the
\* strides do not fit an int.
LEMMA StridesTested ==
  ASSUME NEW lengths \in Seq(Nat), NEW rank \in 1..6, Len(lengths) = 2 * rank, NEW past
  PROVE  /\ StrideRead(StridesFromLengths(lengths, FALSE), past, rank) = 1
         /\ 1 \notin Range(lengths) /\ FitsIndex(StridesFromLengths(lengths, FALSE))
              => \A q \in 1..6: q < rank
                   => StrideRead(StridesFromLengths(lengths, FALSE), past, q) # 1
<1> DEFINE strides == StridesFromLengths(lengths, FALSE)
           read(q) == StrideRead(strides, past, q)
<1>1. Len(strides) = 2 * rank /\ 2 * rank \in 1..Len(lengths)
  <2>1. 2 * rank \in 1..Len(lengths)
    OBVIOUS
  <2>2. Len(strides) = Len(lengths)
    BY <2>1, RowMajorStrides
  <2> HIDE DEF strides
  <2> QED BY <2>1, <2>2
<1>2. read(rank) = 1
  <2>1. strides[2 * rank] = 1
    BY <1>1, RowMajorStrides
  <2> HIDE DEF strides
  <2>2. Index(1) = 1
    BY IndexFits, IndexAssumption
  <2> QED BY <1>1, <2>1, <2>2 DEF StrideRead
<1>3. ASSUME 1 \notin Range(lengths), FitsIndex(strides), NEW q \in 1..6, q < rank PROVE read(q) # 1
  <2>1. 2 * q \in 1..Len(lengths) /\ 2 * rank \in 2 * q + 1..Len(lengths)
    BY <1>3
  <2>2. lengths[2 * rank] \in Range(lengths)
    BY <1>1 DEF Range
  <2>3. strides[2 * q] # 1
    BY <1>3, <2>1, <2>2, RowMajorStrides
  <2>4. strides \in Seq(Nat)
    BY PackedTyped
  <2> HIDE DEF strides
  <2>5. 2 * q <= Len(strides) /\ 2 * q \in DOMAIN strides
    BY <1>1, <1>3, <2>4
  <2>6. Index(strides[2 * q]) = strides[2 * q]
    BY <1>3, <2>4, <2>5, IndexFits DEF FitsIndex
  <2> QED BY <2>3, <2>5, <2>6 DEF StrideRead
<1> QED BY <1>2, <1>3

\* A supported contraction of packed row-major tensors with 2r modes, r at most
\* 6, gets an id from its table, and that of its rank where no length is 1 and
\* every stride fits the int it is read as, whatever is in memory past the
\* strides of A.
THEOREM KernelSelectionRankEntry == Spec => []RankEntryChosen
<1>1. ASSUME NEW r \in Requests, NEW rank \in 1..6, Len(r.lengths) = 2 * rank,
             r.strides = StridesFromLengths(r.lengths, FALSE), HasTable(TypesAsked(r))
      PROVE  LET table == TableOf(TypesAsked(r))
                 id == UniqueId(table, r.strides, r.past, r.oneInB \/ 1 \in Range(r.lengths))
             IN /\ id # NoId
                /\ 1 \notin Range(r.lengths) /\ ~r.oneInB /\ FitsIndex(r.strides)
                     => id = table.ids[rank]
  <2> DEFINE table == TableOf(TypesAsked(r))
             ones == {q \in 1..6: StrideRead(r.strides, r.past, q) = 1}
             dim1 == r.oneInB \/ 1 \in Range(r.lengths)
             id == UniqueId(table, r.strides, r.past, dim1)
  <2>1. r.lengths \in Seq(Nat)
    BY RequestsAssumption
  <2> DEFINE distinct == 1 \notin Range(r.lengths) /\ FitsIndex(r.strides)
  <2>2. rank \in ones /\ (distinct => \A q \in ones: rank <= q)
    <3> DEFINE read(q) == StrideRead(r.strides, r.past, q)
    <3>0. r.strides = StridesFromLengths(r.lengths, FALSE)
      BY <1>1
    <3>1. read(rank) = 1 /\ (distinct => \A q \in 1..6: q < rank => read(q) # 1)
      <4> DEFINE packed == StridesFromLengths(r.lengths, FALSE)
      <4>1. /\ StrideRead(packed, r.past, rank) = 1
            /\ 1 \notin Range(r.lengths) /\ FitsIndex(packed)
                 => \A q \in 1..6: q < rank => StrideRead(packed, r.past, q) # 1
        <5>1. Len(r.lengths) = 2 * rank
          BY <1>1
        <5> QED BY <2>1, <5>1, StridesTested
      <4>2. packed = r.strides
        BY <3>0
      <4> HIDE DEF packed
      <4> QED BY <4>1, <4>2
    <3>2. ones = {q \in 1..6: read(q) = 1}
      OBVIOUS
    <3> HIDE DEF ones, read, distinct
    <3> QED BY <3>1, <3>2
  <2>3. Min(ones) \in ones /\ \A q \in ones: Min(ones) <= q
    BY <2>2, MinOfRanks
  <2>4. distinct => Min(ones) = rank
    <3>1. ones \subseteq 1..6 /\ rank \in 1..6
      OBVIOUS
    <3> DEFINE least == Min(ones)
    <3>2. least \in ones /\ \A q \in ones: least <= q
      BY <2>3
    <3> HIDE DEF ones, distinct, least
    <3>3. distinct => least = rank
      BY <2>2, <3>1, <3>2
    <3> QED BY <3>3 DEF least
  <2>5. table.ids[Min(ones)] # NoId
    BY <1>1, <2>3, TableIds
  <2>6. id = IF table.dim1 # NoId /\ dim1 /\ 2 \in ones THEN table.dim1
             ELSE IF ones = {} THEN NoId ELSE table.ids[Min(ones)]
    BY DEF UniqueId
  <2> HIDE DEF table, ones, id
  <2>7. id # NoId
    BY <2>2, <2>5, <2>6
  <2>8. distinct /\ ~r.oneInB => id = table.ids[rank]
    BY <2>2, <2>4, <2>6
  <2> QED BY <2>7, <2>8 DEF table, id
<1>2. SelectionInv => RankEntryChosen
  <2> SUFFICES ASSUME SelectionInv, answer # None, HasTable(TypesAsked(request)),
                      request.strides = StridesFromLengths(request.lengths, FALSE),
                      NEW rank \in 1..6, Len(request.lengths) = 2 * rank
               PROVE  /\ answer.id # NoId
                      /\ 1 \notin Range(request.lengths) /\ ~request.oneInB
                           /\ FitsIndex(request.strides)
                           => answer.id = TableOf(TypesAsked(request)).ids[Len(request.lengths) \div 2]
    BY DEF RankEntryChosen
  <2>1. request \in Requests
    BY DEF SelectionInv
  <2>2. answer.id = UniqueId(TableOf(TypesAsked(request)), request.strides, request.past,
                             request.oneInB \/ 1 \in Range(request.lengths))
    BY DEF SelectionInv
  <2>3. Len(request.lengths) \div 2 = rank
    <3>1. \A n \in 1..6: (2 * n) \div 2 = n
      OBVIOUS
    <3> QED BY <3>1
  <2> QED BY <1>1, <2>1, <2>2, <2>3
<1> QED BY <1>2, SelectionInvariant, PTL
=============================================================================

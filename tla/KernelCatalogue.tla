--------------------------- MODULE KernelCatalogue ---------------------------
(***************************************************************************)
(* The contraction kernels of hipTensor: what each file of                   *)
(* library/src/contraction/device instantiates, the factories that collect   *)
(* the files, and the solutions ContractionSolutionInstances registers.      *)
(*                                                                          *)
(* The several tile sizes of a file are one kernel here: they differ in      *)
(* nothing the registry or a query can see but their uid.                    *)
(***************************************************************************)
EXTENDS Naturals, Sequences, FiniteSets

\* CK's instance templates: the contiguous modes of A and B, and whether the
\* tiles are those for 64-bit data.
Families ==
  [f \in {"kk", "kn", "mk", "mn", "f64_kk", "f64_kn", "f64_mk", "f64_mn"} |->
     [fast |-> IF f \in {"kk", "f64_kk"} THEN <<"k", "k">>
               ELSE IF f \in {"kn", "f64_kn"} THEN <<"k", "n">>
               ELSE IF f \in {"mk", "f64_mk"} THEN <<"m", "k">> ELSE <<"m", "n">>,
      wide |-> f \in {"f64_kk", "f64_kn", "f64_mk", "f64_mn"}]]

\* One kernel: the arguments of the template.  Every file passes PassThrough
\* for A and B and 6 modes of each kind.
Xdl(family, a, b, acc, shuffle, d, e, compute, op) ==
  [fast |-> Families[family].fast, wide |-> Families[family].wide,
   a |-> a, b |-> b, acc |-> acc, shuffle |-> shuffle, d |-> d, e |-> e,
   compute |-> compute, op |-> op, dims |-> <<6, 6, 6>>,
   opA |-> "PassThrough", opB |-> "PassThrough"]

-----------------------------------------------------------------------------
\* The files, device_contraction_<name>_instance.cpp.

\* Mutant: the file of the mn kernels instantiates the mk ones.
scale_f64_mnn_as_mkn ==
  Xdl("f64_mk", "F64", "F64", "F64", "F64", "none", "F64", "F64", "Scale")

\* Mutant: a double kernel that accumulates in float.
bilinear_f64_kknn_in_float ==
  Xdl("f64_kk", "F64", "F64", "F32", "F64", "F64", "F64", "F64", "Bilinear")

bilinear_bf16_compute_f32_kknn  == Xdl("kk", "BF16", "BF16", "F32", "BF16", "BF16", "BF16", "F32", "Bilinear")
bilinear_bf16_compute_f32_knnn  == Xdl("kn", "BF16", "BF16", "F32", "BF16", "BF16", "BF16", "F32", "Bilinear")
bilinear_bf16_compute_f32_mknn  == Xdl("mk", "BF16", "BF16", "F32", "BF16", "BF16", "BF16", "F32", "Bilinear")
bilinear_bf16_compute_f32_mnnn  == Xdl("mn", "BF16", "BF16", "F32", "BF16", "BF16", "BF16", "F32", "Bilinear")
bilinear_cf32_compute_cf32_kknn == Xdl("kk", "CF32", "CF32", "F32", "F32", "CF32", "CF32", "CF32", "BilinearComplex")
bilinear_cf32_compute_cf32_knnn == Xdl("kn", "CF32", "CF32", "F32", "F32", "CF32", "CF32", "CF32", "BilinearComplex")
bilinear_cf32_compute_cf32_mknn == Xdl("mk", "CF32", "CF32", "F32", "F32", "CF32", "CF32", "CF32", "BilinearComplex")
bilinear_cf32_compute_cf32_mnnn == Xdl("mn", "CF32", "CF32", "F32", "F32", "CF32", "CF32", "CF32", "BilinearComplex")
bilinear_cf64_compute_cf64_kknn == Xdl("f64_kk", "CF64", "CF64", "F64", "F64", "CF64", "CF64", "CF64", "BilinearComplex")
bilinear_cf64_compute_cf64_knnn == Xdl("f64_kn", "CF64", "CF64", "F64", "F64", "CF64", "CF64", "CF64", "BilinearComplex")
bilinear_cf64_compute_cf64_mknn == Xdl("f64_mk", "CF64", "CF64", "F64", "F64", "CF64", "CF64", "CF64", "BilinearComplex")
bilinear_cf64_compute_cf64_mnnn == Xdl("f64_mn", "CF64", "CF64", "F64", "F64", "CF64", "CF64", "CF64", "BilinearComplex")
bilinear_f16_compute_f32_kknn   == Xdl("kk", "F16", "F16", "F32", "F16", "F16", "F16", "F32", "Bilinear")
bilinear_f16_compute_f32_knnn   == Xdl("kn", "F16", "F16", "F32", "F16", "F16", "F16", "F32", "Bilinear")
bilinear_f16_compute_f32_mknn   == Xdl("mk", "F16", "F16", "F32", "F16", "F16", "F16", "F32", "Bilinear")
bilinear_f16_compute_f32_mnnn   == Xdl("mn", "F16", "F16", "F32", "F16", "F16", "F16", "F32", "Bilinear")
bilinear_f32_compute_bf16_kknn  == Xdl("kk", "F32", "F32", "F32", "F32", "F32", "F32", "BF16", "Bilinear")
bilinear_f32_compute_bf16_knnn  == Xdl("kn", "F32", "F32", "F32", "F32", "F32", "F32", "BF16", "Bilinear")
bilinear_f32_compute_bf16_mknn  == Xdl("mk", "F32", "F32", "F32", "F32", "F32", "F32", "BF16", "Bilinear")
bilinear_f32_compute_bf16_mnnn  == Xdl("mn", "F32", "F32", "F32", "F32", "F32", "F32", "BF16", "Bilinear")
bilinear_f32_compute_f16_kknn   == Xdl("kk", "F32", "F32", "F32", "F32", "F32", "F32", "F16", "Bilinear")
bilinear_f32_compute_f16_knnn   == Xdl("kn", "F32", "F32", "F32", "F32", "F32", "F32", "F16", "Bilinear")
bilinear_f32_compute_f16_mknn   == Xdl("mk", "F32", "F32", "F32", "F32", "F32", "F32", "F16", "Bilinear")
bilinear_f32_compute_f16_mnnn   == Xdl("mn", "F32", "F32", "F32", "F32", "F32", "F32", "F16", "Bilinear")
bilinear_f32_kknn               == Xdl("kk", "F32", "F32", "F32", "F32", "F32", "F32", "F32", "Bilinear")
bilinear_f32_knnn               == Xdl("kn", "F32", "F32", "F32", "F32", "F32", "F32", "F32", "Bilinear")
bilinear_f32_mknn               == Xdl("mk", "F32", "F32", "F32", "F32", "F32", "F32", "F32", "Bilinear")
bilinear_f32_mnnn               == Xdl("mn", "F32", "F32", "F32", "F32", "F32", "F32", "F32", "Bilinear")
bilinear_f64_compute_f32_kknn   == Xdl("f64_kk", "F64", "F64", "F32", "F64", "F64", "F64", "F32", "Bilinear")
bilinear_f64_compute_f32_knnn   == Xdl("f64_kn", "F64", "F64", "F32", "F64", "F64", "F64", "F32", "Bilinear")
bilinear_f64_compute_f32_mknn   == Xdl("f64_mk", "F64", "F64", "F32", "F64", "F64", "F64", "F32", "Bilinear")
bilinear_f64_compute_f32_mnnn   == Xdl("f64_mn", "F64", "F64", "F32", "F64", "F64", "F64", "F32", "Bilinear")
bilinear_f64_kknn               == Xdl("f64_kk", "F64", "F64", "F64", "F64", "F64", "F64", "F64", "Bilinear")
bilinear_f64_knnn               == Xdl("f64_kn", "F64", "F64", "F64", "F64", "F64", "F64", "F64", "Bilinear")
bilinear_f64_mknn               == Xdl("f64_mk", "F64", "F64", "F64", "F64", "F64", "F64", "F64", "Bilinear")
bilinear_f64_mnnn               == Xdl("f64_mn", "F64", "F64", "F64", "F64", "F64", "F64", "F64", "Bilinear")
scale_bf16_compute_f32_kkn      == Xdl("kk", "BF16", "BF16", "F32", "BF16", "none", "BF16", "F32", "Scale")
scale_bf16_compute_f32_knn      == Xdl("kn", "BF16", "BF16", "F32", "BF16", "none", "BF16", "F32", "Scale")
scale_bf16_compute_f32_mkn      == Xdl("mk", "BF16", "BF16", "F32", "BF16", "none", "BF16", "F32", "Scale")
scale_bf16_compute_f32_mnn      == Xdl("mn", "BF16", "BF16", "F32", "BF16", "none", "BF16", "F32", "Scale")
scale_cf32_compute_cf32_kkn     == Xdl("kk", "CF32", "CF32", "F32", "F32", "none", "CF32", "CF32", "ScaleComplex")
scale_cf32_compute_cf32_knn     == Xdl("kn", "CF32", "CF32", "F32", "F32", "none", "CF32", "CF32", "ScaleComplex")
scale_cf32_compute_cf32_mkn     == Xdl("mk", "CF32", "CF32", "F32", "F32", "none", "CF32", "CF32", "ScaleComplex")
scale_cf32_compute_cf32_mnn     == Xdl("mn", "CF32", "CF32", "F32", "F32", "none", "CF32", "CF32", "ScaleComplex")
scale_cf64_compute_cf64_kkn     == Xdl("f64_kk", "CF64", "CF64", "F64", "F64", "none", "CF64", "CF64", "ScaleComplex")
scale_cf64_compute_cf64_knn     == Xdl("f64_kn", "CF64", "CF64", "F64", "F64", "none", "CF64", "CF64", "ScaleComplex")
scale_cf64_compute_cf64_mkn     == Xdl("f64_mk", "CF64", "CF64", "F64", "F64", "none", "CF64", "CF64", "ScaleComplex")
scale_cf64_compute_cf64_mnn     == Xdl("f64_mn", "CF64", "CF64", "F64", "F64", "none", "CF64", "CF64", "ScaleComplex")
scale_f16_compute_f32_kkn       == Xdl("kk", "F16", "F16", "F32", "F16", "none", "F16", "F32", "Scale")
scale_f16_compute_f32_knn       == Xdl("kn", "F16", "F16", "F32", "F16", "none", "F16", "F32", "Scale")
scale_f16_compute_f32_mkn       == Xdl("mk", "F16", "F16", "F32", "F16", "none", "F16", "F32", "Scale")
scale_f16_compute_f32_mnn       == Xdl("mn", "F16", "F16", "F32", "F16", "none", "F16", "F32", "Scale")
scale_f32_compute_bf16_kkn      == Xdl("kk", "F32", "F32", "F32", "F32", "none", "F32", "BF16", "Scale")
scale_f32_compute_bf16_knn      == Xdl("kn", "F32", "F32", "F32", "F32", "none", "F32", "BF16", "Scale")
scale_f32_compute_bf16_mkn      == Xdl("mk", "F32", "F32", "F32", "F32", "none", "F32", "BF16", "Scale")
scale_f32_compute_bf16_mnn      == Xdl("mn", "F32", "F32", "F32", "F32", "none", "F32", "BF16", "Scale")
scale_f32_compute_f16_kkn       == Xdl("kk", "F32", "F32", "F32", "F32", "none", "F32", "F16", "Scale")
scale_f32_compute_f16_knn       == Xdl("kn", "F32", "F32", "F32", "F32", "none", "F32", "F16", "Scale")
scale_f32_compute_f16_mkn       == Xdl("mk", "F32", "F32", "F32", "F32", "none", "F32", "F16", "Scale")
scale_f32_compute_f16_mnn       == Xdl("mn", "F32", "F32", "F32", "F32", "none", "F32", "F16", "Scale")
scale_f32_kkn                   == Xdl("kk", "F32", "F32", "F32", "F32", "none", "F32", "F32", "Scale")
scale_f32_knn                   == Xdl("kn", "F32", "F32", "F32", "F32", "none", "F32", "F32", "Scale")
scale_f32_mkn                   == Xdl("mk", "F32", "F32", "F32", "F32", "none", "F32", "F32", "Scale")
scale_f32_mnn                   == Xdl("mn", "F32", "F32", "F32", "F32", "none", "F32", "F32", "Scale")
scale_f64_compute_f32_kkn       == Xdl("f64_kk", "F64", "F64", "F32", "F64", "none", "F64", "F32", "Scale")
scale_f64_compute_f32_knn       == Xdl("f64_kn", "F64", "F64", "F32", "F64", "none", "F64", "F32", "Scale")
scale_f64_compute_f32_mkn       == Xdl("f64_mk", "F64", "F64", "F32", "F64", "none", "F64", "F32", "Scale")
scale_f64_compute_f32_mnn       == Xdl("f64_mn", "F64", "F64", "F32", "F64", "none", "F64", "F32", "Scale")
scale_f64_kkn                   == Xdl("f64_kk", "F64", "F64", "F64", "F64", "none", "F64", "F64", "Scale")
scale_f64_knn                   == Xdl("f64_kn", "F64", "F64", "F64", "F64", "none", "F64", "F64", "Scale")
scale_f64_mkn                   == Xdl("f64_mk", "F64", "F64", "F64", "F64", "none", "F64", "F64", "Scale")
scale_f64_mnn                   == Xdl("f64_mn", "F64", "F64", "F64", "F64", "none", "F64", "F64", "Scale")

-----------------------------------------------------------------------------
\* The types of a solution, as template arguments: hipFloatComplex is
\* HIP_vector_type<float, 2>, ck::Tuple<> is "none".
Types(a, b, d, e, compute) == [a |-> a, b |-> b, d |-> d, e |-> e, compute |-> compute]
TypesOf(k) == Types(k.a, k.b, k.d, k.e, k.compute)

RealKernels ==
  {bilinear_bf16_compute_f32_kknn, bilinear_bf16_compute_f32_knnn, bilinear_bf16_compute_f32_mknn,
   bilinear_bf16_compute_f32_mnnn, bilinear_f16_compute_f32_kknn, bilinear_f16_compute_f32_knnn,
   bilinear_f16_compute_f32_mknn, bilinear_f16_compute_f32_mnnn, bilinear_f32_compute_bf16_kknn,
   bilinear_f32_compute_bf16_knnn, bilinear_f32_compute_bf16_mknn, bilinear_f32_compute_bf16_mnnn,
   bilinear_f32_compute_f16_kknn, bilinear_f32_compute_f16_knnn, bilinear_f32_compute_f16_mknn,
   bilinear_f32_compute_f16_mnnn, bilinear_f32_kknn, bilinear_f32_knnn, bilinear_f32_mknn,
   bilinear_f32_mnnn, bilinear_f64_compute_f32_kknn, bilinear_f64_compute_f32_knnn,
   bilinear_f64_compute_f32_mknn, bilinear_f64_compute_f32_mnnn, bilinear_f64_kknn,
   bilinear_f64_knnn, bilinear_f64_mknn, bilinear_f64_mnnn, scale_bf16_compute_f32_kkn,
   scale_bf16_compute_f32_knn, scale_bf16_compute_f32_mkn, scale_bf16_compute_f32_mnn,
   scale_f16_compute_f32_kkn, scale_f16_compute_f32_knn, scale_f16_compute_f32_mkn,
   scale_f16_compute_f32_mnn, scale_f32_compute_bf16_kkn, scale_f32_compute_bf16_knn,
   scale_f32_compute_bf16_mkn, scale_f32_compute_bf16_mnn, scale_f32_compute_f16_kkn,
   scale_f32_compute_f16_knn, scale_f32_compute_f16_mkn, scale_f32_compute_f16_mnn, scale_f32_kkn,
   scale_f32_knn, scale_f32_mkn, scale_f32_mnn, scale_f64_compute_f32_kkn,
   scale_f64_compute_f32_knn, scale_f64_compute_f32_mkn, scale_f64_compute_f32_mnn, scale_f64_kkn,
   scale_f64_knn, scale_f64_mkn, scale_f64_mnn}

\* CK's factory for real types: the kernels of the files declared with them.
RealFactory(op, types) == {k \in RealKernels: k.op = op /\ TypesOf(k) = types}

\* hipTensor's factories for complex types.
BilinearComplexFactory(types) ==
  CASE types = Types("CF32", "CF32", "CF32", "CF32", "CF32") ->
         {bilinear_cf32_compute_cf32_kknn, bilinear_cf32_compute_cf32_knnn,
          bilinear_cf32_compute_cf32_mknn, bilinear_cf32_compute_cf32_mnnn}
    [] types = Types("CF64", "CF64", "CF64", "CF64", "CF64") ->
         {bilinear_cf64_compute_cf64_kknn, bilinear_cf64_compute_cf64_knnn,
          bilinear_cf64_compute_cf64_mknn, bilinear_cf64_compute_cf64_mnnn}
    [] OTHER -> {}

ScaleComplexFactory(types) ==
  CASE types = Types("CF32", "CF32", "none", "CF32", "CF32") ->
         {scale_cf32_compute_cf32_kkn, scale_cf32_compute_cf32_knn,
          scale_cf32_compute_cf32_mkn, scale_cf32_compute_cf32_mnn}
    [] types = Types("CF64", "CF64", "none", "CF64", "CF64") ->
         {scale_cf64_compute_cf64_kkn, scale_cf64_compute_cf64_knn,
          scale_cf64_compute_cf64_mkn, scale_cf64_compute_cf64_mnn}
    [] OTHER -> {}

\* enumerateContractionSolutions<6, 6, 6, ...>: a solution for each kernel of
\* the factory the types select.
EnumerateContractionSolutions(op, types) ==
  CASE op = "BilinearComplex" -> BilinearComplexFactory(types)
    [] op = "ScaleComplex"    -> ScaleComplexFactory(types)
    [] OTHER                  -> RealFactory(op, types)

\* Mutant: the half precision registration passes the wrong compute type.
BilinearRegistrationsHalf ==
  <<Types("BF16", "BF16", "BF16", "BF16", "F32"), Types("F16", "F16", "F16", "F16", "F16"),
    Types("F32", "F32", "F32", "F32", "F32"), Types("F32", "F32", "F32", "F32", "F16"),
    Types("F32", "F32", "F32", "F32", "BF16"), Types("CF32", "CF32", "CF32", "CF32", "CF32"),
    Types("F64", "F64", "F64", "F64", "F32"), Types("F64", "F64", "F64", "F64", "F64"),
    Types("CF64", "CF64", "CF64", "CF64", "CF64")>>

\* What the constructor of ContractionSolutionInstances registers, in order.
BilinearRegistrations ==
  <<Types("BF16", "BF16", "BF16", "BF16", "F32"), Types("F16", "F16", "F16", "F16", "F32"),
    Types("F32", "F32", "F32", "F32", "F32"), Types("F32", "F32", "F32", "F32", "F16"),
    Types("F32", "F32", "F32", "F32", "BF16"), Types("CF32", "CF32", "CF32", "CF32", "CF32"),
    Types("F64", "F64", "F64", "F64", "F32"), Types("F64", "F64", "F64", "F64", "F64"),
    Types("CF64", "CF64", "CF64", "CF64", "CF64")>>

ScaleRegistrations ==
  <<Types("BF16", "BF16", "none", "BF16", "F32"), Types("F16", "F16", "none", "F16", "F32"),
    Types("F32", "F32", "none", "F32", "F32"), Types("F32", "F32", "none", "F32", "F16"),
    Types("F32", "F32", "none", "F32", "BF16"), Types("CF32", "CF32", "none", "CF32", "CF32"),
    Types("F64", "F64", "none", "F64", "F32"), Types("F64", "F64", "none", "F64", "F64"),
    Types("CF64", "CF64", "none", "CF64", "CF64")>>

IsComplex(types) == types.compute \in {"CF32", "CF64"}

\* One batch of solutions for each call of registerSolutions.
Registrations ==
  [i \in 1..18 |->
     IF i <= 9
     THEN LET t == BilinearRegistrations[i] IN
          EnumerateContractionSolutions(IF IsComplex(t) THEN "BilinearComplex" ELSE "Bilinear", t)
     ELSE LET t == ScaleRegistrations[i - 9] IN
          EnumerateContractionSolutions(IF IsComplex(t) THEN "ScaleComplex" ELSE "Scale", t)]
-----------------------------------------------------------------------------
\* The CPU reference's own registry (contraction_cpu_reference_instances.cpp).

\* enumerateReferenceSolutions<6, 6, 6, ...>: one solution, for any layout.
EnumerateReferenceSolutions(a, b, acc, d, e, compute, op) ==
  {[a |-> a, b |-> b, acc |-> acc, d |-> d, e |-> e, compute |-> compute, op |-> op,
    dims |-> <<6, 6, 6>>, opA |-> "PassThrough", opB |-> "PassThrough"]}

BilinearReferences ==
  <<EnumerateReferenceSolutions("F16", "F16", "F32", "F16", "F16", "F32", "Bilinear"),
    EnumerateReferenceSolutions("BF16", "BF16", "F32", "BF16", "BF16", "F32", "Bilinear"),
    EnumerateReferenceSolutions("F32", "F32", "F32", "F32", "F32", "F16", "Bilinear"),
    EnumerateReferenceSolutions("F32", "F32", "F32", "F32", "F32", "BF16", "Bilinear"),
    EnumerateReferenceSolutions("F32", "F32", "F32", "F32", "F32", "F32", "Bilinear"),
    EnumerateReferenceSolutions("CF32", "CF32", "F32", "CF32", "CF32", "CF32", "BilinearComplex"),
    EnumerateReferenceSolutions("F64", "F64", "F32", "F64", "F64", "F32", "Bilinear"),
    EnumerateReferenceSolutions("F64", "F64", "F64", "F64", "F64", "F64", "Bilinear"),
    EnumerateReferenceSolutions("CF64", "CF64", "F64", "CF64", "CF64", "CF64", "BilinearComplex")>>

\* Mutant: the reference for double accumulates in float.
ScaleReferencesF64InFloat ==
  <<EnumerateReferenceSolutions("F16", "F16", "F32", "none", "F16", "F32", "Scale"),
    EnumerateReferenceSolutions("BF16", "BF16", "F32", "none", "BF16", "F32", "Scale"),
    EnumerateReferenceSolutions("F32", "F32", "F32", "none", "F32", "F16", "Scale"),
    EnumerateReferenceSolutions("F32", "F32", "F32", "none", "F32", "BF16", "Scale"),
    EnumerateReferenceSolutions("F32", "F32", "F32", "none", "F32", "F32", "Scale"),
    EnumerateReferenceSolutions("CF32", "CF32", "F32", "none", "CF32", "CF32", "ScaleComplex"),
    EnumerateReferenceSolutions("F64", "F64", "F32", "none", "F64", "F32", "Scale"),
    EnumerateReferenceSolutions("F64", "F64", "F32", "none", "F64", "F64", "Scale"),
    EnumerateReferenceSolutions("CF64", "CF64", "F64", "none", "CF64", "CF64", "ScaleComplex")>>

ScaleReferences ==
  <<EnumerateReferenceSolutions("F16", "F16", "F32", "none", "F16", "F32", "Scale"),
    EnumerateReferenceSolutions("BF16", "BF16", "F32", "none", "BF16", "F32", "Scale"),
    EnumerateReferenceSolutions("F32", "F32", "F32", "none", "F32", "F16", "Scale"),
    EnumerateReferenceSolutions("F32", "F32", "F32", "none", "F32", "BF16", "Scale"),
    EnumerateReferenceSolutions("F32", "F32", "F32", "none", "F32", "F32", "Scale"),
    EnumerateReferenceSolutions("CF32", "CF32", "F32", "none", "CF32", "CF32", "ScaleComplex"),
    EnumerateReferenceSolutions("F64", "F64", "F32", "none", "F64", "F32", "Scale"),
    EnumerateReferenceSolutions("F64", "F64", "F64", "none", "F64", "F64", "Scale"),
    EnumerateReferenceSolutions("CF64", "CF64", "F64", "none", "CF64", "CF64", "ScaleComplex")>>

\* What the constructor of ContractionCpuReferenceInstances registers, in order.
ReferenceRegistrations == BilinearReferences \o ScaleReferences
=============================================================================

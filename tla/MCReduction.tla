----------------------------- MODULE MCReduction -----------------------------
(* Instances of Reduction for TLC. *)
EXTENDS Reduction, SequencesExt

AllBuffers == {"a", "w", "x", "y"}

\* Eight elements, the least and the greatest neither first nor last.
SomeContents ==
  [a |-> [i \in 0..7 |-> ((3 * i + 2) % 7) + 1], w |-> [i \in 0..17 |-> i], x |-> [i \in 0..7 |-> 10 + i],
   y |-> [i \in 0..7 |-> 30 - i]]

Desc(lens, type) == InitTensorDescriptor(lens, None, type, "IDENTITY", TRUE)

\* A of the lengths, D of A's modes at the positions kept, in that order.
ReductionCall(lengths, kept, op, type, compute, C, D, beta) ==
  LET d == Desc([i \in DOMAIN kept |-> lengths[kept[i]]], type) IN
  [a |-> Desc(lengths, type), c |-> d, d |-> d,
   modeA |-> [i \in DOMAIN lengths |-> 100 + i], modeC |-> [i \in DOMAIN kept |-> 100 + kept[i]],
   modeD |-> [i \in DOMAIN kept |-> 100 + kept[i]],
   op |-> op, typeCompute |-> compute, alpha |-> 2, beta |-> beta,
   A |-> "a", C |-> C, D |-> D, null |-> FALSE]

\* At most eight elements: three modes of length 2 and others of length 1.
LengthsOf(n) == [i \in 1..n |-> IF i \in {1, 3, n} THEN 2 ELSE 1]

\* The positions kept, in A's order.
KeptOf(n, m) ==
  {[i \in 1..m |-> CHOOSE j \in S: Cardinality({h \in S: h < j}) = i - 1] :
     S \in {T \in SUBSET (1..n): Cardinality(T) = m}}

TypesAndCompute == SupportedTypes \cup {<<"R_32F", "COMPUTE_64F">>}

\* Every rank and number of reduced modes, with every type.
RankCalls ==
  UNION {{ReductionCall(LengthsOf(n), CHOOSE kept \in KeptOf(n, m): TRUE, "ADD", t[1], t[2], "x", "y", 1) :
            m \in 0..n, t \in TypesAndCompute} : n \in 1..6}

\* Every choice of kept modes of three, every operator, C given, in place and not.
ShapeCalls ==
  UNION {{ReductionCall(lengths, kept, op, "R_32F", "COMPUTE_32F", C, "y", beta) :
            lengths \in {<<2, 2, 2>>, <<3, 1, 2>>}, kept \in KeptOf(3, m), op \in Operators,
            C \in {None, "x", "y"}, beta \in {0, 3}} : m \in 0..3}

BadCalls ==
  LET c == ReductionCall(<<2, 2>>, <<1>>, "MAX", "R_32F", "COMPUTE_32F", "x", "y", 1) IN
  {[c EXCEPT !.null = TRUE], [c EXCEPT !.modeC = <<7>>], [c EXCEPT !.c.type = "R_16F"],
   [c EXCEPT !.d.strides = <<2>>],
   [c EXCEPT !.c.lengths = <<2, 2, 2>>, !.modeC = <<101, 102, 101>>]}

\* Calls that follow one another on the same kernels and buffers.
ChainCalls ==
  {ReductionCall(<<2, 2>>, kept, "ADD", "R_32F", "COMPUTE_32F", C, D, 1) :
     kept \in {<<1>>, <<2>>}, C \in {"x", "y"}, D \in {"x", "y"}}

\* More modes than there are kernels for, and an operator of no reduction.
NoKernelCalls ==
  {ReductionCall(LengthsOf(7), <<1>>, "ADD", "R_32F", "COMPUTE_32F", "x", "y", 1),
   ReductionCall(<<2, 2>>, <<1>>, "SQRT", "R_32F", "COMPUTE_32F", "x", "y", 1)}

\* The tests' output dims: D's modes in their order, its lengths in A's, its
\* strides packed in the order of the modes.
TestCall(lengths, dims, C) ==
  LET c == ReductionCall(lengths, SetToSortSeq(Range(dims), <), "ADD", "R_32F", "COMPUTE_32F", C, "y", 1)
      packed == StridesFromLengths([j \in DOMAIN dims |-> lengths[dims[j]]], FALSE)
      sorted == SetToSortSeq(Range(dims), <)
      strides == [i \in DOMAIN dims |-> packed[CHOOSE j \in DOMAIN dims: dims[j] = sorted[i]]]
      modes == [j \in DOMAIN dims |-> 100 + dims[j]]
  IN [c EXCEPT !.c.strides = strides, !.d.strides = strides, !.modeC = modes, !.modeD = modes]

OutputDims == {dims \in [1..2 -> 1..3]: dims[1] # dims[2]}
TestCalls == {TestCall(lengths, dims, C) : lengths \in {<<2, 3, 1>>, <<2, 2, 2>>}, dims \in OutputDims,
                                           C \in {None, "x", "y"}}

\* D with a gap between its rows, alone, in place and with C copied.
PaddedCalls ==
  LET c(C) == ReductionCall(<<2, 2, 2>>, <<1, 3>>, "ADD", "R_32F", "COMPUTE_32F", C, "y", 1) IN
  {[c(C) EXCEPT !.c.strides = <<4, 1>>, !.d.strides = <<4, 1>>] : C \in {None, "x", "y"}}

\* A stride of A that is too large for an index.
WideCalls ==
  {[ReductionCall(<<2, 2>>, <<1>>, "ADD", "R_32F", "COMPUTE_32F", "x", "y", 1) EXCEPT
      !.a.strides = <<16, 1>>, !.A = "w"]}

\* D's modes, with their lengths, in any order: what the documentation allows.
NamedCalls ==
  {ReductionCall(lengths, dims, "ADD", "R_32F", "COMPUTE_32F", C, "y", 1) :
     lengths \in {<<2, 3, 1>>, <<2, 2, 2>>}, dims \in OutputDims, C \in {None, "x", "y"}}

AllCalls == NoKernelCalls \cup RankCalls \cup ShapeCalls \cup BadCalls \cup ChainCalls
              \cup TestCalls \cup PaddedCalls \cup WideCalls \cup NamedCalls
SomePrograms == {<<c>> : c \in AllCalls} \cup {<<c, d, e>> : c \in ChainCalls, d \in ChainCalls, e \in ChainCalls}

NamedPrograms == {<<c>> : c \in NamedCalls}
=============================================================================

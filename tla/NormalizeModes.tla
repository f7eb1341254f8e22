--------------------------- MODULE NormalizeModes ---------------------------
(***************************************************************************)
(* normalizeTensorModes (library/src/contraction/contraction_solution.cpp)   *)
(* and the problem dimensions initArgs derives from its result.  A            *)
(* contraction E[Ms, Ns] = A[Ms, Ks] * B[Ns, Ks], written by the program with *)
(* its modes in any order, is brought to the one order and rank the kernels   *)
(* have: Ms then Ks, Ns then Ks, Ms then Ns, padded with modes of length 1.   *)
(*                                                                          *)
(* A tensor is a sequence of dimensions [mode, len, stride].  The library      *)
(* keeps lengths and strides in size_t and hands them to CK as ck::index_t.   *)
(***************************************************************************)
EXTENDS TensorLayout, FiniteSetsExt

CONSTANTS
  Inputs,               \* the problems, records [a, b, e] of tensors
  MaxM, MaxN, MaxK      \* MaxNumDimsM, MaxNumDimsN, MaxNumDimsK

ASSUME BoundsAssumption == {MaxM, MaxN} \subseteq Nat \ {0} /\ MaxK \in Nat

NoMode == -1

Modes(T) == {T[i].mode : i \in DOMAIN T}

Dimensions == [mode: Int, len: Nat \ {0}, stride: Nat]

\* Every mode is in two of the tensors, with one length, and is not the marker of
\* padding; A and B each keep a mode of E (the asserts on mOffset and nOffset).
WellFormed(p) ==
  /\ \A T \in {p.a, p.b, p.e}:
       /\ T \in Seq(Dimensions) /\ NoMode \notin Modes(T)
       /\ \A i, j \in DOMAIN T: T[i].mode = T[j].mode => i = j
  /\ \A T, U \in {p.a, p.b, p.e}: \A i \in DOMAIN T, j \in DOMAIN U:
       T[i].mode = U[j].mode => T[i].len = U[j].len
  /\ Modes(p.a) \cap Modes(p.b) \cap Modes(p.e) = {}
  /\ Modes(p.a) \subseteq Modes(p.b) \cup Modes(p.e)
  /\ Modes(p.b) \subseteq Modes(p.a) \cup Modes(p.e)
  /\ Modes(p.e) \subseteq Modes(p.a) \cup Modes(p.b)
  /\ Cardinality(Modes(p.a) \cap Modes(p.e)) \in 1..MaxM
  /\ Cardinality(Modes(p.b) \cap Modes(p.e)) \in 1..MaxN
  /\ Cardinality(Modes(p.a) \cap Modes(p.b)) \in 0..MaxK

ASSUME InputsAssumption == \A p \in Inputs: WellFormed(p)

VARIABLES
  problem,    \* the tensors as the program describes them
  normal,     \* the tensors and dimensions given to a kernel
  accessed    \* the elements the reference multiplied and where it added them

vars == <<problem, normal, accessed>>

-----------------------------------------------------------------------------
\* std::find: the first dimension of T with the mode.
Dim(T, m) == T[Min({i \in DOMAIN T: T[i].mode = m})]

\* T's dimensions for the dimensions of a sequence.
Of(T, dims) == [i \in DOMAIN dims |-> Dim(T, dims[i].mode)]

\* The dimensions of dims that have one of the modes, in order.
Keep(dims, modes) ==
  LET kept[n \in 0..Len(dims)] ==
        IF n = 0 THEN <<>>
        ELSE IF dims[n].mode \in modes THEN Append(kept[n - 1], dims[n]) ELSE kept[n - 1]
  IN kept[Len(dims)]

\* Mutant: one mode too many.
PadTooFar(dims, n) ==
  dims \o [i \in 1..n + 1 - Len(dims) |->
             [mode |-> NoMode, len |-> 1, stride |-> dims[Len(dims)].stride]]

\* Missing modes have length 1 and the stride before them.
Pad(dims, n) ==
  dims \o [i \in 1..n - Len(dims) |->
             [mode |-> NoMode, len |-> 1, stride |-> dims[Len(dims)].stride]]

\* The modes of the problem: E's that A has, E's that A has not, and A's that B
\* has.
ModesM(p) == Keep(p.e, Modes(p.a))
ModesN(p) == Keep(p.e, Modes(p.e) \ Modes(p.a))
ModesK(p) == Keep(p.a, Modes(p.b))

\* Mutant: B keeps its own order of the contracted modes.
NormalBOwnOrder(p) ==
  Pad(Pad(Of(p.b, ModesN(p)), MaxN) \o Keep(p.b, Modes(p.a)), MaxN + MaxK)

\* The M and N modes in E's order, the K modes in A's.
NormalA(p) == Pad(Pad(Of(p.a, ModesM(p)), MaxM) \o ModesK(p), MaxM + MaxK)
NormalB(p) == Pad(Pad(Of(p.b, ModesN(p)), MaxN) \o Of(p.b, ModesK(p)), MaxN + MaxK)

\* E follows the modes of the normal A and B; padding repeats the stride before.
NormalE(p) ==
  LET modes == SubSeq(NormalA(p), 1, MaxM) \o SubSeq(NormalB(p), 1, MaxN)
      dim[i \in 1..MaxM + MaxN] ==
        IF modes[i].mode \in Modes(p.e)
        THEN Dim(p.e, modes[i].mode)
        ELSE [mode |-> NoMode, len |-> 1, stride |-> dim[i - 1].stride]
  IN dim

\* The lengths of the positions from .. to of T.
LengthsOf(T, from, to) == [i \in 1..to - from + 1 |-> T[from + i - 1].len]

Extent(T, from, to) == ElementsFromLengths(LengthsOf(T, from, to))

\* How many M, N and K there are.
Extents(A, B) ==
  [m |-> Extent(A, 1, MaxM), n |-> Extent(B, 1, MaxN),
   k |-> Extent(A, MaxM + 1, MaxM + MaxK)]

\* Mutant: mK is taken from the N side of B.
ProblemDimsSwapped(A, B) == IndexVector([Extents(A, B) EXCEPT !.k = Extent(B, 1, MaxN)])

\* mM, mN and mK: products of ck::index_t.  (An overflow is undefined in C++; taken
\* as wrapping.)
ProblemDims(A, B) == IndexVector(Extents(A, B))

\* toCKVec of a tensor's lengths and of its strides.
IndexTensor(T) ==
  [i \in DOMAIN T |-> [mode |-> T[i].mode, len |-> Index(T[i].len), stride |-> Index(T[i].stride)]]

-----------------------------------------------------------------------------
\* The loops of the CPU reference over the normalised tensors, those every
\* kernel must be equivalent to.

Offset(T, index) == OffsetOf(index, [i \in DOMAIN T |-> T[i].stride])

\* The indices of positions from .. to of T, counted by T's lengths.
Loops(T, from, to) == Coordinates(LengthsOf(T, from, to))

\* Where A, B and E are accessed: M and N count by E's lengths, K by A's.
Visited(n) ==
  {<<Offset(n.a, m \o k), Offset(n.b, j \o k), Offset(n.e, m \o j)>> :
     m \in Loops(n.e, 1, MaxM), j \in Loops(n.e, MaxM + 1, MaxM + MaxN),
     k \in Loops(n.a, MaxM + 1, MaxM + MaxK)}

Init == problem \in Inputs /\ normal = None /\ accessed = None

Normalize ==
  /\ normal = None
  /\ normal' = [a |-> IndexTensor(NormalA(problem)), b |-> IndexTensor(NormalB(problem)),
                e |-> IndexTensor(NormalE(problem)),
                dims |-> ProblemDims(NormalA(problem), NormalB(problem))]
  /\ UNCHANGED <<problem, accessed>>

\* ReferenceContraction_M2_N2_K2::Invoker::Run.
ReferenceRun ==
  /\ normal # None /\ accessed = None
  /\ accessed' = Visited(normal)
  /\ UNCHANGED <<problem, normal>>

Next == Normalize \/ ReferenceRun

Spec == Init /\ [][Next]_vars

-----------------------------------------------------------------------------
\* The meaning of a contraction: which elements of A, B and E meet.

Lengths(p) == [m \in Modes(p.a) \cup Modes(p.b) |->
                 IF m \in Modes(p.a) THEN Dim(p.a, m).len ELSE Dim(p.b, m).len]

\* Every value of every mode, as the program wrote it.
Values(p) ==
  LET lengths == Lengths(p) IN
  {x \in [DOMAIN lengths -> UNION {0..lengths[m] - 1 : m \in DOMAIN lengths}]:
     \A m \in DOMAIN lengths: x[m] < lengths[m]}

\* The element of T where the modes have the values x.
At(T, x) == Offset(T, [i \in DOMAIN T |-> x[T[i].mode]])

Wanted(p) == {<<At(p.a, x), At(p.b, x), At(p.e, x)>> : x \in Values(p)}

\* No two elements of T share an offset.
Apart(T) ==
  \A x, y \in Coordinates([i \in DOMAIN T |-> T[i].len]): Offset(T, x) = Offset(T, y) => x = y

TypeOK ==
  /\ problem \in Inputs
  /\ normal # None =>
       /\ Len(normal.a) = MaxM + MaxK
       /\ Len(normal.b) = MaxN + MaxK
       /\ DOMAIN normal.e = 1..MaxM + MaxN

\* ck::index_t holds T's lengths and strides.
Fits(T) == \A i \in DOMAIN T: T[i].len < IndexLimit /\ T[i].stride < IndexLimit

\* The elements multiplied are those the program asked for, and only those, in
\* whatever order the program lists the modes of the three tensors, as long as
\* their lengths and strides fit ck::index_t, which nothing in the library checks.
SameContraction ==
  accessed # None /\ (\A T \in {problem.a, problem.b, problem.e}: Fits(T)) =>
    accessed = Wanted(problem)

\* mM, mN and mK, while they fit, count the work: M * N outputs, each a sum of K
\* products.
DimsCountWork ==
  normal # None /\ FitsIndex(Extents(NormalA(problem), NormalB(problem))) =>
    LET wanted == Wanted(problem) IN
    /\ normal.dims.m * normal.dims.n = Cardinality({v[3] : v \in wanted})
    /\ normal.dims.m * normal.dims.n * normal.dims.k = Cardinality(wanted)
=============================================================================

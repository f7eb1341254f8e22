--------------------------- MODULE ReductionProofs ---------------------------
(***************************************************************************)
(* Proofs about Reduction.tla: which kernels are registered, that a supported *)
(* reduction finds both of its own, what a call writes when it fails and that *)
(* it leaves the reduction in D when it succeeds.                             *)
(***************************************************************************)
EXTENDS Reduction, TensorLayoutProofs, SequenceTheorems

-----------------------------------------------------------------------------
\* What is registered: each type with its accumulator, each rank to 6, 1 to all
\* modes reduced, each operator, twice.
Accumulator(type) == IF type = "R_64F" THEN "R_64F" ELSE "R_32F"
Types == {"R_16F", "R_16BF", "R_32F", "R_64F"}

Registered ==
  {k \in [typeIn: Types, typeAcc: Types, typeOut: Types, rank: 1..6, numReduceDim: 1..6,
          op: Operators, vectorDim: {0, 1}]:
     k.typeAcc = Accumulator(k.typeIn) /\ k.typeOut = k.typeIn /\ k.numReduceDim <= k.rank}

\* What one file registers.
LEMMA FileRegisters ==
  ASSUME NEW type \in Types, NEW rank \in 1..6, NEW numReduceDim \in 1..rank
  PROVE  REG_REDUCTION_SOLUTION(rank, numReduceDim, type, Accumulator(type))
           = {k \in Registered: k.typeIn = type /\ k.rank = rank /\ k.numReduceDim = numReduceDim}
<1> DEFINE File == REG_REDUCTION_SOLUTION(rank, numReduceDim, type, Accumulator(type))
<1>1. ASSUME NEW k \in File
      PROVE  k \in Registered /\ k.typeIn = type /\ k.rank = rank /\ k.numReduceDim = numReduceDim
  <2>1. PICK op \in Operators, d \in {0, 1}:
          k = [typeIn |-> type, typeAcc |-> Accumulator(type), typeOut |-> type, rank |-> rank,
               numReduceDim |-> numReduceDim, op |-> op, vectorDim |-> d]
    BY DEF REG_REDUCTION_SOLUTION, EnumerateReductionSolutions
  <2>2. Accumulator(type) \in Types /\ numReduceDim \in 1..6 /\ numReduceDim <= rank
    BY DEF Accumulator, Types
  <2> QED BY <2>1, <2>2 DEF Registered
<1>2. ASSUME NEW k \in Registered, k.typeIn = type, k.rank = rank, k.numReduceDim = numReduceDim
      PROVE  k \in File
  <2>1. k = [typeIn |-> type, typeAcc |-> Accumulator(type), typeOut |-> type, rank |-> rank,
             numReduceDim |-> numReduceDim, op |-> k.op, vectorDim |-> k.vectorDim]
    BY <1>2 DEF Registered
  <2>2. k.op \in Operators /\ k.vectorDim \in {0, 1}
    BY DEF Registered
  <2> QED BY <2>1, <2>2 DEF REG_REDUCTION_SOLUTION, EnumerateReductionSolutions
<1> QED BY <1>1, <1>2
\* The kernels of the files of one type and rank.
RankOf(type, rank) ==
  UNION {REG_REDUCTION_SOLUTION(rank, m, type, Accumulator(type)) : m \in 1..rank}

LEMMA RanksRegistered ==
  ASSUME NEW type \in Types
  PROVE  UNION {RankOf(type, rank) : rank \in 1..6} = {k \in Registered: k.typeIn = type}
<1>1. ASSUME NEW rank \in 1..6
      PROVE  RankOf(type, rank) = {k \in Registered: k.typeIn = type /\ k.rank = rank}
  <2>1. \A m \in 1..rank: REG_REDUCTION_SOLUTION(rank, m, type, Accumulator(type))
           = {k \in Registered: k.typeIn = type /\ k.rank = rank /\ k.numReduceDim = m}
    BY FileRegisters
  <2>2. \A k \in Registered: k.rank = rank => k.numReduceDim \in 1..rank
    BY DEF Registered
  <2> QED BY <2>1, <2>2 DEF RankOf
<1>2. \A k \in Registered: k.rank \in 1..6
  BY DEF Registered
<1> QED BY <1>1, <1>2

LEMMA FilesBF16F32 ==
  UNION {gen1x1BF16F32, gen2x1BF16F32, gen2x2BF16F32, gen3x1BF16F32, gen3x2BF16F32,
         gen3x3BF16F32, gen4x1BF16F32, gen4x2BF16F32, gen4x3BF16F32, gen4x4BF16F32,
         gen5x1BF16F32, gen5x2BF16F32, gen5x3BF16F32, gen5x4BF16F32, gen5x5BF16F32,
         gen6x1BF16F32, gen6x2BF16F32, gen6x3BF16F32, gen6x4BF16F32, gen6x5BF16F32,
         gen6x6BF16F32}
    = {k \in Registered: k.typeIn = "R_16BF"}
<1>1. RankOf("R_16BF", 1)
        = UNION {gen1x1BF16F32}
  BY DEF RankOf, Accumulator, gen1x1BF16F32
<1>2. RankOf("R_16BF", 2)
        = UNION {gen2x1BF16F32, gen2x2BF16F32}
  BY DEF RankOf, Accumulator, gen2x1BF16F32, gen2x2BF16F32
<1>3. RankOf("R_16BF", 3)
        = UNION {gen3x1BF16F32, gen3x2BF16F32, gen3x3BF16F32}
  BY DEF RankOf, Accumulator, gen3x1BF16F32, gen3x2BF16F32, gen3x3BF16F32
<1>4. RankOf("R_16BF", 4)
        = UNION {gen4x1BF16F32, gen4x2BF16F32, gen4x3BF16F32, gen4x4BF16F32}
  BY DEF RankOf, Accumulator, gen4x1BF16F32, gen4x2BF16F32, gen4x3BF16F32, gen4x4BF16F32
<1>5. RankOf("R_16BF", 5)
        = UNION {gen5x1BF16F32, gen5x2BF16F32, gen5x3BF16F32, gen5x4BF16F32, gen5x5BF16F32}
  BY DEF RankOf, Accumulator, gen5x1BF16F32, gen5x2BF16F32, gen5x3BF16F32, gen5x4BF16F32,
         gen5x5BF16F32
<1>6. RankOf("R_16BF", 6)
        = UNION {gen6x1BF16F32, gen6x2BF16F32, gen6x3BF16F32, gen6x4BF16F32, gen6x5BF16F32,
                 gen6x6BF16F32}
  BY DEF RankOf, Accumulator, gen6x1BF16F32, gen6x2BF16F32, gen6x3BF16F32, gen6x4BF16F32,
         gen6x5BF16F32, gen6x6BF16F32
<1>7. UNION {RankOf("R_16BF", rank) : rank \in 1..6}
        = RankOf("R_16BF", 1) \cup RankOf("R_16BF", 2) \cup RankOf("R_16BF", 3)
            \cup RankOf("R_16BF", 4) \cup RankOf("R_16BF", 5) \cup RankOf("R_16BF", 6)
  OBVIOUS
<1> QED BY <1>1, <1>2, <1>3, <1>4, <1>5, <1>6, <1>7, RanksRegistered DEF Types

LEMMA FilesF16F32 ==
  UNION {gen1x1F16F32, gen2x1F16F32, gen2x2F16F32, gen3x1F16F32, gen3x2F16F32, gen3x3F16F32,
         gen4x1F16F32, gen4x2F16F32, gen4x3F16F32, gen4x4F16F32, gen5x1F16F32, gen5x2F16F32,
         gen5x3F16F32, gen5x4F16F32, gen5x5F16F32, gen6x1F16F32, gen6x2F16F32, gen6x3F16F32,
         gen6x4F16F32, gen6x5F16F32, gen6x6F16F32}
    = {k \in Registered: k.typeIn = "R_16F"}
<1>1. RankOf("R_16F", 1)
        = UNION {gen1x1F16F32}
  BY DEF RankOf, Accumulator, gen1x1F16F32
<1>2. RankOf("R_16F", 2)
        = UNION {gen2x1F16F32, gen2x2F16F32}
  BY DEF RankOf, Accumulator, gen2x1F16F32, gen2x2F16F32
<1>3. RankOf("R_16F", 3)
        = UNION {gen3x1F16F32, gen3x2F16F32, gen3x3F16F32}
  BY DEF RankOf, Accumulator, gen3x1F16F32, gen3x2F16F32, gen3x3F16F32
<1>4. RankOf("R_16F", 4)
        = UNION {gen4x1F16F32, gen4x2F16F32, gen4x3F16F32, gen4x4F16F32}
  BY DEF RankOf, Accumulator, gen4x1F16F32, gen4x2F16F32, gen4x3F16F32, gen4x4F16F32
<1>5. RankOf("R_16F", 5)
        = UNION {gen5x1F16F32, gen5x2F16F32, gen5x3F16F32, gen5x4F16F32, gen5x5F16F32}
  BY DEF RankOf, Accumulator, gen5x1F16F32, gen5x2F16F32, gen5x3F16F32, gen5x4F16F32,
         gen5x5F16F32
<1>6. RankOf("R_16F", 6)
        = UNION {gen6x1F16F32, gen6x2F16F32, gen6x3F16F32, gen6x4F16F32, gen6x5F16F32, gen6x6F16F32}
  BY DEF RankOf, Accumulator, gen6x1F16F32, gen6x2F16F32, gen6x3F16F32, gen6x4F16F32,
         gen6x5F16F32, gen6x6F16F32
<1>7. UNION {RankOf("R_16F", rank) : rank \in 1..6}
        = RankOf("R_16F", 1) \cup RankOf("R_16F", 2) \cup RankOf("R_16F", 3)
            \cup RankOf("R_16F", 4) \cup RankOf("R_16F", 5) \cup RankOf("R_16F", 6)
  OBVIOUS
<1> QED BY <1>1, <1>2, <1>3, <1>4, <1>5, <1>6, <1>7, RanksRegistered DEF Types

LEMMA FilesF32F32 ==
  UNION {gen1x1F32F32, gen2x1F32F32, gen2x2F32F32, gen3x1F32F32, gen3x2F32F32, gen3x3F32F32,
         gen4x1F32F32, gen4x2F32F32, gen4x3F32F32, gen4x4F32F32, gen5x1F32F32, gen5x2F32F32,
         gen5x3F32F32, gen5x4F32F32, gen5x5F32F32, gen6x1F32F32, gen6x2F32F32, gen6x3F32F32,
         gen6x4F32F32, gen6x5F32F32, gen6x6F32F32}
    = {k \in Registered: k.typeIn = "R_32F"}
<1>1. RankOf("R_32F", 1)
        = UNION {gen1x1F32F32}
  BY DEF RankOf, Accumulator, gen1x1F32F32
<1>2. RankOf("R_32F", 2)
        = UNION {gen2x1F32F32, gen2x2F32F32}
  BY DEF RankOf, Accumulator, gen2x1F32F32, gen2x2F32F32
<1>3. RankOf("R_32F", 3)
        = UNION {gen3x1F32F32, gen3x2F32F32, gen3x3F32F32}
  BY DEF RankOf, Accumulator, gen3x1F32F32, gen3x2F32F32, gen3x3F32F32
<1>4. RankOf("R_32F", 4)
        = UNION {gen4x1F32F32, gen4x2F32F32, gen4x3F32F32, gen4x4F32F32}
  BY DEF RankOf, Accumulator, gen4x1F32F32, gen4x2F32F32, gen4x3F32F32, gen4x4F32F32
<1>5. RankOf("R_32F", 5)
        = UNION {gen5x1F32F32, gen5x2F32F32, gen5x3F32F32, gen5x4F32F32, gen5x5F32F32}
  BY DEF RankOf, Accumulator, gen5x1F32F32, gen5x2F32F32, gen5x3F32F32, gen5x4F32F32,
         gen5x5F32F32
<1>6. RankOf("R_32F", 6)
        = UNION {gen6x1F32F32, gen6x2F32F32, gen6x3F32F32, gen6x4F32F32, gen6x5F32F32, gen6x6F32F32}
  BY DEF RankOf, Accumulator, gen6x1F32F32, gen6x2F32F32, gen6x3F32F32, gen6x4F32F32,
         gen6x5F32F32, gen6x6F32F32
<1>7. UNION {RankOf("R_32F", rank) : rank \in 1..6}
        = RankOf("R_32F", 1) \cup RankOf("R_32F", 2) \cup RankOf("R_32F", 3)
            \cup RankOf("R_32F", 4) \cup RankOf("R_32F", 5) \cup RankOf("R_32F", 6)
  OBVIOUS
<1> QED BY <1>1, <1>2, <1>3, <1>4, <1>5, <1>6, <1>7, RanksRegistered DEF Types

LEMMA FilesF64F64 ==
  UNION {gen1x1F64F64, gen2x1F64F64, gen2x2F64F64, gen3x1F64F64, gen3x2F64F64, gen3x3F64F64,
         gen4x1F64F64, gen4x2F64F64, gen4x3F64F64, gen4x4F64F64, gen5x1F64F64, gen5x2F64F64,
         gen5x3F64F64, gen5x4F64F64, gen5x5F64F64, gen6x1F64F64, gen6x2F64F64, gen6x3F64F64,
         gen6x4F64F64, gen6x5F64F64, gen6x6F64F64}
    = {k \in Registered: k.typeIn = "R_64F"}
<1>1. RankOf("R_64F", 1)
        = UNION {gen1x1F64F64}
  BY DEF RankOf, Accumulator, gen1x1F64F64
<1>2. RankOf("R_64F", 2)
        = UNION {gen2x1F64F64, gen2x2F64F64}
  BY DEF RankOf, Accumulator, gen2x1F64F64, gen2x2F64F64
<1>3. RankOf("R_64F", 3)
        = UNION {gen3x1F64F64, gen3x2F64F64, gen3x3F64F64}
  BY DEF RankOf, Accumulator, gen3x1F64F64, gen3x2F64F64, gen3x3F64F64
<1>4. RankOf("R_64F", 4)
        = UNION {gen4x1F64F64, gen4x2F64F64, gen4x3F64F64, gen4x4F64F64}
  BY DEF RankOf, Accumulator, gen4x1F64F64, gen4x2F64F64, gen4x3F64F64, gen4x4F64F64
<1>5. RankOf("R_64F", 5)
        = UNION {gen5x1F64F64, gen5x2F64F64, gen5x3F64F64, gen5x4F64F64, gen5x5F64F64}
  BY DEF RankOf, Accumulator, gen5x1F64F64, gen5x2F64F64, gen5x3F64F64, gen5x4F64F64,
         gen5x5F64F64
<1>6. RankOf("R_64F", 6)
        = UNION {gen6x1F64F64, gen6x2F64F64, gen6x3F64F64, gen6x4F64F64, gen6x5F64F64, gen6x6F64F64}
  BY DEF RankOf, Accumulator, gen6x1F64F64, gen6x2F64F64, gen6x3F64F64, gen6x4F64F64,
         gen6x5F64F64, gen6x6F64F64
<1>7. UNION {RankOf("R_64F", rank) : rank \in 1..6}
        = RankOf("R_64F", 1) \cup RankOf("R_64F", 2) \cup RankOf("R_64F", 3)
            \cup RankOf("R_64F", 4) \cup RankOf("R_64F", 5) \cup RankOf("R_64F", 6)
  OBVIOUS
<1> QED BY <1>1, <1>2, <1>3, <1>4, <1>5, <1>6, <1>7, RanksRegistered DEF Types

\* The list is complete: it has every kernel a file registers and no other.
LEMMA InstancesRegistered == ReductionSolutionInstances = Registered
<1> DEFINE OfType(type) == {k \in Registered: k.typeIn = type}
<1>1. /\ OfType("R_16BF") \subseteq ReductionSolutionInstances
      /\ \A file \in
           {gen1x1BF16F32, gen2x1BF16F32, gen2x2BF16F32, gen3x1BF16F32, gen3x2BF16F32,
            gen3x3BF16F32, gen4x1BF16F32, gen4x2BF16F32, gen4x3BF16F32, gen4x4BF16F32,
            gen5x1BF16F32, gen5x2BF16F32, gen5x3BF16F32, gen5x4BF16F32, gen5x5BF16F32,
            gen6x1BF16F32, gen6x2BF16F32, gen6x3BF16F32, gen6x4BF16F32, gen6x5BF16F32,
            gen6x6BF16F32}:
           file \subseteq OfType("R_16BF")
  BY FilesBF16F32 DEF ReductionSolutionInstances
<1>2. /\ OfType("R_16F") \subseteq ReductionSolutionInstances
      /\ \A file \in
           {gen1x1F16F32, gen2x1F16F32, gen2x2F16F32, gen3x1F16F32, gen3x2F16F32,
            gen3x3F16F32, gen4x1F16F32, gen4x2F16F32, gen4x3F16F32, gen4x4F16F32,
            gen5x1F16F32, gen5x2F16F32, gen5x3F16F32, gen5x4F16F32, gen5x5F16F32,
            gen6x1F16F32, gen6x2F16F32, gen6x3F16F32, gen6x4F16F32, gen6x5F16F32, gen6x6F16F32}:
           file \subseteq OfType("R_16F")
  BY FilesF16F32 DEF ReductionSolutionInstances
<1>3. /\ OfType("R_32F") \subseteq ReductionSolutionInstances
      /\ \A file \in
           {gen1x1F32F32, gen2x1F32F32, gen2x2F32F32, gen3x1F32F32, gen3x2F32F32,
            gen3x3F32F32, gen4x1F32F32, gen4x2F32F32, gen4x3F32F32, gen4x4F32F32,
            gen5x1F32F32, gen5x2F32F32, gen5x3F32F32, gen5x4F32F32, gen5x5F32F32,
            gen6x1F32F32, gen6x2F32F32, gen6x3F32F32, gen6x4F32F32, gen6x5F32F32, gen6x6F32F32}:
           file \subseteq OfType("R_32F")
  BY FilesF32F32 DEF ReductionSolutionInstances
<1>4. /\ OfType("R_64F") \subseteq ReductionSolutionInstances
      /\ \A file \in
           {gen1x1F64F64, gen2x1F64F64, gen2x2F64F64, gen3x1F64F64, gen3x2F64F64,
            gen3x3F64F64, gen4x1F64F64, gen4x2F64F64, gen4x3F64F64, gen4x4F64F64,
            gen5x1F64F64, gen5x2F64F64, gen5x3F64F64, gen5x4F64F64, gen5x5F64F64,
            gen6x1F64F64, gen6x2F64F64, gen6x3F64F64, gen6x4F64F64, gen6x5F64F64, gen6x6F64F64}:
           file \subseteq OfType("R_64F")
  BY FilesF64F64 DEF ReductionSolutionInstances
<1>5. Registered = OfType("R_16BF") \cup OfType("R_16F") \cup OfType("R_32F") \cup OfType("R_64F")
  BY DEF Registered, Types
<1> HIDE DEF OfType
<1>6. ReductionSolutionInstances \subseteq Registered
  BY <1>1, <1>2, <1>3, <1>4, <1>5 DEF ReductionSolutionInstances
<1> QED BY <1>1, <1>2, <1>3, <1>4, <1>5, <1>6
LEMMA ReferencesRegistered ==
  ReductionCpuReferenceInstances = {k \in Registered: k.vectorDim = 0}
<1> DEFINE Pairs == {p \in (1..6) \X (1..6): p[2] <= p[1]}
           TypePairs == {<<"R_16F", "R_32F">>, <<"R_16BF", "R_32F">>,
                         <<"R_32F", "R_32F">>, <<"R_64F", "R_64F">>}
<1>1. ASSUME NEW k \in ReductionCpuReferenceInstances PROVE k \in Registered /\ k.vectorDim = 0
  <2>1. PICK p \in Pairs, t \in TypePairs, op \in Operators:
          k = [typeIn |-> t[1], typeAcc |-> t[2], typeOut |-> t[1], rank |-> p[1],
               numReduceDim |-> p[2], op |-> op, vectorDim |-> 0]
    BY DEF ReductionCpuReferenceInstances, REG_CPU_SOLUTION, EnumerateReferenceSolutions
  <2>2. t[1] \in Types /\ t[2] \in Types /\ t[2] = Accumulator(t[1])
    BY DEF Types, Accumulator
  <2>3. p[1] \in 1..6 /\ p[2] \in 1..6 /\ p[2] <= p[1]
    OBVIOUS
  <2> HIDE DEF Pairs, TypePairs
  <2> QED BY <2>1, <2>2, <2>3 DEF Registered
<1>2. ASSUME NEW k \in Registered, k.vectorDim = 0 PROVE k \in ReductionCpuReferenceInstances
  <2> DEFINE p == <<k.rank, k.numReduceDim>>
             t == <<k.typeIn, k.typeAcc>>
  <2>1. p \in Pairs
    BY DEF Registered
  <2>2. t \in TypePairs
    BY DEF Registered, Types, Accumulator
  <2>3. k \in EnumerateReferenceSolutions(t[1], t[2], p[1], p[2], k.op) /\ k.op \in Operators
    BY <1>2 DEF Registered, EnumerateReferenceSolutions
  <2>4. k \in REG_CPU_SOLUTION(p[1], p[2], t[1], t[2])
    BY <2>3 DEF REG_CPU_SOLUTION
  <2> QED BY <2>1, <2>2, <2>4 DEF ReductionCpuReferenceInstances
<1> QED BY <1>1, <1>2

\* The kernels a query finds: those of the problem's types, rank, number of
\* reduced modes and operator.
Asks(k, c) ==
  /\ k.typeIn = c.a.type /\ k.typeOut = c.d.type
  /\ ComputeTypeOf(k.typeAcc) = InternalTypeCompute(c)
  /\ k.rank = Len(c.a.lengths) /\ k.numReduceDim = Len(c.a.lengths) - Len(c.d.lengths)
  /\ k.op = c.op

LEMMA QueryAsks ==
  ASSUME NEW c
  PROVE  /\ Candidates(c) = {k \in Registered: Asks(k, c)}
         /\ ReferenceCandidates(c) = {k \in Candidates(c): k.vectorDim = 0}
<1>1. ASSUME NEW k PROVE Param(k) = KeyOf(c) <=> Asks(k, c)
  BY DEF Param, KeyOf, Asks
<1>2. Candidates(c) = {k \in Registered: Asks(k, c)}
  BY <1>1, InstancesRegistered DEF Candidates, Query
<1>3. ReferenceCandidates(c) = {k \in Registered: k.vectorDim = 0 /\ Asks(k, c)}
  BY <1>1, ReferencesRegistered DEF ReferenceCandidates, Query
<1> QED BY <1>2, <1>3

\* Kernels come in twos that differ in the modes they vectorise.
LEMMA CandidatesPair ==
  ASSUME NEW c, NEW k \in Candidates(c), NEW d \in {0, 1}
  PROVE  [k EXCEPT !.vectorDim = d] \in Candidates(c)
<1> DEFINE other == [k EXCEPT !.vectorDim = d]
<1>1. k \in Registered /\ Asks(k, c)
  BY QueryAsks
<1>2. other = [typeIn |-> k.typeIn, typeAcc |-> k.typeAcc, typeOut |-> k.typeOut, rank |-> k.rank,
               numReduceDim |-> k.numReduceDim, op |-> k.op, vectorDim |-> d]
  BY <1>1 DEF Registered
<1> HIDE DEF other
<1>3. other \in Registered
  BY <1>1, <1>2 DEF Registered
<1>4. Asks(other, c)
  BY <1>1, <1>2 DEF Asks
<1>5. other \in Candidates(c)
  BY <1>3, <1>4, QueryAsks
<1> QED BY <1>5 DEF other

LEMMA CandidatesAlike ==
  ASSUME NEW c, NEW k \in Candidates(c), NEW j \in Candidates(c), k.vectorDim = j.vectorDim
  PROVE  k = j
<1>1. k \in Registered /\ j \in Registered /\ Asks(k, c) /\ Asks(j, c)
  BY QueryAsks
<1>2. k.typeAcc = j.typeAcc
  BY <1>1 DEF Registered, Asks
<1>3. ASSUME NEW i \in Registered
      PROVE  i = [typeIn |-> i.typeIn, typeAcc |-> i.typeAcc, typeOut |-> i.typeOut,
                  rank |-> i.rank, numReduceDim |-> i.numReduceDim, op |-> i.op,
                  vectorDim |-> i.vectorDim]
  BY DEF Registered
<1> QED BY <1>1, <1>2, <1>3 DEF Asks

\* A supported problem has kernels of both kinds.
LEMMA SupportedServed ==
  ASSUME NEW c \in Calls, CheckReductionInputData(c) = "none",
         Len(c.d.lengths) < Len(c.a.lengths), Len(c.a.lengths) <= 6, c.op \in Operators
  PROVE  {k.vectorDim : k \in Candidates(c)} = {0, 1}
<1> DEFINE k(d) == [typeIn |-> c.a.type, typeAcc |-> Accumulator(c.a.type), typeOut |-> c.a.type,
                    rank |-> Len(c.a.lengths),
                    numReduceDim |-> Len(c.a.lengths) - Len(c.d.lengths),
                    op |-> c.op, vectorDim |-> d]
<1>1. <<c.a.type, c.typeCompute>> \in SupportedTypes /\ c.d.type = c.a.type
  BY DEF CheckReductionInputData
<1>2. /\ c.a.type \in Types /\ Accumulator(c.a.type) \in Types
      /\ ComputeTypeOf(Accumulator(c.a.type)) = InternalTypeCompute(c)
  BY <1>1 DEF SupportedTypes, Types, Accumulator, ComputeTypeOf, InternalTypeCompute
<1>3. /\ Len(c.a.lengths) \in 1..6 /\ Len(c.a.lengths) - Len(c.d.lengths) \in 1..6
      /\ Len(c.a.lengths) - Len(c.d.lengths) <= Len(c.a.lengths)
  <2>1. Len(c.a.lengths) \in Nat /\ Len(c.d.lengths) \in Nat
    BY ConstantsAssumption, LenProperties
  <2>2. \A n, m \in Nat: m < n /\ n <= 6 => n \in 1..6 /\ n - m \in 1..6 /\ n - m <= n
    OBVIOUS
  <2> QED BY <2>1, <2>2
<1>4. ASSUME NEW d \in {0, 1} PROVE k(d) \in Candidates(c)
  <2>1. k(d) \in Registered
    BY <1>2, <1>3 DEF Registered
  <2>2. Asks(k(d), c)
    BY <1>1, <1>2 DEF Asks
  <2> QED BY <2>1, <2>2, QueryAsks
<1>5. ASSUME NEW d \in {0, 1} PROVE d \in {j.vectorDim : j \in Candidates(c)}
  <2>1. k(d).vectorDim = d
    OBVIOUS
  <2> QED BY <1>4, <2>1
<1>6. \A j \in Candidates(c): j.vectorDim \in {0, 1}
  BY QueryAsks DEF Registered
<1> QED BY <1>5, <1>6
-----------------------------------------------------------------------------
\* TypeOK with the variables it leaves out, and what the search has come to: the
\* solutions tried and those to try are the candidates.
SearchInv ==
  /\ pc = "check" => refused = {}
  /\ pc \in {"copy", "try"} =>
       /\ CheckReductionInputData(call) = "none"
       /\ left \cup refused = Candidates(call)

TypeInv ==
  /\ program \in Seq(Calls)
  /\ DOMAIN memory = Buffers
  /\ TypeOK
  /\ SearchInv

\* What a kernel changes of memory, and what setting a candidate's arguments
\* does to those held.
LEMMA ReducedFields ==
  ASSUME NEW op, NEW p, NEW mem
  PROVE  /\ DOMAIN Reduced(op, p, mem) = DOMAIN mem
         /\ \A b \in DOMAIN mem \ {p.out}: Reduced(op, p, mem)[b] = mem[b]
BY DEF Reduced

LEMMA ReducedDomains ==
  ASSUME NEW op, NEW p, NEW mem, p.out \in DOMAIN mem,
         \A y \in Coordinates(p.outLengths): OffsetOf(y, p.outStrides) \in DOMAIN mem[p.out]
  PROVE  \A b \in DOMAIN mem: DOMAIN Reduced(op, p, mem)[b] = DOMAIN mem[b]
BY DEF Reduced

LEMMA ReplaceFields ==
  ASSUME NEW k, NEW arguments
  PROVE  /\ DOMAIN Replace(k, arguments) = DOMAIN args \cup {k}
         /\ Replace(k, arguments)[k] = arguments
BY DEF Replace

LEMMA CopyFields ==
  ASSUME NEW from, NEW to, NEW count
  PROVE  /\ DOMAIN CopyElements(from, to, count) = DOMAIN memory
         /\ \A b \in DOMAIN memory \ {to}: CopyElements(from, to, count)[b] = memory[b]
         /\ to \in DOMAIN memory =>
              /\ DOMAIN CopyElements(from, to, count)[to] = DOMAIN memory[to]
              /\ \A i \in DOMAIN memory[to]:
                   CopyElements(from, to, count)[to][i] = IF i < count THEN memory[from][i]
                                                          ELSE memory[to][i]
BY DEF CopyElements

LEMMA TypeInit == Init => TypeInv
BY ConstantsAssumption DEF Init, TypeInv, TypeOK, SearchInv

\* One turn of the search: the candidate gets the call's arguments, and is
\* refused or runs on them.
LEMMA TryTurn ==
  ASSUME TypeInv, Try
  PROVE  \E k \in left:
           /\ call \in Calls /\ CheckReductionInputData(call) = "none" /\ pc = "try"
           /\ k \in ReductionSolutionInstances /\ program' = program
           /\ DOMAIN args' = DOMAIN args \cup {k}
           /\ \/ /\ refused' = refused \cup {k} /\ memory' = memory
                 /\ IF left = {k} THEN Return("INTERNAL_ERROR")
                    ELSE left' = left \ {k} /\ UNCHANGED <<call, pc, reply>>
              \/ /\ refused' = refused /\ memory' = Reduced(k.op, Arguments(call), memory)
                 /\ (Return("SUCCESS") \/ Return("CK_ERROR"))
<1>1. /\ call \in Calls /\ CheckReductionInputData(call) = "none" /\ pc = "try"
      /\ left \subseteq ReductionSolutionInstances /\ program' = program
  BY DEF TypeInv, TypeOK, SearchInv, Try
<1>2. PICK k \in left:
        /\ args' = Replace(k, InitArgs(k, call))
        /\ \/ /\ refused' = refused \cup {k} /\ memory' = memory
              /\ IF left = {k} THEN Return("INTERNAL_ERROR")
                 ELSE left' = left \ {k} /\ UNCHANGED <<call, pc, reply>>
           \/ /\ refused' = refused /\ memory' = Reduced(k.op, args'[k], memory)
              /\ (Return("SUCCESS") \/ Return("CK_ERROR"))
  BY DEF Try
<1>3. DOMAIN args' = DOMAIN args \cup {k} /\ args'[k] = Arguments(call)
  BY <1>2, ReplaceFields DEF InitArgs
<1> QED BY <1>1, <1>2, <1>3

LEMMA TypeStep == TypeInv /\ [Next]_vars => TypeInv'
<1> SUFFICES ASSUME TypeInv, [Next]_vars PROVE TypeInv'
  OBVIOUS
<1> USE DEF TypeInv
<1>1. CASE Begin
  <2>1. Head(program) \in Calls /\ Tail(program) \in Seq(Calls)
    BY <1>1, HeadTailProperties DEF Begin
  <2> QED BY <1>1, <2>1, ConstantsAssumption DEF Begin, TypeOK, SearchInv
<1>2. CASE Refuse \/ NoKernel
  <2>1. /\ pc' = "idle" /\ call' = None /\ left' = {} /\ refused' = refused
        /\ UNCHANGED <<memory, args, program>>
    BY <1>2 DEF Refuse, NoKernel, Return
  <2> QED BY <2>1, ConstantsAssumption DEF TypeOK, SearchInv
<1>3. CASE Search
  <2>1. Candidates(call) \subseteq ReductionSolutionInstances
    BY DEF Candidates, Query
  <2> QED BY <1>3, <2>1 DEF Search, TypeOK, SearchInv
<1>4. CASE CopyC
  <2>1. /\ DOMAIN memory' = DOMAIN memory
        /\ \A b \in DOMAIN memory: DOMAIN memory'[b] = DOMAIN memory[b]
    BY <1>4, CopyFields DEF CopyC
  <2>2. pc = "copy" /\ pc' = "try" /\ UNCHANGED <<args, program, call, left, refused, reply>>
    BY <1>4 DEF CopyC
  <2> QED BY <2>1, <2>2 DEF TypeOK, SearchInv
<1>5. CASE Try
  <2>1. PICK k \in left:
          /\ call \in Calls /\ CheckReductionInputData(call) = "none" /\ pc = "try"
          /\ k \in ReductionSolutionInstances /\ program' = program
          /\ DOMAIN args' = DOMAIN args \cup {k}
          /\ \/ /\ refused' = refused \cup {k} /\ memory' = memory
                /\ IF left = {k} THEN Return("INTERNAL_ERROR")
                   ELSE left' = left \ {k} /\ UNCHANGED <<call, pc, reply>>
             \/ /\ refused' = refused /\ memory' = Reduced(k.op, Arguments(call), memory)
                /\ (Return("SUCCESS") \/ Return("CK_ERROR"))
    BY <1>5, TryTurn
  <2>2. /\ DOMAIN memory' = Buffers
        /\ \A b \in Buffers: DOMAIN memory'[b] = DOMAIN Contents[b]
    <3>1. CASE memory' = memory
      BY <3>1 DEF TypeOK
    <3>2. CASE memory' = Reduced(k.op, Arguments(call), memory)
      <4> DEFINE p == Arguments(call)
      <4>1. p.out \in DOMAIN memory
        BY <2>1, MemoryAssumption DEF Arguments
      <4>2. \A y \in Coordinates(p.outLengths): OffsetOf(y, p.outStrides) \in DOMAIN memory[p.out]
        <5>1. p.out = call.D
          BY DEF Arguments
        <5> HIDE DEF p
        <5> QED BY <2>1, <5>1, MemoryAssumption DEF p, TypeOK
      <4>3. memory' = Reduced(k.op, p, memory)
        BY <3>2
      <4> HIDE DEF p
      <4>4. \A b \in DOMAIN memory: DOMAIN memory'[b] = DOMAIN memory[b]
        BY <4>1, <4>2, <4>3, ReducedDomains
      <4>5. DOMAIN memory' = DOMAIN memory
        BY <4>3, ReducedFields
      <4> QED BY <4>4, <4>5 DEF TypeOK
    <3> QED BY <2>1, <3>1, <3>2
  <2>3. /\ pc' \in {"idle", "try"} /\ call' \in Calls \cup {None} /\ (call' = None <=> pc' = "idle")
        /\ left' \subseteq left /\ (left' # {} <=> pc' = "try")
        /\ refused' \subseteq refused \cup {k}
        /\ pc' = "try" => call' = call /\ left' \cup refused' = left \cup refused
    BY <2>1, ConstantsAssumption DEF Return
  <2> QED BY <2>1, <2>2, <2>3 DEF TypeOK, SearchInv
<1>6. CASE UNCHANGED vars
  BY <1>6 DEF vars, TypeOK, SearchInv
<1> QED BY <1>1, <1>2, <1>3, <1>4, <1>5, <1>6 DEF Next, Terminated

LEMMA TypeHold == Spec => []TypeInv
BY TypeInit, TypeStep, PTL DEF Spec

\* The types: a call is in progress just when the search is, it has solutions to
\* try just when it is past the checks, those refused have had arguments, and no
\* element is written that its buffer does not have.
THEOREM ReductionTypeOK == Spec => []TypeOK
<1>1. TypeInv => TypeOK
  BY DEF TypeInv
<1> QED BY <1>1, TypeHold, PTL

\* For every call, whatever the ranks, types and operators: the reference has one
\* solution if the library has any for the call, and none if not.
THEOREM ReductionReferenceCovers == Spec => []ReferenceCovers
<1>1. ReferenceCovers
  <2> DEFINE c == call
  <2>1. CASE Candidates(c) = {}
    <3>1. ReferenceCandidates(c) = {}
      BY <2>1, QueryAsks
    <3> QED BY <2>1, <3>1, FS_EmptySet DEF ReferenceCovers
  <2>2. CASE Candidates(c) # {}
    <3>1. PICK k \in Candidates(c): k.vectorDim = 0
      <4>1. PICK j \in Candidates(c): TRUE
        BY <2>2
      <4> DEFINE k == [j EXCEPT !.vectorDim = 0]
      <4>2. k \in Candidates(c)
        BY CandidatesPair
      <4>3. k.vectorDim = 0
        BY QueryAsks DEF Registered
      <4> QED BY <4>2, <4>3
    <3>2. ReferenceCandidates(c) = {k}
      BY <3>1, QueryAsks, CandidatesAlike
    <3> QED BY <2>2, <3>2, FS_Singleton DEF ReferenceCovers
  <2> QED BY <2>1, <2>2
<1> QED BY <1>1, PTL

\* What a call that failed has tried.
ReplyInv ==
  reply # None /\ CheckReductionInputData(reply.call) = "none" =>
    /\ reply.call \in Calls
    /\ \/ reply.status \in {"SUCCESS", "CK_ERROR"}
       \/ reply.status = "INTERNAL_ERROR" /\ reply.refused = Candidates(reply.call)

LEMMA ReplyStep == TypeInv /\ ReplyInv /\ [Next]_vars => ReplyInv'
<1> SUFFICES ASSUME TypeInv, ReplyInv, [Next]_vars PROVE ReplyInv'
  OBVIOUS
<1>1. CASE UNCHANGED reply
  BY <1>1 DEF ReplyInv
<1>2. CASE Refuse
  BY <1>2 DEF Refuse, Return, ReplyInv
<1>3. CASE NoKernel
  BY <1>3 DEF NoKernel, Return, ReplyInv, TypeInv, TypeOK, SearchInv
<1>4. CASE Try
  <2>1. PICK k \in left:
          /\ call \in Calls /\ pc = "try"
          /\ \/ /\ refused' = refused \cup {k}
                /\ IF left = {k} THEN Return("INTERNAL_ERROR") ELSE UNCHANGED reply
             \/ Return("SUCCESS") \/ Return("CK_ERROR")
    BY <1>4, TryTurn
  <2>2. left \cup refused = Candidates(call)
    BY <2>1 DEF TypeInv, SearchInv
  <2>3. CASE left = {k} /\ refused' = refused \cup {k} /\ Return("INTERNAL_ERROR")
    <3>1. reply' = [call |-> call, status |-> "INTERNAL_ERROR", refused |-> Candidates(call)]
      BY <2>2, <2>3 DEF Return
    <3> QED BY <2>1, <3>1 DEF ReplyInv
  <2>4. CASE Return("SUCCESS") \/ Return("CK_ERROR")
    BY <2>1, <2>4 DEF Return, ReplyInv
  <2> QED BY <1>1, <2>1, <2>3, <2>4
<1> QED BY <1>1, <1>2, <1>3, <1>4 DEF Next, Begin, Search, CopyC, Terminated, vars

\* For lengths and modes of any kind: a call with supported data that reduces some
\* of at most 6 modes by an operator of reductions runs a kernel, or fails only
\* after CK refused both the library has for it.
THEOREM ReductionServed == Spec => []EveryReductionServed
<1>1. Init => ReplyInv
  BY DEF Init, ReplyInv
<1>2. ReplyInv => EveryReductionServed
  BY SupportedServed DEF ReplyInv, EveryReductionServed
<1> QED BY <1>1, <1>2, TypeHold, ReplyStep, PTL DEF Spec

\* Whatever the program calls, in whatever order kernels accept or refuse it: a
\* call writes nothing but D, and one that fails before a kernel ran has at most
\* copied C to it.
THEOREM ReductionFailureWritesOnlyC == Spec => FailureWritesOnlyC
<1> DEFINE Written ==
      memory' # memory =>
        /\ \A b \in Buffers \ {call.D}: memory'[b] = memory[b]
        /\ CheckReductionInputData(call) = "none"
        /\ IF pc' = "idle" THEN reply'.status \in {"SUCCESS", "CK_ERROR"}
           ELSE \A i \in DOMAIN memory[call.D]:
                  memory'[call.D][i] \in {memory[call.C][i], memory[call.D][i]}
<1>1. TypeInv /\ [Next]_vars => Written
  <2> SUFFICES ASSUME TypeInv, [Next]_vars, memory' # memory PROVE Written
    OBVIOUS
  <2>1. CASE CopyC
    <3>1. /\ CheckReductionInputData(call) = "none" /\ pc' = "try"
          /\ memory' = CopyElements(call.C, call.D, ElementsFromLengths(call.c.lengths))
      BY <2>1 DEF CopyC, TypeInv, SearchInv
    <3>2. call.D \in Buffers /\ DOMAIN memory = Buffers
      BY <2>1, <3>1, MemoryAssumption DEF CopyC, TypeInv, TypeOK
    <3> QED BY <3>1, <3>2, CopyFields
  <2>2. CASE Try
    <3>1. PICK k \in left:
            /\ CheckReductionInputData(call) = "none"
            /\ memory' = Reduced(k.op, Arguments(call), memory)
            /\ Return("SUCCESS") \/ Return("CK_ERROR")
      BY <2>2, TryTurn
    <3>2. Arguments(call).out = call.D /\ DOMAIN memory = Buffers
      BY DEF Arguments, TypeInv
    <3>3. \A b \in Buffers \ {call.D}: memory'[b] = memory[b]
      BY <3>1, <3>2, ReducedFields
    <3> QED BY <3>1, <3>3 DEF Return
  <2> QED BY <2>1, <2>2 DEF Next, Begin, Refuse, NoKernel, Search, Terminated, vars
<1>2. TypeInv /\ [Next]_vars => [Written]_vars
  BY <1>1
<1>3. Spec => [][Next]_vars
  BY DEF Spec
<1> QED BY <1>2, <1>3, TypeHold, PTL DEF FailureWritesOnlyC
-----------------------------------------------------------------------------
\* The elements of A a kernel reduces to the element z.
Sources(p, z) ==
  LET kept == DOMAIN p.inLengths \ p.reduceDims IN
  {x \in Coordinates(p.inLengths):
     Position(Project(x, kept), Project(p.inLengths, kept)) = Position(z, p.outLengths)}

Values(p, mem, z) == [x \in Sources(p, z) |-> mem[p.in][OffsetOf(x, p.inStrides)]]

\* An element whose offset is no other's is reduced from its own sources.
LEMMA ReducedElement ==
  ASSUME NEW op, NEW p, NEW mem, p.out \in DOMAIN mem,
         NEW z \in Coordinates(p.outLengths), NEW o, o = OffsetOf(z, p.outStrides),
         \A w \in Coordinates(p.outLengths): OffsetOf(w, p.outStrides) = o => w = z
  PROVE  Reduced(op, p, mem)[p.out][o]
           = p.alpha * Accumulate(op, Values(p, mem, z)) + p.beta * mem[p.out][o]
<1> DEFINE outputs == Coordinates(p.outLengths)
           offsets == {OffsetOf(y, p.outStrides) : y \in outputs}
           result(offset) ==
             LET y == CHOOSE w \in outputs: OffsetOf(w, p.outStrides) = offset
             IN p.alpha * Accumulate(op, Values(p, mem, y)) + p.beta * mem[p.out][offset]
<1>1. Reduced(op, p, mem) =
        [mem EXCEPT ![p.out] =
           [offset \in DOMAIN mem[p.out] \cup offsets |->
              IF offset \in offsets THEN result(offset) ELSE mem[p.out][offset]]]
  BY DEF Reduced, Values, Sources
<1>2. o \in offsets
  OBVIOUS
<1>3. (CHOOSE w \in outputs: OffsetOf(w, p.outStrides) = o) = z
  OBVIOUS
<1>4. result(o) = p.alpha * Accumulate(op, Values(p, mem, z)) + p.beta * mem[p.out][o]
  BY <1>3
<1> HIDE DEF outputs, offsets, result
<1> QED BY <1>1, <1>2, <1>4

\* C has been copied to D when the search begins, and is there until a kernel runs.
CopiedInv ==
  pc = "try" /\ call.C \notin {None, call.D} =>
    \A i \in DOMAIN memory[call.D]:
      i < ElementsFromLengths(call.c.lengths) => memory[call.D][i] = memory[call.C][i]

LEMMA CopiedStep == TypeInv /\ CopiedInv /\ [Next]_vars => CopiedInv'
<1> SUFFICES ASSUME TypeInv, CopiedInv, [Next]_vars PROVE CopiedInv'
  OBVIOUS
<1>1. CASE pc' # "try"
  BY <1>1 DEF CopiedInv
<1>2. CASE CopyC
  <2>1. /\ call \in Calls /\ CheckReductionInputData(call) = "none"
        /\ DOMAIN memory = Buffers /\ call' = call
    BY <1>2 DEF CopyC, TypeInv, TypeOK, SearchInv
  <2>2. call.D \in Buffers /\ call.C \in Buffers \cup {None}
    BY <2>1, MemoryAssumption
  <2>3. SUFFICES ASSUME call.C \notin {None, call.D} PROVE CopiedInv'
    BY <2>1 DEF CopiedInv
  <2> DEFINE count == ElementsFromLengths(call.c.lengths)
  <2>4. memory' = CopyElements(call.C, call.D, count)
    BY <1>2, <2>3 DEF CopyC
  <2> HIDE DEF count
  <2>5. /\ memory'[call.C] = memory[call.C]
        /\ DOMAIN memory'[call.D] = DOMAIN memory[call.D]
        /\ \A i \in DOMAIN memory[call.D]: i < count => memory'[call.D][i] = memory[call.C][i]
    BY <2>1, <2>2, <2>3, <2>4, CopyFields
  <2> QED BY <2>1, <2>5 DEF CopiedInv, count
<1>3. CASE Try /\ pc' = "try"
  <2>1. memory' = memory /\ call' = call /\ pc = "try"
    BY <1>3, TryTurn DEF Return
  <2> QED BY <2>1 DEF CopiedInv
<1>4. CASE UNCHANGED vars
  BY <1>4 DEF vars, CopiedInv
<1> QED
  BY <1>1, <1>2, <1>3, <1>4 DEF Next, Begin, Refuse, NoKernel, Search, Return, Terminated

-----------------------------------------------------------------------------
\* The n modes D has are those of A at the positions pos, in A's order.
InOrder(c, pos, n) ==
  /\ \A j \in 1..n: pos[j] \in Kept(c) /\ Place(c, pos[j]) = j
  /\ \A i \in Kept(c): Place(c, i) \in 1..n /\ pos[Place(c, i)] = i
  /\ \A x: Project(x, Kept(c)) = [j \in 1..n |-> x[pos[j]]]

\* As many modes of A are kept as D has.
LEMMA KeptCount ==
  ASSUME NEW c \in Calls, WellFormed(c)
  PROVE  /\ Len(c.d.lengths) \in Nat /\ Kept(c) \subseteq 1..Len(c.a.lengths)
         /\ IsFiniteSet(Kept(c)) /\ Cardinality(Kept(c)) = Len(c.d.lengths)
<1> DEFINE m == Len(c.a.lengths)
           n == Len(c.d.lengths)
           K == Kept(c)
           f == [j \in 1..n |-> CHOOSE i \in 1..m: c.modeA[i] = c.modeD[j]]
<1>1. /\ m \in Nat /\ n \in Nat
      /\ DOMAIN c.modeA = 1..m /\ DOMAIN c.modeD = 1..n
  <2>1. c.a.lengths \in Seq(Nat) /\ c.d.lengths \in Seq(Nat)
    BY ConstantsAssumption
  <2> QED BY <2>1 DEF WellFormed
<1>2. K = {i \in 1..m: \E j \in 1..n: c.modeA[i] = c.modeD[j]}
  BY <1>1 DEF Kept, FindReduceModes, Range
<1>3. /\ \A i, k \in 1..m: c.modeA[i] = c.modeA[k] => i = k
      /\ \A j, l \in 1..n: c.modeD[j] = c.modeD[l] => j = l
      /\ \A j \in 1..n: \E i \in 1..m: c.modeA[i] = c.modeD[j]
  BY <1>1 DEF WellFormed, Range
<1>4. \A j \in 1..n: f[j] \in 1..m /\ c.modeA[f[j]] = c.modeD[j]
  BY <1>3
<1>5. f = [j \in 1..n |-> f[j]]
  OBVIOUS
<1> HIDE DEF f, m, n, K
<1>6. f \in Bijection(1..n, K)
  <2>1. f \in [1..n -> K]
    BY <1>2, <1>4, <1>5
  <2>2. \A j, l \in 1..n: f[j] = f[l] => j = l
    BY <1>3, <1>4
  <2>3. \A i \in K: \E j \in 1..n: f[j] = i
    BY <1>2, <1>3, <1>4
  <2> QED BY <2>1, <2>2, <2>3 DEF Bijection, Injection, Surjection, IsInjective
<1>7. IsFiniteSet(1..n) /\ Cardinality(1..n) = n
  <2>1. 1 \in Int /\ n \in Int /\ (IF 1 > n THEN 0 ELSE n - 1 + 1) = n
    BY <1>1
  <2> QED BY <2>1, FS_Interval
<1>8. IsFiniteSet(K) /\ Cardinality(K) = n
  BY <1>6, <1>7, FS_Bijection DEF ExistsBijection
<1>9. K \subseteq 1..m
  BY <1>2
<1> QED BY <1>1, <1>8, <1>9 DEF m, n, K

\* A mode kept has fewer kept before it than D has modes, and no two of them as
\* many; so each number below is that of one.
LEMMA KeptInOrder ==
  ASSUME NEW c \in Calls, WellFormed(c)
  PROVE  \E pos: InOrder(c, pos, Len(c.d.lengths))
<1> DEFINE n == Len(c.d.lengths)
           K == Kept(c)
           Before(i) == {h \in K: h < i}
           rank == [i \in K |-> Cardinality(Before(i))]
           pos == [j \in 1..n |-> CHOOSE i \in K: rank[i] = j - 1]
<1>1. /\ n \in Nat /\ IsFiniteSet(K) /\ Cardinality(K) = n
      /\ \A i \in K: i \in Int
  BY KeptCount
<1>2. ASSUME NEW i \in K PROVE rank[i] \in 0..n - 1
  <2>1. Before(i) \in SUBSET K /\ i \notin Before(i)
    BY <1>1
  <2> HIDE DEF Before, K, n
  <2>2. IsFiniteSet(Before(i)) /\ Cardinality(Before(i)) <= n /\ Cardinality(Before(i)) # n
    BY <1>1, <2>1, FS_Subset
  <2>3. Cardinality(Before(i)) \in Nat
    BY <2>2, FS_CardinalityType
  <2> QED BY <1>1, <2>2, <2>3
<1>3. ASSUME NEW i \in K, NEW l \in K, i < l PROVE rank[i] # rank[l]
  <2>1. Before(i) \in SUBSET Before(l) /\ i \in Before(l) /\ i \notin Before(i)
    BY <1>1, <1>3
  <2>2. Before(l) \in SUBSET K
    OBVIOUS
  <2> HIDE DEF Before, K, n
  <2>3. IsFiniteSet(Before(l))
    BY <1>1, <2>2, FS_Subset
  <2>4. Cardinality(Before(i)) # Cardinality(Before(l))
    BY <2>1, <2>3, FS_Subset
  <2> QED BY <2>4
<1>4. \A i, l \in K: rank[i] = rank[l] => i = l
  <2>1. \A i, l \in K: i < l \/ i = l \/ l < i
    BY <1>1
  <2> HIDE DEF rank, K
  <2> QED BY <1>3, <2>1
<1>5. \A j \in 1..n: j - 1 \in 0..n - 1
  BY <1>1
<1>6. \A v \in 0..n - 1: \E i \in K: rank[i] = v
  <2>1. rank \in [K -> 0..n - 1]
    <3>1. rank = [i \in K |-> rank[i]]
      OBVIOUS
    <3> HIDE DEF rank, K, n
    <3> QED BY <1>2, <3>1
  <2>2. IsFiniteSet(0..n - 1) /\ Cardinality(0..n - 1) = n
    <3>1. 0 \in Int /\ n - 1 \in Int /\ (IF 0 > n - 1 THEN 0 ELSE n - 1 - 0 + 1) = n
      BY <1>1
    <3> HIDE DEF n
    <3> QED BY <3>1, FS_Interval
  <2> HIDE DEF rank, K, n
  <2>3. rank \in Injection(K, 0..n - 1)
    BY <1>4, <2>1 DEF Injection, IsInjective
  <2>4. rank \in Surjection(K, 0..n - 1)
    BY <1>1, <2>2, <2>3, FS_Injection
  <2> QED BY <2>4 DEF Surjection
<1>7. \A i \in K: Place(c, i) = rank[i] + 1
  BY DEF Place
<1>8. ASSUME NEW x PROVE Project(x, K) = [j \in 1..n |-> x[pos[j]]]
  <2>1. Project(x, K) = [j \in 1..n |-> x[CHOOSE i \in K: Cardinality(Before(i)) = j - 1]]
    <3> HIDE DEF K, n
    <3> QED BY <1>1 DEF Project
  <2>2. \A j \in 1..n: pos[j] = CHOOSE i \in K: rank[i] = j - 1
    OBVIOUS
  <2>3. ASSUME NEW j \in 1..n
        PROVE  (CHOOSE i \in K: Cardinality(Before(i)) = j - 1) = pos[j]
    <3>1. \A i \in K: rank[i] = j - 1 <=> Cardinality(Before(i)) = j - 1
      OBVIOUS
    <3>2. (CHOOSE i \in K: Cardinality(Before(i)) = j - 1) = CHOOSE i \in K: rank[i] = j - 1
      <4> HIDE DEF rank, Before, K
      <4> QED BY <3>1
    <3> QED BY <2>2, <3>2
  <2> HIDE DEF pos, Before, K, n
  <2> QED BY <2>1, <2>3
<1>9. \A j \in 1..n: pos[j] \in K /\ rank[pos[j]] = j - 1
  <2> HIDE DEF rank, K, n
  <2> QED BY <1>5, <1>6
<1> HIDE DEF pos, rank, Before, K, n
<1>10. \A j \in 1..n: pos[j] \in K /\ Place(c, pos[j]) = j
  BY <1>1, <1>7, <1>9
<1>11. ASSUME NEW i \in K PROVE Place(c, i) \in 1..n /\ pos[Place(c, i)] = i
  <2>1. Place(c, i) \in 1..n /\ Place(c, i) - 1 = rank[i]
    BY <1>1, <1>2, <1>7
  <2>2. pos[Place(c, i)] \in K /\ rank[pos[Place(c, i)]] = rank[i]
    BY <1>9, <2>1
  <2> QED BY <1>4, <2>1, <2>2
<1> QED BY <1>8, <1>10, <1>11 DEF InOrder, K, n

\* What a full reduction writes: one element, at offset 0.
LEMMA OneElement ==
  /\ <<1>> \in Seq(Nat) /\ ElementsFromLengths(<<1>>) = 1
  /\ StridesFromLengths(<<1>>, FALSE) = <<1>>
  /\ <<0>> \in Coordinates(<<1>>)
<1> DEFINE one == <<1>>
<1>1. one \in Seq(Nat) /\ Len(one) = 1 /\ one[1] = 1 /\ SubSeq(one, 2, 1) = <<>>
  <2>1. one \in Seq(Nat) /\ Len(one) = 1 /\ one[1] = 1
    OBVIOUS
  <2>2. SubSeq(one, 2, 1) \in Seq(Nat) /\ Len(SubSeq(one, 2, 1)) = 0
    BY <2>1
  <2> QED BY <2>1, <2>2
<1>2. <<0>> \in Seq(Nat) /\ Len(<<0>>) = 1 /\ \A i \in 1..1: <<0>>[i] < one[i]
  OBVIOUS
<1> DEFINE strides == StridesFromLengths(one, FALSE)
<1>3. strides = [i \in 1..1 |-> strides[i]]
  BY DEF StridesFromLengths
<1> HIDE DEF one, strides
<1>4. ElementsFromLengths(one) = 1
  <2>1. Len(one) # 0
    BY <1>1
  <2>2. ElementsFromLengths(one) = one[1] * ElementsFromLengths(SubSeq(one, 2, Len(one)))
    BY <1>1, <2>1, ProductHead
  <2>3. ElementsFromLengths(one) = 1 * 1
    BY <1>1, <2>2, NoLengths
  <2> QED BY <2>3
<1>5. one \in Seq(Nat) /\ 1 \in 1..Len(one) /\ 1 = Len(one)
  BY <1>1
<1>6. strides[1] = 1
  BY <1>5, RowMajorStrides DEF strides
<1>7. strides = <<1>>
  BY <1>3, <1>6
<1>8. <<0>> \in Coordinates(one)
  BY <1>1, <1>2, CoordinatesAre
<1> QED BY <1>1, <1>4, <1>7, <1>8 DEF strides, one

\* The strides of a descriptor that has them.
LEMMA StridesGiven ==
  ASSUME NEW desc, desc.lengths \in Seq(Nat), desc.strides \in Seq(Nat),
         DOMAIN desc.strides = DOMAIN desc.lengths
  PROVE  StridesOf(desc) = desc.strides
<1>1. ASSUME desc.strides = <<>> PROVE StridesFromLengths(desc.lengths, FALSE) = <<>>
  <2> DEFINE lengths == desc.lengths
             strides == desc.strides
             packed == StridesFromLengths(lengths, FALSE)
  <2>1. DOMAIN strides = 1..0 /\ DOMAIN lengths = DOMAIN strides /\ lengths \in Seq(Nat)
    BY <1>1
  <2> HIDE DEF lengths, strides
  <2>2. Len(lengths) = 0
    BY <2>1
  <2>3. packed \in Seq(Nat) /\ Len(packed) = 0
    BY <2>1, <2>2, PackedTyped
  <2> HIDE DEF packed
  <2>4. packed = <<>>
    BY <2>3
  <2> QED BY <2>4 DEF packed, lengths
<1> QED BY <1>1 DEF StridesOf

\* The element of D at y is one element z of the kernel's, reduced from the
\* elements of A with y's coordinates at the modes kept; and it is among those
\* copied from C.
IndicesAgree(c) ==
  LET p == Arguments(c)
      kept == DOMAIN p.inLengths \ p.reduceDims
  IN /\ p.inLengths = c.a.lengths /\ p.inStrides = c.a.strides
     /\ \A y \in Coordinates(c.d.lengths):
          /\ c.C \notin {None, c.D} =>
               OffsetOf(y, c.d.strides) < ElementsFromLengths(c.c.lengths)
          /\ \E z \in Coordinates(p.outLengths):
               /\ \A w \in Coordinates(p.outLengths):
                    OffsetOf(w, p.outStrides) = OffsetOf(y, c.d.strides) <=> w = z
               /\ \A x \in Coordinates(c.a.lengths):
                    Position(Project(x, kept), Project(p.inLengths, kept)) = Position(z, p.outLengths)
                      <=> \A i \in Kept(c): x[i] = y[Place(c, i)]

\* A's modes that are kept have, in A's order, the lengths of D; the kernel's
\* numbering takes equal coordinates to each other.
LEMMA WellFormedAgrees ==
  ASSUME NEW c \in Calls, WellFormed(c), LengthsInOrder(c)
  PROVE  IndicesAgree(c)
<1> DEFINE p == Arguments(c)
           kept == DOMAIN p.inLengths \ p.reduceDims
           lens == c.d.lengths
           n == Len(lens)
           strides == c.d.strides
           Agree(x, y) == \A i \in Kept(c): x[i] = y[Place(c, i)]
<1>1. /\ c.a.lengths \in Seq(Nat) /\ lens \in Seq(Nat) /\ n \in Nat
      /\ c.a.strides \in Seq(Nat) /\ strides \in Seq(Nat)
  BY ConstantsAssumption
<1>2. /\ DOMAIN c.modeA = DOMAIN c.a.lengths
      /\ DOMAIN c.a.strides = DOMAIN c.a.lengths /\ DOMAIN strides = DOMAIN lens
      /\ FitsIndex(c.a.lengths) /\ FitsIndex(c.a.strides) /\ FitsIndex(lens) /\ FitsIndex(strides)
  BY DEF WellFormed
<1>3. StridesOf(c.a) = c.a.strides /\ StridesOf(c.d) = strides
  BY <1>1, <1>2, StridesGiven
<1>4. /\ IndexVector(c.a.lengths) = c.a.lengths /\ IndexVector(c.a.strides) = c.a.strides
      /\ IndexVector(lens) = lens /\ IndexVector(strides) = strides
  BY <1>1, <1>2, IndexFits
<1>5. IndexVector(<<1>>) = <<1>>
  <2>1. 1 < IndexLimit
    BY IndexAssumption
  <2>2. <<1>> \in Seq(Nat) /\ FitsIndex(<<1>>)
    BY <2>1 DEF FitsIndex
  <2> QED BY <2>2, IndexFits
<1>6. /\ p.inLengths = c.a.lengths /\ p.inStrides = c.a.strides
      /\ p.reduceDims = FindReduceModes(c.modeA, c.modeD)
      /\ p.outLengths = IF lens = <<>> THEN <<1>> ELSE lens
      /\ p.outStrides = IF lens = <<>> THEN <<1>> ELSE strides
  <2>1. /\ p.inLengths = IndexVector(c.a.lengths) /\ p.inStrides = IndexVector(StridesOf(c.a))
        /\ p.reduceDims = FindReduceModes(c.modeA, c.modeD)
        /\ p.outLengths = IndexVector(IF lens = <<>> THEN <<1>> ELSE lens)
        /\ p.outStrides = IndexVector(IF lens = <<>> THEN <<1>> ELSE StridesOf(c.d))
    BY DEF Arguments
  <2> HIDE DEF p, lens, strides
  <2> QED BY <1>3, <1>4, <1>5, <2>1
<1>7. kept = Kept(c) /\ Kept(c) \subseteq 1..Len(c.a.lengths)
  <2>1. kept = Kept(c)
    <3> HIDE DEF p
    <3> QED BY <1>2, <1>6 DEF Kept
  <2> QED BY <2>1, KeptCount
<1>8. PICK pos: InOrder(c, pos, n)
  BY KeptInOrder
<1>9. /\ \A j \in 1..n: pos[j] \in Kept(c) /\ Place(c, pos[j]) = j
      /\ \A i \in Kept(c): Place(c, i) \in 1..n /\ pos[Place(c, i)] = i
      /\ \A x: Project(x, Kept(c)) = [j \in 1..n |-> x[pos[j]]]
  BY <1>8 DEF InOrder
<1>10. \A j \in 1..n: c.a.lengths[pos[j]] = lens[j]
  BY <1>9 DEF LengthsInOrder
<1>11. \A y \in Coordinates(lens): y \in Seq(Nat) /\ Len(y) = n
  BY <1>1, CoordinatesTyped
<1>12. \A x, y \in Coordinates(lens): Position(x, lens) = Position(y, lens) <=> x = y
  BY <1>1, PackedOffsets DEF Position
<1>13. \A y, z \in Coordinates(lens): OffsetOf(y, strides) = OffsetOf(z, strides) <=> y = z
  BY DEF WellFormed
<1> HIDE DEF p, kept
<1>14. Project(p.inLengths, kept) = lens
  <2>1. lens = [j \in 1..n |-> lens[j]]
    BY <1>1
  <2>2. Project(p.inLengths, kept) = [j \in 1..n |-> p.inLengths[pos[j]]]
    BY <1>7, <1>9
  <2> HIDE DEF lens, n
  <2> QED BY <1>6, <1>10, <2>1, <2>2
<1>15. ASSUME NEW x \in Coordinates(c.a.lengths) PROVE Project(x, kept) \in Coordinates(lens)
  <2> DEFINE u == [j \in 1..n |-> x[pos[j]]]
  <2>1. x \in Seq(Nat) /\ Len(x) = Len(c.a.lengths) /\ \A i \in 1..Len(c.a.lengths): x[i] < c.a.lengths[i]
    BY <1>1, CoordinatesTyped
  <2>2. \A j \in 1..n: x[pos[j]] \in Nat /\ x[pos[j]] < lens[j]
    BY <1>7, <1>9, <1>10, <2>1
  <2>3. u \in Seq(Nat) /\ Len(u) = n /\ \A j \in 1..n: u[j] < lens[j]
    BY <1>1, <2>2
  <2> HIDE DEF u
  <2>4. u \in Coordinates(lens)
    BY <1>1, <2>3, CoordinatesAre
  <2>5. Project(x, kept) = u
    BY <1>7, <1>9 DEF u
  <2> QED BY <2>4, <2>5
<1>16. ASSUME NEW x \in Coordinates(c.a.lengths), NEW y \in Coordinates(lens)
       PROVE  Position(Project(x, kept), lens) = Position(y, lens) <=> Agree(x, y)
  <2>1. Position(Project(x, kept), lens) = Position(y, lens) <=> Project(x, kept) = y
    BY <1>12, <1>15
  <2>2. y = [j \in 1..n |-> y[j]]
    BY <1>11
  <2>3. Project(x, kept) = y <=> \A j \in 1..n: x[pos[j]] = y[j]
    <3> HIDE DEF n
    <3> QED BY <1>7, <1>9, <2>2
  <2>4. (\A j \in 1..n: x[pos[j]] = y[j]) <=> Agree(x, y)
    <3> HIDE DEF n
    <3> QED BY <1>9
  <2> QED BY <2>1, <2>3, <2>4
<1>17. ASSUME NEW y \in Coordinates(lens)
       PROVE  \E z \in Coordinates(p.outLengths):
                /\ \A w \in Coordinates(p.outLengths):
                     OffsetOf(w, p.outStrides) = OffsetOf(y, strides) <=> w = z
                /\ Position(z, p.outLengths) = Position(y, lens)
  <2>1. CASE lens # <<>>
    <3>1. p.outLengths = lens /\ p.outStrides = strides
      BY <1>6, <2>1
    <3> HIDE DEF lens, strides
    <3> QED BY <1>13, <3>1
  <2>2. CASE lens = <<>>
    <3>1. p.outLengths = <<1>> /\ p.outStrides = <<1>>
      BY <1>6, <2>2
    <3>2. Position(y, lens) = 0 /\ OffsetOf(y, strides) = 0
      <4> DEFINE packed == StridesFromLengths(lens, FALSE)
      <4>1. OffsetOf(y, packed) \in Nat /\ OffsetOf(y, packed) < 1
        BY <1>1, <2>2, NoLengths, PackedOffsets
      <4>2. packed \in Seq(Nat) /\ Len(packed) = 0 /\ Len(strides) = 0
        <5>1. Len(lens) = 0
          BY <2>2
        <5>2. Len(strides) = 0
          BY <1>1, <1>2, <5>1
        <5> QED BY <1>1, <5>1, <5>2, PackedTyped
      <4> HIDE DEF packed
      <4>3. packed = strides
        BY <1>1, <4>2
      <4>4. OffsetOf(y, packed) = 0
        BY <4>1
      <4> QED BY <4>3, <4>4 DEF Position, packed
    <3>3. \A w \in Coordinates(<<1>>): OffsetOf(w, <<1>>) = 0
      <4>1. \A w \in Coordinates(<<1>>): OffsetOf(w, <<1>>) \in Nat /\ OffsetOf(w, <<1>>) < 1
        BY OneElement, PackedOffsets
      <4> QED BY <4>1
    <3>4. \A w, z \in Coordinates(<<1>>): w = z
      <4>1. \A w, z \in Coordinates(<<1>>): OffsetOf(w, <<1>>) = OffsetOf(z, <<1>>) => w = z
        BY OneElement, PackedOffsets
      <4> QED BY <3>3, <4>1
    <3>5. Position(<<0>>, <<1>>) = 0
      BY <3>3, OneElement DEF Position
    <3> QED BY <3>1, <3>2, <3>3, <3>4, <3>5, OneElement
  <2> QED BY <2>1, <2>2
<1>18. ASSUME NEW y \in Coordinates(lens)
       PROVE  \E z \in Coordinates(p.outLengths):
                /\ \A w \in Coordinates(p.outLengths):
                     OffsetOf(w, p.outStrides) = OffsetOf(y, strides) <=> w = z
                /\ \A x \in Coordinates(c.a.lengths):
                     Position(Project(x, kept), Project(p.inLengths, kept)) = Position(z, p.outLengths)
                       <=> Agree(x, y)
  <2>1. PICK z \in Coordinates(p.outLengths):
          /\ \A w \in Coordinates(p.outLengths):
               OffsetOf(w, p.outStrides) = OffsetOf(y, strides) <=> w = z
          /\ Position(z, p.outLengths) = Position(y, lens)
    BY <1>17
  <2> HIDE DEF lens, strides, Agree
  <2> QED BY <1>14, <1>16, <2>1
<1>19. \A y \in Coordinates(lens):
         c.C \notin {None, c.D} => OffsetOf(y, strides) < ElementsFromLengths(c.c.lengths)
  BY DEF WellFormed
<1> QED BY <1>6, <1>18, <1>19 DEF IndicesAgree, p, kept

\* A kernel that runs leaves in D the reduction of what D held.
LEMMA KernelReduces ==
  ASSUME NEW c \in Calls, IndicesAgree(c), CheckReductionInputData(c) = "none",
         DOMAIN memory = Buffers, NEW y \in Coordinates(c.d.lengths), NEW o,
         o = OffsetOf(y, c.d.strides),
         NEW xs, xs = {x \in Coordinates(c.a.lengths): \A i \in Kept(c): x[i] = y[Place(c, i)]}
  PROVE  Reduced(c.op, Arguments(c), memory)[c.D][o]
           = DefinedElement(c, memory[c.D], memory, y, xs)
<1> DEFINE p == Arguments(c)
           kept == DOMAIN p.inLengths \ p.reduceDims
<1>1. /\ p.inLengths = c.a.lengths /\ p.inStrides = c.a.strides
      /\ p.alpha = c.alpha /\ p.beta = c.beta /\ p.in = c.A /\ p.out = c.D
  BY DEF Arguments, IndicesAgree
<1>2. PICK z \in Coordinates(p.outLengths):
        /\ \A w \in Coordinates(p.outLengths): OffsetOf(w, p.outStrides) = o <=> w = z
        /\ \A x \in Coordinates(c.a.lengths):
             Position(Project(x, kept), Project(p.inLengths, kept)) = Position(z, p.outLengths)
               <=> \A i \in Kept(c): x[i] = y[Place(c, i)]
  BY DEF IndicesAgree
<1>3. Sources(p, z) = xs
  <2> HIDE DEF p
  <2> QED BY <1>1, <1>2 DEF Sources
<1>4. p.out \in DOMAIN memory
  BY <1>1, MemoryAssumption
<1> HIDE DEF p, kept
<1>5. Reduced(c.op, p, memory)[p.out][o]
        = p.alpha * Accumulate(c.op, Values(p, memory, z)) + p.beta * memory[p.out][o]
  BY <1>2, <1>4, ReducedElement
<1>6. Values(p, memory, z) = [x \in xs |-> memory[c.A][OffsetOf(x, c.a.strides)]]
  BY <1>1, <1>3 DEF Values
<1>7. DefinedElement(c, memory[c.D], memory, y, xs)
        = c.alpha * Accumulate(c.op, Values(p, memory, z)) + c.beta * memory[c.D][o]
  BY <1>6 DEF DefinedElement
<1>8. Reduced(c.op, p, memory)[c.D][o] = DefinedElement(c, memory[c.D], memory, y, xs)
  BY <1>1, <1>5, <1>7
<1> QED BY <1>8 DEF p

\* Whatever the program called before, whichever kernels refused it and whichever
\* ran: a call that succeeds, whose D has its lengths and strides in the order of
\* A's modes, leaves in D the reduction of A combined with C as it was, also when
\* D is C itself, whatever the order of modeD and of the strides.
THEOREM ReductionInOrder == Spec => ReducesInOrder
<1> DEFINE SameOrder(y) == {x \in Coordinates(call.a.lengths):
                              \A i \in Kept(call): x[i] = y[Place(call, i)]}
           Leaves ==
             pc = "try" /\ pc' = "idle" /\ reply'.status = "SUCCESS"
               /\ WellFormed(call) /\ LengthsInOrder(call) =>
             \A y \in Coordinates(call.d.lengths):
               memory'[call.D][OffsetOf(y, call.d.strides)]
                 = DefinedElement(call, memory[IF call.C = None THEN call.D ELSE call.C], memory, y,
                                  SameOrder(y))
<1>1. Init => CopiedInv
  BY DEF Init, CopiedInv
<1>2. TypeInv /\ CopiedInv /\ [Next]_vars => [Leaves]_vars
  <2> SUFFICES ASSUME TypeInv, CopiedInv, [Next]_vars, pc = "try", pc' = "idle",
                      reply'.status = "SUCCESS", WellFormed(call), LengthsInOrder(call),
                      NEW y \in Coordinates(call.d.lengths)
               PROVE  memory'[call.D][OffsetOf(y, call.d.strides)]
                        = DefinedElement(call, memory[IF call.C = None THEN call.D ELSE call.C],
                                         memory, y, SameOrder(y))
    OBVIOUS
  <2> DEFINE o == OffsetOf(y, call.d.strides)
             from == IF call.C = None THEN call.D ELSE call.C
             xs == SameOrder(y)
  <2>1. Try
    BY DEF Next, Begin, Refuse, NoKernel, Search, CopyC, Terminated, vars
  <2>2. PICK k \in left:
          /\ call \in Calls /\ CheckReductionInputData(call) = "none"
          /\ memory' = Reduced(k.op, Arguments(call), memory)
    <3>1. PICK k \in left:
            /\ call \in Calls /\ CheckReductionInputData(call) = "none"
            /\ \/ IF left = {k} THEN Return("INTERNAL_ERROR") ELSE pc' = pc
               \/ memory' = Reduced(k.op, Arguments(call), memory)
      BY <2>1, TryTurn
    <3>2. ~Return("INTERNAL_ERROR")
      BY DEF Return
    <3> QED BY <3>1, <3>2
  <2>3. k.op = call.op
    <3>1. k \in Candidates(call)
      BY DEF TypeInv, SearchInv
    <3> QED BY <3>1, QueryAsks DEF Asks
  <2>4. IndicesAgree(call)
    BY <2>2, WellFormedAgrees
  <2>5. memory'[call.D][o] = DefinedElement(call, memory[call.D], memory, y, xs)
    BY <2>2, <2>3, <2>4, KernelReduces DEF TypeInv
  <2>6. memory[from][o] = memory[call.D][o]
    <3>1. CASE call.C \in {None, call.D}
      BY <3>1
    <3>2. CASE call.C \notin {None, call.D}
      <4>1. o \in DOMAIN memory[call.D] /\ o < ElementsFromLengths(call.c.lengths)
        <5>1. o < ElementsFromLengths(call.c.lengths)
          BY <2>4, <3>2 DEF IndicesAgree
        <5>2. \E z \in Coordinates(Arguments(call).outLengths):
                OffsetOf(z, Arguments(call).outStrides) = o
          BY <2>4 DEF IndicesAgree
        <5>3. o \in DOMAIN Contents[call.D] /\ call.D \in Buffers
          BY <2>2, <5>2, MemoryAssumption
        <5> QED BY <5>1, <5>3 DEF TypeInv, TypeOK
      <4> QED BY <3>2, <4>1 DEF CopiedInv
    <3> QED BY <3>1, <3>2
  <2> HIDE DEF SameOrder, xs
  <2>7. DefinedElement(call, memory[from], memory, y, xs)
          = DefinedElement(call, memory[call.D], memory, y, xs)
    BY <2>6 DEF DefinedElement
  <2> QED BY <2>5, <2>7 DEF xs
<1>3. Spec => Init /\ [][Next]_vars
  BY DEF Spec
<1> QED BY <1>1, <1>2, <1>3, TypeHold, CopiedStep, PTL DEF ReducesInOrder
=============================================================================

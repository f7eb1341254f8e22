-------------------------- MODULE ReductionCatalogue --------------------------
(***************************************************************************)
(* The reduction kernels: what each file of library/src/reduction registers  *)
(* for a rank, a number of reduced modes and a type, the solutions           *)
(* ReductionSolutionInstances collects, and those of the CPU reference.       *)
(***************************************************************************)
EXTENDS Naturals

Operators == {"ADD", "MUL", "MIN", "MAX"}

\* Two kernels, which vectorise the kept modes (0) or the reduced ones (1).
EnumerateReductionSolutions(type, typeAcc, rank, numReduceDim, op) ==
  {[typeIn |-> type, typeAcc |-> typeAcc, typeOut |-> type, rank |-> rank,
    numReduceDim |-> numReduceDim, op |-> op, vectorDim |-> d] : d \in {0, 1}}

REG_REDUCTION_SOLUTION(rank, numReduceDim, type, typeAcc) ==
  UNION {EnumerateReductionSolutions(type, typeAcc, rank, numReduceDim, op) : op \in Operators}

-----------------------------------------------------------------------------
\* The files, reduction_solution_<rank>_<reduced>_<type>_<acc>_instance.cpp.

\* Mutant: the file of 5 modes, 4 reduced, registers 3 reduced once more.
gen5x4BF16F32As3 == REG_REDUCTION_SOLUTION(5, 3, "R_16BF", "R_32F")

gen1x1BF16F32 == REG_REDUCTION_SOLUTION(1, 1, "R_16BF", "R_32F")
gen1x1F16F32  == REG_REDUCTION_SOLUTION(1, 1, "R_16F", "R_32F")
gen1x1F32F32  == REG_REDUCTION_SOLUTION(1, 1, "R_32F", "R_32F")
gen1x1F64F64  == REG_REDUCTION_SOLUTION(1, 1, "R_64F", "R_64F")
gen2x1BF16F32 == REG_REDUCTION_SOLUTION(2, 1, "R_16BF", "R_32F")
gen2x1F16F32  == REG_REDUCTION_SOLUTION(2, 1, "R_16F", "R_32F")
gen2x1F32F32  == REG_REDUCTION_SOLUTION(2, 1, "R_32F", "R_32F")
gen2x1F64F64  == REG_REDUCTION_SOLUTION(2, 1, "R_64F", "R_64F")
gen2x2BF16F32 == REG_REDUCTION_SOLUTION(2, 2, "R_16BF", "R_32F")
gen2x2F16F32  == REG_REDUCTION_SOLUTION(2, 2, "R_16F", "R_32F")
gen2x2F32F32  == REG_REDUCTION_SOLUTION(2, 2, "R_32F", "R_32F")
gen2x2F64F64  == REG_REDUCTION_SOLUTION(2, 2, "R_64F", "R_64F")
gen3x1BF16F32 == REG_REDUCTION_SOLUTION(3, 1, "R_16BF", "R_32F")
gen3x1F16F32  == REG_REDUCTION_SOLUTION(3, 1, "R_16F", "R_32F")
gen3x1F32F32  == REG_REDUCTION_SOLUTION(3, 1, "R_32F", "R_32F")
gen3x1F64F64  == REG_REDUCTION_SOLUTION(3, 1, "R_64F", "R_64F")
gen3x2BF16F32 == REG_REDUCTION_SOLUTION(3, 2, "R_16BF", "R_32F")
gen3x2F16F32  == REG_REDUCTION_SOLUTION(3, 2, "R_16F", "R_32F")
gen3x2F32F32  == REG_REDUCTION_SOLUTION(3, 2, "R_32F", "R_32F")
gen3x2F64F64  == REG_REDUCTION_SOLUTION(3, 2, "R_64F", "R_64F")
gen3x3BF16F32 == REG_REDUCTION_SOLUTION(3, 3, "R_16BF", "R_32F")
gen3x3F16F32  == REG_REDUCTION_SOLUTION(3, 3, "R_16F", "R_32F")
gen3x3F32F32  == REG_REDUCTION_SOLUTION(3, 3, "R_32F", "R_32F")
gen3x3F64F64  == REG_REDUCTION_SOLUTION(3, 3, "R_64F", "R_64F")
gen4x1BF16F32 == REG_REDUCTION_SOLUTION(4, 1, "R_16BF", "R_32F")
gen4x1F16F32  == REG_REDUCTION_SOLUTION(4, 1, "R_16F", "R_32F")
gen4x1F32F32  == REG_REDUCTION_SOLUTION(4, 1, "R_32F", "R_32F")
gen4x1F64F64  == REG_REDUCTION_SOLUTION(4, 1, "R_64F", "R_64F")
gen4x2BF16F32 == REG_REDUCTION_SOLUTION(4, 2, "R_16BF", "R_32F")
gen4x2F16F32  == REG_REDUCTION_SOLUTION(4, 2, "R_16F", "R_32F")
gen4x2F32F32  == REG_REDUCTION_SOLUTION(4, 2, "R_32F", "R_32F")
gen4x2F64F64  == REG_REDUCTION_SOLUTION(4, 2, "R_64F", "R_64F")
gen4x3BF16F32 == REG_REDUCTION_SOLUTION(4, 3, "R_16BF", "R_32F")
gen4x3F16F32  == REG_REDUCTION_SOLUTION(4, 3, "R_16F", "R_32F")
gen4x3F32F32  == REG_REDUCTION_SOLUTION(4, 3, "R_32F", "R_32F")
gen4x3F64F64  == REG_REDUCTION_SOLUTION(4, 3, "R_64F", "R_64F")
gen4x4BF16F32 == REG_REDUCTION_SOLUTION(4, 4, "R_16BF", "R_32F")
gen4x4F16F32  == REG_REDUCTION_SOLUTION(4, 4, "R_16F", "R_32F")
gen4x4F32F32  == REG_REDUCTION_SOLUTION(4, 4, "R_32F", "R_32F")
gen4x4F64F64  == REG_REDUCTION_SOLUTION(4, 4, "R_64F", "R_64F")
gen5x1BF16F32 == REG_REDUCTION_SOLUTION(5, 1, "R_16BF", "R_32F")
gen5x1F16F32  == REG_REDUCTION_SOLUTION(5, 1, "R_16F", "R_32F")
gen5x1F32F32  == REG_REDUCTION_SOLUTION(5, 1, "R_32F", "R_32F")
gen5x1F64F64  == REG_REDUCTION_SOLUTION(5, 1, "R_64F", "R_64F")
gen5x2BF16F32 == REG_REDUCTION_SOLUTION(5, 2, "R_16BF", "R_32F")
gen5x2F16F32  == REG_REDUCTION_SOLUTION(5, 2, "R_16F", "R_32F")
gen5x2F32F32  == REG_REDUCTION_SOLUTION(5, 2, "R_32F", "R_32F")
gen5x2F64F64  == REG_REDUCTION_SOLUTION(5, 2, "R_64F", "R_64F")
gen5x3BF16F32 == REG_REDUCTION_SOLUTION(5, 3, "R_16BF", "R_32F")
gen5x3F16F32  == REG_REDUCTION_SOLUTION(5, 3, "R_16F", "R_32F")
gen5x3F32F32  == REG_REDUCTION_SOLUTION(5, 3, "R_32F", "R_32F")
gen5x3F64F64  == REG_REDUCTION_SOLUTION(5, 3, "R_64F", "R_64F")
gen5x4BF16F32 == REG_REDUCTION_SOLUTION(5, 4, "R_16BF", "R_32F")
gen5x4F16F32  == REG_REDUCTION_SOLUTION(5, 4, "R_16F", "R_32F")
gen5x4F32F32  == REG_REDUCTION_SOLUTION(5, 4, "R_32F", "R_32F")
gen5x4F64F64  == REG_REDUCTION_SOLUTION(5, 4, "R_64F", "R_64F")
gen5x5BF16F32 == REG_REDUCTION_SOLUTION(5, 5, "R_16BF", "R_32F")
gen5x5F16F32  == REG_REDUCTION_SOLUTION(5, 5, "R_16F", "R_32F")
gen5x5F32F32  == REG_REDUCTION_SOLUTION(5, 5, "R_32F", "R_32F")
gen5x5F64F64  == REG_REDUCTION_SOLUTION(5, 5, "R_64F", "R_64F")
gen6x1BF16F32 == REG_REDUCTION_SOLUTION(6, 1, "R_16BF", "R_32F")
gen6x1F16F32  == REG_REDUCTION_SOLUTION(6, 1, "R_16F", "R_32F")
gen6x1F32F32  == REG_REDUCTION_SOLUTION(6, 1, "R_32F", "R_32F")
gen6x1F64F64  == REG_REDUCTION_SOLUTION(6, 1, "R_64F", "R_64F")
gen6x2BF16F32 == REG_REDUCTION_SOLUTION(6, 2, "R_16BF", "R_32F")
gen6x2F16F32  == REG_REDUCTION_SOLUTION(6, 2, "R_16F", "R_32F")
gen6x2F32F32  == REG_REDUCTION_SOLUTION(6, 2, "R_32F", "R_32F")
gen6x2F64F64  == REG_REDUCTION_SOLUTION(6, 2, "R_64F", "R_64F")
gen6x3BF16F32 == REG_REDUCTION_SOLUTION(6, 3, "R_16BF", "R_32F")
gen6x3F16F32  == REG_REDUCTION_SOLUTION(6, 3, "R_16F", "R_32F")
gen6x3F32F32  == REG_REDUCTION_SOLUTION(6, 3, "R_32F", "R_32F")
gen6x3F64F64  == REG_REDUCTION_SOLUTION(6, 3, "R_64F", "R_64F")
gen6x4BF16F32 == REG_REDUCTION_SOLUTION(6, 4, "R_16BF", "R_32F")
gen6x4F16F32  == REG_REDUCTION_SOLUTION(6, 4, "R_16F", "R_32F")
gen6x4F32F32  == REG_REDUCTION_SOLUTION(6, 4, "R_32F", "R_32F")
gen6x4F64F64  == REG_REDUCTION_SOLUTION(6, 4, "R_64F", "R_64F")
gen6x5BF16F32 == REG_REDUCTION_SOLUTION(6, 5, "R_16BF", "R_32F")
gen6x5F16F32  == REG_REDUCTION_SOLUTION(6, 5, "R_16F", "R_32F")
gen6x5F32F32  == REG_REDUCTION_SOLUTION(6, 5, "R_32F", "R_32F")
gen6x5F64F64  == REG_REDUCTION_SOLUTION(6, 5, "R_64F", "R_64F")
gen6x6BF16F32 == REG_REDUCTION_SOLUTION(6, 6, "R_16BF", "R_32F")
gen6x6F16F32  == REG_REDUCTION_SOLUTION(6, 6, "R_16F", "R_32F")
gen6x6F32F32  == REG_REDUCTION_SOLUTION(6, 6, "R_32F", "R_32F")
gen6x6F64F64  == REG_REDUCTION_SOLUTION(6, 6, "R_64F", "R_64F")

ReductionSolutionInstances ==
  UNION {gen1x1BF16F32, gen2x1BF16F32, gen2x2BF16F32, gen3x1BF16F32, gen3x2BF16F32,
         gen3x3BF16F32, gen4x1BF16F32, gen4x2BF16F32, gen4x3BF16F32, gen4x4BF16F32,
         gen5x1BF16F32, gen5x2BF16F32, gen5x3BF16F32, gen5x4BF16F32, gen5x5BF16F32,
         gen6x1BF16F32, gen6x2BF16F32, gen6x3BF16F32, gen6x4BF16F32, gen6x5BF16F32,
         gen6x6BF16F32, gen1x1F16F32, gen2x1F16F32, gen2x2F16F32, gen3x1F16F32,
         gen3x2F16F32, gen3x3F16F32, gen4x1F16F32, gen4x2F16F32, gen4x3F16F32,
         gen4x4F16F32, gen5x1F16F32, gen5x2F16F32, gen5x3F16F32, gen5x4F16F32,
         gen5x5F16F32, gen6x1F16F32, gen6x2F16F32, gen6x3F16F32, gen6x4F16F32,
         gen6x5F16F32, gen6x6F16F32, gen1x1F32F32, gen2x1F32F32, gen2x2F32F32,
         gen3x1F32F32, gen3x2F32F32, gen3x3F32F32, gen4x1F32F32, gen4x2F32F32,
         gen4x3F32F32, gen4x4F32F32, gen5x1F32F32, gen5x2F32F32, gen5x3F32F32,
         gen5x4F32F32, gen5x5F32F32, gen6x1F32F32, gen6x2F32F32, gen6x3F32F32,
         gen6x4F32F32, gen6x5F32F32, gen6x6F32F32, gen1x1F64F64, gen2x1F64F64,
         gen2x2F64F64, gen3x1F64F64, gen3x2F64F64, gen3x3F64F64, gen4x1F64F64,
         gen4x2F64F64, gen4x3F64F64, gen4x4F64F64, gen5x1F64F64, gen5x2F64F64,
         gen5x3F64F64, gen5x4F64F64, gen5x5F64F64, gen6x1F64F64, gen6x2F64F64,
         gen6x3F64F64, gen6x4F64F64, gen6x5F64F64, gen6x6F64F64}

-----------------------------------------------------------------------------
\* The CPU reference: one solution for each.

EnumerateReferenceSolutions(type, typeAcc, rank, numReduceDim, op) ==
  {[typeIn |-> type, typeAcc |-> typeAcc, typeOut |-> type, rank |-> rank,
    numReduceDim |-> numReduceDim, op |-> op, vectorDim |-> 0]}

REG_CPU_SOLUTION(rank, numReduceDim, type, typeAcc) ==
  UNION {EnumerateReferenceSolutions(type, typeAcc, rank, numReduceDim, op) : op \in Operators}

\* Mutant: a full reduction has no reference.
CpuReferenceWithoutFull ==
  UNION {REG_CPU_SOLUTION(pair[1], pair[2], type[1], type[2]) :
           pair \in {p \in (1..6) \X (1..6): p[2] < p[1]},
           type \in {<<"R_16F", "R_32F">>, <<"R_16BF", "R_32F">>,
                     <<"R_32F", "R_32F">>, <<"R_64F", "R_64F">>}}

\* Each type and its accumulator, each rank to 6, 1 to all modes reduced.
ReductionCpuReferenceInstances ==
  UNION {REG_CPU_SOLUTION(pair[1], pair[2], type[1], type[2]) :
           pair \in {p \in (1..6) \X (1..6): p[2] <= p[1]},
           type \in {<<"R_16F", "R_32F">>, <<"R_16BF", "R_32F">>,
                     <<"R_32F", "R_32F">>, <<"R_64F", "R_64F">>}}
=============================================================================

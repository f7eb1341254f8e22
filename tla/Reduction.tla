------------------------------ MODULE Reduction ------------------------------
(***************************************************************************)
(* hiptensorReduction (library/src/reduction): D = alpha * reduce(A) +       *)
(* beta * C.  CK reduces onto D, so C is copied to D first; then the         *)
(* solutions the registry has for the problem are tried in turn.  A solution *)
(* keeps the arguments of its last call.                                     *)
(*                                                                          *)
(* Elements are integers.  CK is external: which kernels accept a problem,   *)
(* and whether one that ran answers a negative time, is left open; a kernel  *)
(* reduces through the lengths, the strides and the positions it is given.   *)
(*                                                                          *)
(* The copy of C is done when hipMemcpy returns, and a kernel when the call  *)
(* does: what else a stream holds is not modelled here.  A copy that fails   *)
(* ends the process (CHECK_HIP_ERROR).                                       *)
(***************************************************************************)
EXTENDS TensorLayout, ReductionCatalogue, Functions

CONSTANTS
  Buffers,     \* device memory the program allocated
  Calls,       \* the calls of hiptensorReduction the program makes
  Programs,    \* what it may call, in order: a set of sequences of Calls
  Contents     \* what each buffer holds at first: integers by offset

ASSUME ConstantsAssumption ==
  /\ None \notin Calls /\ None \notin Buffers
  /\ Programs \subseteq Seq(Calls)
  /\ DOMAIN Contents = Buffers
  /\ \A c \in Calls: {c.a.lengths, c.a.strides, c.d.lengths, c.d.strides} \subseteq Seq(Nat)

VARIABLES
  memory,     \* the elements of each buffer
  args,       \* the arguments a solution holds: a function on those that hold any
  program,    \* what is still to be called
  call,       \* the call being made
  left,       \* the solutions it has still to try
  refused,    \* those CK refused to run it
  pc,         \* "idle", "check", "copy" or "try"
  reply       \* the last call that returned

vars == <<memory, args, program, call, left, refused, pc, reply>>

-----------------------------------------------------------------------------
\* The query.

ComputeTypeOf(type) ==
  CASE type = "R_16F"  -> "COMPUTE_16F"
    [] type = "R_16BF" -> "COMPUTE_16BF"
    [] type = "R_32F"  -> "COMPUTE_32F"
    [] type = "R_64F"  -> "COMPUTE_64F"

\* What the registry hashes of a solution.
Param(k) ==
  <<k.typeIn, ComputeTypeOf(k.typeAcc), k.typeOut, k.rank, k.numReduceDim, k.op, TRUE, FALSE>>

Query(solutions, key) == {k \in solutions: Param(k) = key}

\* CK computes 16-bit types in float.
InternalTypeCompute(c) ==
  IF c.typeCompute \in {"COMPUTE_16F", "COMPUTE_16BF"} THEN "COMPUTE_32F" ELSE c.typeCompute

KeyOf(c) ==
  LET rankA == Len(c.a.lengths) IN
  <<c.a.type, InternalTypeCompute(c), c.d.type, rankA, rankA - Len(c.d.lengths), c.op, TRUE, FALSE>>

Candidates(c) == Query(ReductionSolutionInstances, KeyOf(c))

\* hiptensorReductionReference asks its own instances the same.
ReferenceCandidates(c) == Query(ReductionCpuReferenceInstances, KeyOf(c))

-----------------------------------------------------------------------------
\* The arguments of a solution.

\* The positions of A's modes that D does not have.
FindReduceModes(modeA, modeD) == {i \in DOMAIN modeA: modeA[i] \notin Range(modeD)}

StridesOf(desc) == IF desc.strides = <<>> THEN StridesFromLengths(desc.lengths, FALSE)
                                          ELSE desc.strides

\* A full reduction has one element, whatever the strides of its descriptor.
Arguments(c) ==
  LET scalar == c.d.lengths = <<>> IN
  [inLengths |-> IndexVector(c.a.lengths), inStrides |-> IndexVector(StridesOf(c.a)),
   outLengths |-> IndexVector(IF scalar THEN <<1>> ELSE c.d.lengths),
   outStrides |-> IndexVector(IF scalar THEN <<1>> ELSE StridesOf(c.d)),
   reduceDims |-> FindReduceModes(c.modeA, c.modeD),
   alpha |-> c.alpha, beta |-> c.beta, in |-> c.A, out |-> c.D]

\* Mutant: a solution that has run the operation keeps its arguments.
InitArgsOnce(k, c) == IF k \in DOMAIN args THEN args[k] ELSE Arguments(c)

InitArgs(k, c) == Arguments(c)

\* The values of a non-empty set of elements, combined.
Accumulate(op, value) ==
  LET binary(x, y) == CASE op = "ADD" -> x + y
                        [] op = "MUL" -> x * y
                        [] op = "MIN" -> IF x < y THEN x ELSE y
                        [] op = "MAX" -> IF x < y THEN y ELSE x
      first == CHOOSE x \in DOMAIN value: TRUE
  IN FoldFunctionOnSet(binary, value[first], value, DOMAIN value \ {first})

\* The rank of coordinates x among those of the lengths, the last mode fastest.
Position(x, lengths) == OffsetOf(x, StridesFromLengths(lengths, FALSE))

\* The coordinates x at the dimensions dims, in order.
Project(x, dims) ==
  [i \in 1..Cardinality(dims) |-> x[CHOOSE j \in dims: Cardinality({h \in dims: h < j}) = i - 1]]

\* DeviceReduceMultiBlock (CK): the kept modes of A in A's order are one index,
\* the modes of D in D's order another, and the n-th element of the one goes to
\* the n-th of the other.
Reduced(op, p, mem) ==
  LET kept == DOMAIN p.inLengths \ p.reduceDims
      keptLengths == Project(p.inLengths, kept)
      source(y) == {x \in Coordinates(p.inLengths):
                      Position(Project(x, kept), keptLengths) = Position(y, p.outLengths)}
      valueIn(y) == [x \in source(y) |-> mem[p.in][OffsetOf(x, p.inStrides)]]
      outputs == Coordinates(p.outLengths)
      offsets == {OffsetOf(y, p.outStrides) : y \in outputs}
      result(offset) ==
        LET y == CHOOSE z \in outputs: OffsetOf(z, p.outStrides) = offset
        IN p.alpha * Accumulate(op, valueIn(y)) + p.beta * mem[p.out][offset]
  IN [mem EXCEPT ![p.out] =
        [offset \in DOMAIN mem[p.out] \cup offsets |->
           IF offset \in offsets THEN result(offset) ELSE mem[p.out][offset]]]

-----------------------------------------------------------------------------
\* The calls.

Init ==
  /\ memory = Contents
  /\ args = <<>>
  /\ program \in Programs
  /\ call = None /\ left = {} /\ refused = {}
  /\ pc = "idle"
  /\ reply = None

\* The type A, C and D have, with the types it may be computed in.
SupportedTypes ==
  {<<"R_16F", "COMPUTE_16F">>, <<"R_16F", "COMPUTE_32F">>, <<"R_16BF", "COMPUTE_16BF">>,
   <<"R_16BF", "COMPUTE_32F">>, <<"R_32F", "COMPUTE_32F">>, <<"R_64F", "COMPUTE_64F">>}

\* Its errors, in order; "none" when the call may go on.
CheckReductionInputData(c) ==
  CASE c.null                                             -> "NOT_INITIALIZED"
    [] \/ <<c.a.type, c.typeCompute>> \notin SupportedTypes
       \/ {c.c.type, c.d.type} # {c.a.type}               -> "NOT_SUPPORTED"
    [] \/ Len(c.a.lengths) < Len(c.c.lengths)
       \/ c.c # c.d
       \/ ~(Range(c.modeC) \subseteq Range(c.modeA))      -> "NOT_SUPPORTED"
    [] OTHER                                              -> "none"

\* The program's buffers; D has the memory of its descriptor.
ASSUME MemoryAssumption ==
  \A c \in Calls: CheckReductionInputData(c) = "none" =>
    /\ c.D \in Buffers /\ c.C \in Buffers \cup {None}
    /\ \A y \in Coordinates(Arguments(c).outLengths):
         OffsetOf(y, Arguments(c).outStrides) \in DOMAIN Contents[c.D]

Begin ==
  /\ pc = "idle" /\ program # <<>>
  /\ call' = Head(program) /\ program' = Tail(program)
  /\ pc' = "check" /\ refused' = {}
  /\ UNCHANGED <<memory, args, left, reply>>

\* Mutant: the solutions not tried are left to the next call.
ReturnKeepsLeft(status) ==
  /\ reply' = [call |-> call, status |-> status, refused |-> refused']
  /\ pc' = "idle" /\ call' = None /\ left' = left \ refused'

Return(status) ==
  /\ reply' = [call |-> call, status |-> status, refused |-> refused']
  /\ pc' = "idle" /\ call' = None /\ left' = {}

Refuse ==
  /\ pc = "check" /\ CheckReductionInputData(call) # "none"
  /\ refused' = refused
  /\ Return(CheckReductionInputData(call))
  /\ UNCHANGED <<memory, args, program>>

NoKernel ==
  /\ pc = "check" /\ CheckReductionInputData(call) = "none"
  /\ Candidates(call) = {}
  /\ refused' = refused
  /\ Return("INTERNAL_ERROR")
  /\ UNCHANGED <<memory, args, program>>

Search ==
  /\ pc = "check" /\ CheckReductionInputData(call) = "none"
  /\ Candidates(call) # {}
  /\ left' = Candidates(call) /\ pc' = "copy"
  /\ UNCHANGED <<memory, args, program, call, refused, reply>>

\* hipMemcpy of the elements of C's lengths.
CopyElements(from, to, count) ==
  [memory EXCEPT ![to] = [i \in DOMAIN memory[to] |->
                            IF i < count THEN memory[from][i] ELSE memory[to][i]]]

CopyC ==
  /\ pc = "copy"
  /\ memory' = IF call.C \in {None, call.D} THEN memory
               ELSE CopyElements(call.C, call.D, ElementsFromLengths(call.c.lengths))
  /\ pc' = "try"
  /\ UNCHANGED <<args, program, call, left, refused, reply>>

\* A solution holds one set of arguments.
Replace(k, arguments) == [s \in DOMAIN args \cup {k} |-> IF s = k THEN arguments ELSE args[s]]

\* Mutant: the operation runs on what CK refused.
TryRunsRefused ==
  /\ pc = "try"
  /\ \E k \in left:
       /\ args' = Replace(k, InitArgs(k, call))
       /\ \/ /\ refused' = refused \cup {k} /\ left' = left \ {k}
             /\ memory' = Reduced(k.op, args'[k], memory)
             /\ IF left = {k} THEN Return("INTERNAL_ERROR") ELSE UNCHANGED <<call, pc, reply>>
          \/ /\ refused' = refused
             /\ memory' = Reduced(k.op, args'[k], memory)
             /\ (Return("SUCCESS") \/ Return("CK_ERROR"))
  /\ UNCHANGED program

\* operator() of the next solution, in the order of the map, which is not
\* known: CK refuses the arguments, or the kernel runs; the time it answers may
\* be negative.
Try ==
  /\ pc = "try"
  /\ \E k \in left:
       /\ args' = Replace(k, InitArgs(k, call))
       /\ \/ /\ refused' = refused \cup {k}
             /\ IF left = {k} THEN Return("INTERNAL_ERROR")
                ELSE left' = left \ {k} /\ UNCHANGED <<call, pc, reply>>
             /\ memory' = memory
          \/ /\ refused' = refused
             /\ memory' = Reduced(k.op, args'[k], memory)
             /\ (Return("SUCCESS") \/ Return("CK_ERROR"))
  /\ UNCHANGED program

\* The program is over.
Terminated == pc = "idle" /\ program = <<>> /\ UNCHANGED vars

Next == Begin \/ Refuse \/ NoKernel \/ Search \/ CopyC \/ Try \/ Terminated

Spec == Init /\ [][Next]_vars

-----------------------------------------------------------------------------
TypeOK ==
  /\ pc \in {"idle", "check", "copy", "try"}
  /\ call \in Calls \cup {None} /\ (call = None <=> pc = "idle")
  /\ DOMAIN args \subseteq ReductionSolutionInstances
  /\ left \subseteq ReductionSolutionInstances /\ refused \subseteq DOMAIN args
  /\ left # {} <=> pc \in {"copy", "try"}
  /\ \A b \in Buffers: DOMAIN memory[b] = DOMAIN Contents[b]

\* A call whose data is supported and that reduces some of at most 6 modes by an
\* operator of reductions is not refused for want of a kernel: a kernel ran, or
\* both kernels of its rank, type and operator are registered and were tried.
EveryReductionServed ==
  reply # None /\ CheckReductionInputData(reply.call) = "none"
    /\ Len(reply.call.d.lengths) < Len(reply.call.a.lengths)
    /\ Len(reply.call.a.lengths) <= 6 /\ reply.call.op \in Operators =>
  \/ reply.status \in {"SUCCESS", "CK_ERROR"}
  \/ /\ reply.status = "INTERNAL_ERROR"
     /\ {k.vectorDim : k \in reply.refused} = {0, 1}

\* The reference the tests compare with has exactly one solution for each call
\* the library has kernels for, and none for another.
ReferenceCovers ==
  call # None =>
    Cardinality(ReferenceCandidates(call)) = IF Candidates(call) = {} THEN 0 ELSE 1

\* The positions of A's modes that D has, and which of them the i-th is.
Kept(c) == DOMAIN c.modeA \ FindReduceModes(c.modeA, c.modeD)
Place(c, i) == Cardinality({h \in Kept(c): h < i}) + 1

\* D = alpha * reduce(A) + beta * C at the coordinates y: the elements of A at the
\* coordinates xs, reduced; before holds C.
DefinedElement(c, before, mem, y, xs) ==
  LET values == [x \in xs |-> mem[c.A][OffsetOf(x, c.a.strides)]]
  IN c.alpha * Accumulate(c.op, values) + c.beta * before[OffsetOf(y, c.d.strides)]

\* What names one reduction: the modes of A are different and those of D some of
\* them, and the elements of D lie apart; where C is copied to D they are among
\* those copied; no length or stride is too large for CK's index_t.
WellFormed(c) ==
  /\ DOMAIN c.modeA = DOMAIN c.a.lengths /\ DOMAIN c.modeD = DOMAIN c.d.lengths
  /\ DOMAIN c.a.strides = DOMAIN c.a.lengths /\ DOMAIN c.d.strides = DOMAIN c.d.lengths
  /\ \A i, j \in DOMAIN c.modeA: c.modeA[i] = c.modeA[j] => i = j
  /\ \A i, j \in DOMAIN c.modeD: c.modeD[i] = c.modeD[j] => i = j
  /\ Range(c.modeD) \subseteq Range(c.modeA)
  /\ \A y, z \in Coordinates(c.d.lengths):
       OffsetOf(y, c.d.strides) = OffsetOf(z, c.d.strides) => y = z
  /\ c.C \notin {None, c.D} =>
       \A y \in Coordinates(c.d.lengths): OffsetOf(y, c.d.strides) < ElementsFromLengths(c.c.lengths)
  /\ FitsIndex(c.a.lengths) /\ FitsIndex(c.a.strides)
  /\ FitsIndex(c.d.lengths) /\ FitsIndex(c.d.strides)

\* The lengths of D are those of A's modes it has, in A's order; modeD may have
\* them in any order.
LengthsInOrder(c) == \A i \in Kept(c): c.d.lengths[Place(c, i)] = c.a.lengths[i]

\* "CK requires that lengths of output are [5, 8], i.e. lengths of sorted output
\* dims" (reduction_test.cpp): what a call that succeeds leaves in D when the
\* i-th length and stride of D are those of the i-th mode of A it has, whatever
\* the order of modeD and of the strides, whatever kernel ran, whatever calls the
\* solution had before, and also when D is C itself.
ReducesInOrder ==
  [][pc = "try" /\ pc' = "idle" /\ reply'.status = "SUCCESS"
       /\ WellFormed(call) /\ LengthsInOrder(call) =>
       LET before == memory[IF call.C = None THEN call.D ELSE call.C]
           SameOrder(y) == {x \in Coordinates(call.a.lengths):
                              \A i \in Kept(call): x[i] = y[Place(call, i)]}
       IN \A y \in Coordinates(call.d.lengths):
            memory'[call.D][OffsetOf(y, call.d.strides)]
              = DefinedElement(call, before, memory, y, SameOrder(y))]_vars

\* The i-th length of D is that of A's mode of the name modeD[i].
LengthsByName(c) ==
  \A i \in DOMAIN c.modeA, j \in DOMAIN c.modeD:
    c.modeA[i] = c.modeD[j] => c.a.lengths[i] = c.d.lengths[j]

\* "modeC[i] corresponds to extent[i] and stride[i] w.r.t. the arguments provided to
\* hiptensorInitTensorDescriptor" (hiptensor.hpp), and modeD is modeC: each mode
\* of D is that of A with its name.  Only the positions of the modes reduced
\* reach CK, so another order than A's goes unnoticed.
ReducesByName ==
  [][pc = "try" /\ pc' = "idle" /\ reply'.status = "SUCCESS"
       /\ WellFormed(call) /\ LengthsByName(call) =>
       LET before == memory[IF call.C = None THEN call.D ELSE call.C]
           SameNames(y) == {x \in Coordinates(call.a.lengths):
                              \A i \in DOMAIN call.modeA, j \in DOMAIN call.modeD:
                                call.modeA[i] = call.modeD[j] => x[i] = y[j]}
       IN \A y \in Coordinates(call.d.lengths):
            memory'[call.D][OffsetOf(y, call.d.strides)]
              = DefinedElement(call, before, memory, y, SameNames(y))]_vars

\* A call writes nothing but D.  One that fails before a kernel ran has done no
\* more to D than copy C to it: no kernel CK refused has run, and a call whose
\* data is not supported touches nothing.
FailureWritesOnlyC ==
  [][memory' # memory =>
       /\ \A b \in Buffers \ {call.D}: memory'[b] = memory[b]
       /\ CheckReductionInputData(call) = "none"
       /\ IF pc' = "idle" THEN reply'.status \in {"SUCCESS", "CK_ERROR"}
          ELSE \A i \in DOMAIN memory[call.D]:
                 memory'[call.D][i] \in {memory[call.C][i], memory[call.D][i]}]_vars
=============================================================================

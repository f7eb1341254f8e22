----------------------------- MODULE Permutation -----------------------------
(***************************************************************************)
(* hiptensorPermutation (library/src/permutation): the solutions registered,  *)
(* the search for one that accepts the problem, and what its kernel writes.   *)
(* Threads share the solutions; a solution keeps the arguments of its last    *)
(* call until the next one replaces them.                                     *)
(*                                                                          *)
(* Element values are integers and A holds a different one at every offset.   *)
(* Elements written are a set of pairs <<offset, value>>.  CK's kernels are   *)
(* external: a kernel of vector width w accepts what it can read and write w  *)
(* at a time, and writes through the strides it is given.                     *)
(***************************************************************************)
EXTENDS TensorLayout, FiniteSetsExt

CONSTANTS
  Threads,
  Calls,        \* the calls of hiptensorPermutation programs make
  Programs,     \* what each thread may call, in order: [Threads -> Seq(Calls)]
  Serialised,   \* the program makes one call at a time
  ColMajor      \* HIPTENSOR_DATA_LAYOUT_COL_MAJOR of the build: on by default

ASSUME ConstantsAssumption ==
  {Serialised, ColMajor} \subseteq BOOLEAN /\ None \notin Calls /\ Programs \subseteq [Threads -> Seq(Calls)]

VARIABLES
  garbage,    \* mThreadDim of a solution that has never had arguments
  args,       \* the arguments a solution holds: a function on those that hold any
  program,    \* what each thread has still to call
  caller,     \* the call each thread is in
  output,     \* the elements last written
  replies     \* the last call of each thread that returned, and its status

vars == <<garbage, args, program, caller, output, replies>>

-----------------------------------------------------------------------------
\* The solutions.

\* What device_permute_scale_f16_instances and .._f32_instances differ in
\* that IsSupportedArgument looks at.
F16VectorWidths == {4, 8, 1}
F32VectorWidths == {4, 8, 1}

\* GetInstances(): the kernels of the files of each rank.
Factory(type, dim) ==
  CASE dim \notin 2..6 -> {}
    [] type = "F16"    -> F16VectorWidths
    [] type = "F32"    -> F32VectorWidths

EnumeratePermutationSolutions(type, opA, opB, dim) ==
  {[dim |-> dim, type |-> type, opA |-> opA, opB |-> opB, width |-> w] : w \in Factory(type, dim)}

\* The eight registerSolutions of a rank's file.
RankInstances(dim) ==
  UNION {EnumeratePermutationSolutions(type, opA, opB, dim) :
           type \in {"F32", "F16"}, opA \in {"PassThrough", "UnarySquare"},
           opB \in {"PassThrough", "UnarySquare"}}

PermutationSolution2DInstances == RankInstances(2)
PermutationSolution3DInstances == RankInstances(3)

\* Mutant: the file of rank 4 has no kernel with UnarySquare on both sides.
PermutationSolution4DInstancesSeven ==
  RankInstances(4) \ EnumeratePermutationSolutions("F16", "UnarySquare", "UnarySquare", 4)

PermutationSolution4DInstances == RankInstances(4)
PermutationSolution5DInstances == RankInstances(5)
PermutationSolution6DInstances == RankInstances(6)

Solutions ==
  PermutationSolution2DInstances \cup PermutationSolution3DInstances
    \cup PermutationSolution4DInstances \cup PermutationSolution5DInstances
    \cup PermutationSolution6DInstances

ASSUME SolutionsAssumption == None \notin Solutions

\* PermutationSolutionParamsImpl.
Param(k) ==
  LET op(f) == IF f = "PassThrough" THEN "IDENTITY" ELSE "SQRT"
      type == IF k.type = "F16" THEN "R_16F" ELSE "R_32F"
  IN <<k.dim, type, type, op(k.opA), op(k.opB), "SCALE">>

\* mThreadDim: initArgs writes it, the registry hashes it.
ThreadDim(k) == IF k \in DOMAIN args THEN args[k].threadDim ELSE garbage

\* A hash is the tuple hashed, -1 where a field is left out ("-1" among names).
Keys(k) ==
  LET p == Param(k)
      threadDim == ThreadDim(k)
      full(dim) == <<p[1], p[2], p[3], p[4], p[5], p[6], dim>>
  IN {full(-1), full(threadDim),
      <<p[1], "-1", "-1", "-1", "-1", "-1", -1>>,
      <<-1, p[2], p[3], "-1", "-1", "-1", -1>>,
      <<-1, "-1", "-1", p[4], p[5], "-1", -1>>,
      <<-1, "-1", "-1", "-1", "-1", p[6], -1>>,
      <<-1, "-1", "-1", "-1", "-1", "-1", threadDim>>}

\* PermutationSolutionRegistry::Query{candidates}.query(...).
Candidates(solutions, c) ==
  LET key == <<Len(c.a.lengths), c.a.type, c.b.type, c.a.unaryOp, c.b.unaryOp, "SCALE", -1>>
  IN {k \in solutions: key \in Keys(k)}

-----------------------------------------------------------------------------
\* The problem a solution builds of a call.

\* Modes are keys of a std::map<char, ck::index_t>.
Char(mode) == ((mode + 128) % 256) - 128

\* The strides of a packed tensor in the build's layout.
PackedStrides(lengths) == StridesFromLengths(lengths, ColMajor)

\* Strides of B by the position of the mode in A; one that no mode of B names
\* is not initialised.
BStridesCk(c, uninitialised) ==
  LET dims == DOMAIN c.modesA
      stride == IndexVector(PackedStrides(c.b.lengths))
      toIndex(mode) == LET same == {j \in dims: Char(c.modesA[j]) = Char(mode)}
                       IN IF same = {} THEN 1 ELSE Max(same)
  IN [j \in dims |-> LET from == {i \in dims: toIndex(c.modesB[i]) = j}
                     IN IF from = {} THEN uninitialised ELSE stride[Max(from)]]

\* Mutant: the strides of B stay in the order of B's modes.
ArgumentsOwnOrder(c, uninitialised) ==
  [lengths |-> IndexVector(c.a.lengths), aStrides |-> IndexVector(PackedStrides(c.a.lengths)),
   bStrides |-> IndexVector(PackedStrides(c.b.lengths)), alpha |-> c.alpha, call |-> c]

\* The descriptors' strides are not looked at: both tensors are taken as packed.
Arguments(c, uninitialised) ==
  [lengths |-> IndexVector(c.a.lengths), aStrides |-> IndexVector(PackedStrides(c.a.lengths)),
   bStrides |-> BStridesCk(c, uninitialised), alpha |-> c.alpha, call |-> c]

\* IsSupportedArgument (CK): the contiguous modes of A and of B divide into
\* vectors.
IsSupported(width, problem) ==
  \A strides \in {problem.aStrides, problem.bStrides}:
    \E i \in DOMAIN strides: strides[i] = 1 /\ problem.lengths[i] % width = 0

\* UnaryCombinedOp: A's operator, the scale, B's operator.
Unary(f, v) == IF f = "PassThrough" THEN v ELSE v * v
Combined(k, alpha, v) == Unary(k.opB, alpha * Unary(k.opA, v))

ElementOfA(offset) == offset + 2

\* DeviceElementwise (CK): every element, through the strides.
KernelWrites(k, problem) ==
  {<<OffsetOf(x, problem.bStrides),
     Combined(k, problem.alpha, ElementOfA(OffsetOf(x, problem.aStrides)))>> :
     x \in Coordinates(problem.lengths)}

-----------------------------------------------------------------------------
\* hiptensorPermutationReference, with solutions of its own.

PermutationCpuReference2DInstances == RankInstances(2)
PermutationCpuReference3DInstances == RankInstances(3)
PermutationCpuReference4DInstances == RankInstances(4)
PermutationCpuReference5DInstances == RankInstances(5)
PermutationCpuReference6DInstances == RankInstances(6)

\* One ReferencePermutation for each, whatever the widths.
ReferenceSolutions ==
  {k \in PermutationCpuReference2DInstances \cup PermutationCpuReference3DInstances
           \cup PermutationCpuReference4DInstances \cup PermutationCpuReference5DInstances
           \cup PermutationCpuReference6DInstances: k.width = 1}

\* nextIndex: the last coordinate that can grow does, those after it restart;
\* after the last element all restart.
NextIndex(x, lengths) ==
  LET growing == {i \in DOMAIN x: x[i] < lengths[i] - 1} IN
  [i \in DOMAIN x |-> IF growing = {} \/ i > Max(growing) THEN 0
                      ELSE IF i = Max(growing) THEN x[i] + 1 ELSE x[i]]

\* The index and the elements written after each turn of the loop of
\* ReferencePermutation::Invoker::Run; turns is how many it takes.
Walk(k, problem, turns) ==
  LET write(x) == <<OffsetOf(x, problem.bStrides),
                    Combined(k, problem.alpha, ElementOfA(OffsetOf(x, problem.aStrides)))>>
      after[n \in 0..turns] ==
        IF n = 0 THEN [index |-> [i \in DOMAIN problem.lengths |-> 0], written |-> {}]
        ELSE LET walk == after[n - 1]
             IN [index |-> NextIndex(walk.index, problem.lengths),
                 written |-> walk.written \cup {write(walk.index)}]
  IN after[turns]

\* Mutant: the walk stops one element short.
ReferenceRunOneShort(k, problem) ==
  Walk(k, problem, ElementsFromLengths(problem.lengths) - 1).written

ReferenceRun(k, problem) == Walk(k, problem, ElementsFromLengths(problem.lengths)).written

\* It runs the first candidate, there being no check of the arguments.
ReferenceResults(c, uninitialised) ==
  {ReferenceRun(k, Arguments(c, uninitialised)) : k \in Candidates(ReferenceSolutions, c)}

-----------------------------------------------------------------------------
\* The calls.

Idle == [call |-> None, left |-> {}, kernel |-> None]

Init ==
  /\ garbage \in {0, 256}
  /\ args = <<>>
  /\ program \in Programs
  /\ caller = [t \in Threads |-> Idle]
  /\ output = None
  /\ replies = [t \in Threads |-> None]

\* The checks before the search, in order.
Refusal(c) ==
  CASE c.null                                  -> "NOT_INITIALIZED"
    [] c.a.type \notin {"R_16F", "R_32F"}      -> "NOT_SUPPORTED"
    [] c.a.type # c.b.type                     -> "INVALID_VALUE"
    [] c.typeScalar \notin {"R_16F", "R_32F"}  -> "NOT_SUPPORTED"
    [] Candidates(Solutions, c) = {}           -> "INTERNAL_ERROR"
    [] OTHER                                   -> "none"

Call(t) ==
  /\ caller[t].call = None /\ program[t] # <<>>
  /\ Serialised => \A u \in Threads: caller[u].call = None
  /\ program' = [program EXCEPT ![t] = Tail(@)]
  /\ caller' = [caller EXCEPT ![t] = [call |-> Head(program[t]), left |-> {}, kernel |-> None]]
  /\ UNCHANGED <<garbage, args, output, replies>>

\* Mutant: the candidate that ran is not let go.
ReturnKeepsKernel(t, status) ==
  /\ caller' = [caller EXCEPT ![t].call = None, ![t].left = {}]
  /\ replies' = [replies EXCEPT ![t] = [call |-> caller[t].call, status |-> status]]

Return(t, status) ==
  /\ caller' = [caller EXCEPT ![t] = Idle]
  /\ replies' = [replies EXCEPT ![t] = [call |-> caller[t].call, status |-> status]]

\* The thread holds a call it has not searched kernels for yet.
Fresh(t) == caller[t].call # None /\ caller[t].left = {} /\ caller[t].kernel = None

Refuse(t) ==
  /\ Fresh(t) /\ Refusal(caller[t].call) # "none"
  /\ Return(t, Refusal(caller[t].call))
  /\ UNCHANGED <<garbage, args, program, output>>

Search(t) ==
  /\ Fresh(t) /\ Refusal(caller[t].call) = "none"
  /\ caller' = [caller EXCEPT ![t].left = Candidates(Solutions, caller[t].call)]
  /\ UNCHANGED <<garbage, args, program, output, replies>>

\* Mutant: a solution whose arguments were accepted keeps them.
InitArgsOnce(k, c, uninitialised) ==
  IF k \in DOMAIN args /\ args[k].valid THEN args[k]
  ELSE LET problem == Arguments(c, uninitialised)
       IN [problem |-> problem, valid |-> IsSupported(k.width, problem), threadDim |-> 256]

\* initArgs: the old arguments go, and the new ones stay even when they are not
\* supported.
InitArgs(k, c, uninitialised) ==
  LET problem == Arguments(c, uninitialised)
  IN [problem |-> problem, valid |-> IsSupported(k.width, problem), threadDim |-> 256]

\* A solution holds one set of arguments.
Replace(k, arguments) == [s \in DOMAIN args \cup {k} |-> IF s = k THEN arguments ELSE args[s]]

\* Mutant: the loop does not go on to another candidate.
TryCandidateAgain(t) ==
  \E k \in caller[t].left:
    /\ caller[t].kernel = None
    /\ args' = Replace(k, InitArgs(k, caller[t].call, 0))
    /\ caller' = [caller EXCEPT ![t].kernel = IF args'[k].valid THEN k ELSE None,
                                 ![t].left = IF args'[k].valid THEN @ ELSE {k}]
    /\ UNCHANGED <<garbage, program, output, replies>>

\* The next candidate, in the order of the map, which is not known.
TryCandidate(t) ==
  \E k \in caller[t].left:
    /\ caller[t].kernel = None
    /\ \E uninitialised \in {0, 1}:
         /\ args' = Replace(k, InitArgs(k, caller[t].call, uninitialised))
         /\ IF args'[k].valid
            THEN caller' = [caller EXCEPT ![t].kernel = k] /\ replies' = replies
            ELSE IF caller[t].left # {k}
            THEN caller' = [caller EXCEPT ![t].left = @ \ {k}] /\ replies' = replies
            ELSE Return(t, "INTERNAL_ERROR")
    /\ UNCHANGED <<garbage, program, output>>

\* operator(): on whatever arguments the solution holds by now.
Run(t) ==
  LET k == caller[t].kernel IN
  /\ k # None
  /\ IF args[k].valid
     THEN output' = KernelWrites(k, args[k].problem) /\ Return(t, "SUCCESS")
     ELSE output' = output /\ Return(t, "CK_ERROR")
  /\ UNCHANGED <<garbage, args, program>>

Finished == \A t \in Threads: program[t] = <<>> /\ caller[t].call = None

\* The program is over.
Terminated == Finished /\ UNCHANGED vars

Next ==
  \/ \E t \in Threads: Call(t) \/ Refuse(t) \/ Search(t) \/ TryCandidate(t) \/ Run(t)
  \/ Terminated

\* A call goes on until it returns.
Spec ==
  /\ Init /\ [][Next]_vars
  /\ \A t \in Threads: WF_vars(Refuse(t) \/ Search(t) \/ TryCandidate(t) \/ Run(t))

-----------------------------------------------------------------------------
\* What the documentation of the call asks for: modes of different names, the
\* same for A and B, and a length each; and that ck::index_t holds the lengths and
\* the packed strides, which nothing checks.
WellFormed(c) ==
  /\ {c.a.lengths, c.b.lengths} \subseteq Seq(Nat) /\ {c.modesA, c.modesB} \subseteq Seq(Int)
  /\ Len(c.a.lengths) = Len(c.modesA) /\ Len(c.b.lengths) = Len(c.modesA)
  /\ Len(c.modesB) = Len(c.modesA)
  /\ \A v \in {c.a.lengths, PackedStrides(c.a.lengths), PackedStrides(c.b.lengths)}: FitsIndex(v)
  /\ {c.a.type, c.b.type} \subseteq ScalarTypes /\ {c.a.unaryOp, c.b.unaryOp} \subseteq UnaryOps
  /\ \A modes \in {c.modesA, c.modesB}: \A i, j \in DOMAIN modes: Char(modes[i]) = Char(modes[j]) => i = j
  /\ \A i \in DOMAIN c.modesB: \E j \in DOMAIN c.modesA: Char(c.modesB[i]) = Char(c.modesA[j])

\* Modes are the same also beyond the char that Char keeps of them.
SameModes(c) == \A i \in DOMAIN c.modesB: \E j \in DOMAIN c.modesA: c.modesB[i] = c.modesA[j]

\* Where in B the element of A at x goes: each mode of B has the coordinate of
\* A's mode of that name.
InB(c, x) ==
  [i \in DOMAIN c.modesB |-> x[CHOOSE j \in DOMAIN c.modesA: c.modesA[j] = c.modesB[i]]]

\* Elements the definition of the permutation gives; the layouts are those given.
DefinedElements(c, aStrides, bStrides) ==
  LET op(name) == IF name = "IDENTITY" THEN "PassThrough" ELSE "UnarySquare"
      k == [opA |-> op(c.a.unaryOp), opB |-> op(c.b.unaryOp)]
  IN {<<OffsetOf(InB(c, x), bStrides), Combined(k, c.alpha, ElementOfA(OffsetOf(x, aStrides)))>> :
        x \in Coordinates(c.a.lengths)}

\* Both tensors packed in the layout of the build.
PermutedElements(c) ==
  DefinedElements(c, PackedStrides(c.a.lengths), PackedStrides(c.b.lengths))

Operation == INSTANCE TensorOperation WITH
  Result <- PermutedElements,
  asked  <- [t \in Threads |-> caller[t].call]

TypeOK ==
  /\ DOMAIN args \subseteq Solutions
  /\ \A k \in DOMAIN args: args[k].valid \in BOOLEAN /\ args[k].problem.call \in Calls
  /\ \A t \in Threads:
       /\ caller[t].call \in Calls \cup {None}
       /\ caller[t].left \subseteq Solutions
       /\ caller[t].kernel \in {None} \cup (caller[t].left \cap DOMAIN args)
       /\ caller[t].call = None => caller[t] = Idle

\* Solutions keep the arguments of earlier calls, of other lengths and buffers;
\* a run is on those of the call it belongs to.
OwnArguments ==
  \A t \in Threads:
    caller[t].kernel # None => /\ args[caller[t].kernel].valid
                              /\ args[caller[t].kernel].problem.call = caller[t].call

\* Whatever the lengths, some tiling takes them: a call that passes the checks
\* and has 2 to 6 modes succeeds, for every combination of operators.
EveryProblemServed ==
  \A t \in Threads:
    replies[t] # None /\ ~replies[t].call.null =>
      LET c == replies[t].call IN
      (replies[t].status = "SUCCESS" <=>
         /\ c.a.type = c.b.type /\ c.a.type \in {"R_16F", "R_32F"}
         /\ c.typeScalar \in {"R_16F", "R_32F"}
         /\ Len(c.a.lengths) \in 2..6)

\* The reference the tests compare with, which walks the elements one by one
\* with an odometer, has a solution for every call the library serves, and
\* writes the same elements.
ReferenceAgrees ==
  \A t \in Threads:
    replies[t] # None /\ replies[t].status = "SUCCESS" =>
      ReferenceResults(replies[t].call, 0) = {PermutedElements(replies[t].call)}

\* Each call is refused, or B becomes at once the permutation of A the modes
\* define, whichever tiling ran and whatever calls came before it.
ImplementsOperation == Operation!Spec

\* A call returns: the search ends.
CallsReturn == \A t \in Threads: caller[t].call # None ~> caller[t].call = None

\* "A descriptor that holds information about the data type, modes, and strides
\* of A": elements are where the descriptors' strides say.
DescriptorStrides ==
  [][\A t \in Threads:
       Run(t) /\ replies'[t].status = "SUCCESS" =>
         LET c == caller[t].call IN output' = DefinedElements(c, c.a.strides, c.b.strides)]_vars
=============================================================================

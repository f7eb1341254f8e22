--------------------------- MODULE PermutationProofs ---------------------------
(***************************************************************************)
(* Proofs about Permutation.tla: a solution runs on the arguments of the call *)
(* it belongs to, every well-formed problem of 2 to 6 modes is served, each   *)
(* call is one step of TensorOperation, and the odometer of the CPU reference *)
(* writes what the operation does.                                           *)
(***************************************************************************)
EXTENDS Permutation, TensorLayoutProofs, SequenceTheorems, FiniteSetTheorems

CallerType == [call: Calls \cup {None}, left: SUBSET Solutions, kernel: Solutions \cup {None}]

\* TypeOK with the variables it leaves out.
TypeInv ==
  /\ program \in [Threads -> Seq(Calls)]
  /\ caller \in [Threads -> CallerType]
  /\ DOMAIN replies = Threads
  /\ TypeOK

-----------------------------------------------------------------------------
LEMMA TypeInit == Init => TypeInv
BY ConstantsAssumption DEF Init, TypeInv, TypeOK, CallerType, Idle

\* A candidate's arguments are those of the call.
LEMMA InitArgsFields ==
  ASSUME NEW k, NEW c, NEW uninitialised
  PROVE  /\ InitArgs(k, c, uninitialised).valid \in BOOLEAN
         /\ InitArgs(k, c, uninitialised).valid = IsSupported(k.width, Arguments(c, uninitialised))
         /\ InitArgs(k, c, uninitialised).problem = Arguments(c, uninitialised)
         /\ InitArgs(k, c, uninitialised).problem.call = c
<1>1. IsSupported(k.width, Arguments(c, uninitialised)) \in BOOLEAN
  BY DEF IsSupported
<1> QED BY <1>1 DEF InitArgs, Arguments

\* What the search changes of a caller.
LEMMA CallerLeft ==
  ASSUME caller \in [Threads -> CallerType], NEW t \in Threads, NEW left \in SUBSET Solutions,
         caller' = [caller EXCEPT ![t].left = left]
  PROVE  /\ caller' \in [Threads -> CallerType]
         /\ caller'[t] = [call |-> caller[t].call, left |-> left, kernel |-> caller[t].kernel]
         /\ \A u \in Threads \ {t}: caller'[u] = caller[u]
<1>1. caller'[t] = [call |-> caller[t].call, left |-> left, kernel |-> caller[t].kernel]
  BY DEF CallerType
<1>2. caller'[t] \in CallerType
  BY <1>1 DEF CallerType
<1>3. caller' = [u \in Threads |-> IF u = t THEN caller'[t] ELSE caller[u]]
  OBVIOUS
<1> QED BY <1>1, <1>2, <1>3

LEMMA CallerKernel ==
  ASSUME caller \in [Threads -> CallerType], NEW t \in Threads, NEW k \in Solutions,
         caller' = [caller EXCEPT ![t].kernel = k]
  PROVE  /\ caller' \in [Threads -> CallerType]
         /\ caller'[t] = [call |-> caller[t].call, left |-> caller[t].left, kernel |-> k]
         /\ \A u \in Threads \ {t}: caller'[u] = caller[u]
<1>1. caller'[t] = [call |-> caller[t].call, left |-> caller[t].left, kernel |-> k]
  BY DEF CallerType
<1>2. caller'[t] \in CallerType
  BY <1>1 DEF CallerType
<1>3. caller' = [u \in Threads |-> IF u = t THEN caller'[t] ELSE caller[u]]
  OBVIOUS
<1> QED BY <1>1, <1>2, <1>3

LEMMA TypeStep == TypeInv /\ [Next]_vars => TypeInv'
<1> SUFFICES ASSUME TypeInv, [Next]_vars PROVE TypeInv'
  OBVIOUS
<1> USE DEF TypeInv
<1>1. ASSUME NEW t \in Threads, Call(t) PROVE TypeInv'
  <2>1. Head(program[t]) \in Calls /\ Tail(program[t]) \in Seq(Calls)
    BY <1>1, HeadTailProperties DEF Call
  <2>2. caller' \in [Threads -> CallerType]
    BY <1>1, <2>1 DEF Call, CallerType
  <2> QED BY <1>1, <2>1, <2>2, ConstantsAssumption DEF Call, TypeOK, CallerType
<1>2. ASSUME NEW t \in Threads, Refuse(t) PROVE TypeInv'
  BY <1>2 DEF Refuse, Return, TypeOK, CallerType, Idle
<1>3. ASSUME NEW t \in Threads, Search(t) PROVE TypeInv'
  <2> DEFINE left == Candidates(Solutions, caller[t].call)
  <2>1. left \in SUBSET Solutions
    BY DEF Candidates
  <2>2. caller' = [caller EXCEPT ![t].left = left]
    BY <1>3 DEF Search
  <2> HIDE DEF left
  <2>3. /\ caller' \in [Threads -> CallerType]
        /\ caller'[t] = [call |-> caller[t].call, left |-> left, kernel |-> caller[t].kernel]
        /\ \A u \in Threads \ {t}: caller'[u] = caller[u]
    BY <2>1, <2>2, CallerLeft
  <2>4. /\ UNCHANGED <<args, program, replies>>
        /\ caller[t].call # None /\ caller[t].kernel = None
    BY <1>3 DEF Search, Fresh
  <2>5. ASSUME NEW u \in Threads
        PROVE  /\ caller'[u].call \in Calls \cup {None}
               /\ caller'[u].left \subseteq Solutions
               /\ caller'[u].kernel \in {None} \cup (caller'[u].left \cap DOMAIN args')
               /\ caller'[u].call = None => caller'[u] = Idle
    BY <2>1, <2>3, <2>4 DEF TypeOK
  <2> QED BY <2>3, <2>4, <2>5 DEF TypeOK
<1>4. ASSUME NEW t \in Threads, TryCandidate(t) PROVE TypeInv'
  <2>1. PICK k \in caller[t].left, uninitialised \in {0, 1}:
          /\ args' = Replace(k, InitArgs(k, caller[t].call, uninitialised))
          /\ \/ caller' = [caller EXCEPT ![t].kernel = k] /\ replies' = replies
             \/ caller' = [caller EXCEPT ![t].left = @ \ {k}] /\ replies' = replies
             \/ Return(t, "INTERNAL_ERROR")
          /\ caller[t].kernel = None /\ UNCHANGED program
    BY <1>4 DEF TryCandidate
  <2>2. k \in Solutions /\ caller[t].left \in SUBSET Solutions /\ caller[t].call \in Calls
    BY <2>1 DEF TypeOK, CallerType, Idle
  <2>3. /\ DOMAIN args' = DOMAIN args \cup {k}
        /\ \A s \in DOMAIN args': args'[s].valid \in BOOLEAN /\ args'[s].problem.call \in Calls
    <3> DEFINE arguments == InitArgs(k, caller[t].call, uninitialised)
    <3>1. arguments.valid \in BOOLEAN /\ arguments.problem.call \in Calls
      BY <2>2, InitArgsFields
    <3>2. args' = Replace(k, arguments)
      BY <2>1
    <3> HIDE DEF arguments
    <3>3. /\ DOMAIN args' = DOMAIN args \cup {k} /\ args'[k] = arguments
          /\ \A s \in DOMAIN args: s # k => args'[s] = args[s]
      BY <3>2 DEF Replace
    <3> QED BY <3>1, <3>3 DEF TypeOK
  <2>4. /\ caller' \in [Threads -> CallerType] /\ DOMAIN replies' = Threads
        /\ \A u \in Threads:
             /\ caller'[u].kernel \in {None} \cup (caller'[u].left \cap DOMAIN args')
             /\ caller'[u].call = None => caller'[u] = Idle
    <3>1. CASE Return(t, "INTERNAL_ERROR")
      BY <2>3, <3>1 DEF Return, TypeOK, CallerType, Idle
    <3>2. CASE caller' = [caller EXCEPT ![t].kernel = k] /\ replies' = replies
      <4>1. /\ caller' \in [Threads -> CallerType]
            /\ caller'[t] = [call |-> caller[t].call, left |-> caller[t].left, kernel |-> k]
            /\ \A u \in Threads \ {t}: caller'[u] = caller[u]
        BY <2>2, <3>2, CallerKernel
      <4> QED BY <2>1, <2>2, <2>3, <3>2, <4>1, ConstantsAssumption DEF TypeOK
    <3>3. CASE caller' = [caller EXCEPT ![t].left = @ \ {k}] /\ replies' = replies
      <4> DEFINE left == caller[t].left \ {k}
      <4>1. left \in SUBSET Solutions /\ caller' = [caller EXCEPT ![t].left = left]
        BY <2>2, <3>3
      <4> HIDE DEF left
      <4>2. /\ caller' \in [Threads -> CallerType]
            /\ caller'[t] = [call |-> caller[t].call, left |-> left, kernel |-> caller[t].kernel]
            /\ \A u \in Threads \ {t}: caller'[u] = caller[u]
        BY <4>1, CallerLeft
      <4> QED BY <2>1, <2>2, <2>3, <3>3, <4>1, <4>2, ConstantsAssumption DEF TypeOK
    <3> QED BY <2>1, <3>1, <3>2, <3>3
  <2> QED BY <2>1, <2>3, <2>4 DEF TypeOK, CallerType
<1>5. ASSUME NEW t \in Threads, Run(t) PROVE TypeInv'
  <2>1. /\ \E status: Return(t, status)
        /\ UNCHANGED <<args, program>>
    BY <1>5 DEF Run
  <2> QED BY <2>1 DEF Return, TypeOK, CallerType, Idle
<1>6. CASE UNCHANGED vars
  BY <1>6 DEF vars, TypeOK
<1> QED BY <1>1, <1>2, <1>3, <1>4, <1>5, <1>6 DEF Next, Terminated

\* The types: a thread in a call holds one of Calls and tries only registered
\* solutions, and the one it is to run has arguments.
THEOREM PermutationTypeOK == Spec => []TypeOK
<1>1. TypeInv => TypeOK
  BY DEF TypeInv
<1> QED BY <1>1, TypeInit, TypeStep, PTL DEF Spec
-----------------------------------------------------------------------------
\* A program that serialises its calls has one thread in the library.
OneCaller ==
  \A t, u \in Threads: caller[t].call # None /\ caller[u].call # None => t = u

LEMMA OneCallerStep ==
  ASSUME Serialised, TypeInv, OneCaller, [Next]_vars
  PROVE  OneCaller'
<1>1. ASSUME NEW t \in Threads, Call(t) PROVE OneCaller'
  BY <1>1 DEF Call, OneCaller, TypeInv
<1>2. ASSUME NEW t \in Threads, caller[t].call # None,
             \A u \in Threads \ {t}: caller'[u] = caller[u]
      PROVE  OneCaller'
  BY <1>2 DEF OneCaller
<1>3. ASSUME NEW t \in Threads, Refuse(t) \/ Search(t) \/ TryCandidate(t) \/ Run(t)
      PROVE  caller[t].call # None /\ \A u \in Threads \ {t}: caller'[u] = caller[u]
  <2>1. caller[t].call # None
    BY <1>3 DEF Refuse, Search, TryCandidate, Run, Fresh, TypeInv, TypeOK, Idle
  <2>2. \A u \in Threads \ {t}: caller'[u] = caller[u]
    BY <1>3 DEF Refuse, Search, TryCandidate, Run, Return, TypeInv
  <2> QED BY <2>1, <2>2
<1>4. CASE UNCHANGED vars
  BY <1>4 DEF vars, OneCaller
<1> QED BY <1>1, <1>2, <1>3, <1>4 DEF Next, Terminated

LEMMA OwnStep ==
  ASSUME Serialised, TypeInv, OneCaller, OwnArguments, [Next]_vars
  PROVE  OwnArguments'
<1> USE DEF TypeInv
<1>1. ASSUME NEW t \in Threads, Call(t) PROVE OwnArguments'
  BY <1>1 DEF Call, OwnArguments
<1>2. ASSUME NEW t \in Threads, Refuse(t) PROVE OwnArguments'
  BY <1>2 DEF Refuse, Return, Idle, OwnArguments
<1>3. ASSUME NEW t \in Threads, Search(t) PROVE OwnArguments'
  <2>1. /\ \A u \in Threads \ {t}: caller'[u] = caller[u]
        /\ caller'[t].kernel = None /\ args' = args
    BY <1>3 DEF Search, Fresh, CallerType
  <2> QED BY <2>1 DEF OwnArguments
<1>4. ASSUME NEW t \in Threads, TryCandidate(t) PROVE OwnArguments'
  <2>1. PICK k \in caller[t].left, uninitialised \in {0, 1}:
          /\ args' = Replace(k, InitArgs(k, caller[t].call, uninitialised))
          /\ IF args'[k].valid
             THEN caller' = [caller EXCEPT ![t].kernel = k]
             ELSE \/ caller' = [caller EXCEPT ![t].left = @ \ {k}]
                  \/ Return(t, "INTERNAL_ERROR")
          /\ caller[t].kernel = None
    BY <1>4 DEF TryCandidate
  <2>2. k \in Solutions /\ caller[t].call # None
    BY <2>1 DEF TypeOK, CallerType, Idle
  <2>3. args'[k].problem.call = caller[t].call
    <3> DEFINE arguments == InitArgs(k, caller[t].call, uninitialised)
    <3>1. arguments.problem.call = caller[t].call /\ args' = Replace(k, arguments)
      BY <2>1, InitArgsFields
    <3> HIDE DEF arguments
    <3>2. Replace(k, arguments)[k] = arguments
      BY DEF Replace
    <3> QED BY <3>1, <3>2
  <2>4. ASSUME NEW u \in Threads \ {t}
        PROVE  caller'[u] = caller[u] /\ caller[u].kernel = None
    <3>1. caller[u].call = None
      BY <2>2 DEF OneCaller
    <3> QED BY <2>1, <3>1 DEF TypeOK, Idle, Return
  <2>5. CASE args'[k].valid
    <3>1. caller'[t].kernel = k /\ caller'[t].call = caller[t].call
      BY <2>1, <2>2, <2>5, CallerKernel
    <3> QED BY <2>3, <2>4, <2>5, <3>1 DEF OwnArguments
  <2>6. CASE ~args'[k].valid
    <3>1. caller'[t].kernel = None
      BY <2>1, <2>6 DEF Return, Idle, CallerType
    <3> QED BY <2>4, <3>1 DEF OwnArguments
  <2> QED BY <2>5, <2>6
<1>5. ASSUME NEW t \in Threads, Run(t) PROVE OwnArguments'
  <2>1. /\ \E status: Return(t, status)
        /\ args' = args
    BY <1>5 DEF Run
  <2> QED BY <2>1 DEF Return, Idle, OwnArguments
<1>6. CASE UNCHANGED vars
  BY <1>6 DEF vars, OwnArguments
<1> QED BY <1>1, <1>2, <1>3, <1>4, <1>5, <1>6 DEF Next, Terminated

PermutationInv == TypeInv /\ OneCaller /\ OwnArguments

LEMMA PermutationHold ==
  ASSUME Serialised
  PROVE  Spec => []PermutationInv
<1>1. Init => OneCaller /\ OwnArguments
  BY DEF Init, Idle, OneCaller, OwnArguments
<1>2. TypeInv /\ OneCaller /\ OwnArguments /\ [Next]_vars => OneCaller' /\ OwnArguments'
  BY OneCallerStep, OwnStep
<1> QED BY <1>1, <1>2, TypeInit, TypeStep, PTL DEF Spec, PermutationInv

\* A program that serialises its calls never has a kernel run on the arguments
\* another call, of other lengths or another tensor, left in its solution: they
\* are those of the call, and CK accepted them.
THEOREM PermutationOwnArguments ==
  ASSUME Serialised
  PROVE  Spec => []OwnArguments
<1>1. PermutationInv => OwnArguments
  BY DEF PermutationInv
<1> QED BY <1>1, PermutationHold, PTL
-----------------------------------------------------------------------------
\* What is registered: every rank from 2 to 6, with every type, operator on each
\* side and vector width.
Registered ==
  [dim: 2..6, type: {"F16", "F32"}, opA: {"PassThrough", "UnarySquare"},
   opB: {"PassThrough", "UnarySquare"}, width: {1, 4, 8}]

LEMMA SolutionsRegistered == Solutions = Registered
<1>1. ASSUME NEW dim \in 2..6
      PROVE  RankInstances(dim) = {k \in Registered: k.dim = dim}
  <2>1. \A type \in {"F16", "F32"}: Factory(type, dim) = {1, 4, 8}
    BY DEF Factory, F16VectorWidths, F32VectorWidths
  <2>2. ASSUME NEW k \in RankInstances(dim) PROVE k \in Registered /\ k.dim = dim
    BY <2>1 DEF RankInstances, EnumeratePermutationSolutions, Registered
  <2>3. ASSUME NEW k \in Registered, k.dim = dim PROVE k \in RankInstances(dim)
    <3>1. k = [dim |-> dim, type |-> k.type, opA |-> k.opA, opB |-> k.opB, width |-> k.width]
      BY <2>3 DEF Registered
    <3>2. k \in EnumeratePermutationSolutions(k.type, k.opA, k.opB, dim)
      BY <2>1, <2>3, <3>1 DEF EnumeratePermutationSolutions, Registered
    <3> QED BY <2>3, <3>2 DEF RankInstances, Registered
  <2> QED BY <2>2, <2>3
<1>2. Solutions = RankInstances(2) \cup RankInstances(3) \cup RankInstances(4)
                    \cup RankInstances(5) \cup RankInstances(6)
  BY DEF Solutions, PermutationSolution2DInstances, PermutationSolution3DInstances,
         PermutationSolution4DInstances, PermutationSolution5DInstances,
         PermutationSolution6DInstances
<1>3. Registered = {k \in Registered: k.dim \in 2..6}
  BY DEF Registered
<1> QED BY <1>1, <1>2, <1>3

\* The names of a solution's type and operators in the library's interface.
TypeName(k) == IF k.type = "F16" THEN "R_16F" ELSE "R_32F"
OpName(f) == IF f = "PassThrough" THEN "IDENTITY" ELSE "SQRT"

Fits(k, c) ==
  /\ k.dim = Len(c.a.lengths)
  /\ TypeName(k) = c.a.type /\ TypeName(k) = c.b.type
  /\ OpName(k.opA) = c.a.unaryOp /\ OpName(k.opB) = c.b.unaryOp

\* The query finds the solutions of the problem's rank, types and operators,
\* whatever arguments they hold: mThreadDim, which initArgs changes after the
\* solution is registered, has no part in it.
LEMMA CandidatesFit ==
  ASSUME NEW c, WellFormed(c)
  PROVE  Candidates(Solutions, c) = {k \in Solutions: Fits(k, c)}
<1> SUFFICES ASSUME NEW k \in Solutions
             PROVE  <<Len(c.a.lengths), c.a.type, c.b.type, c.a.unaryOp, c.b.unaryOp, "SCALE", -1>>
                      \in Keys(k) <=> Fits(k, c)
  BY DEF Candidates
<1> DEFINE key == <<Len(c.a.lengths), c.a.type, c.b.type, c.a.unaryOp, c.b.unaryOp, "SCALE", -1>>
           full(dim) == <<k.dim, TypeName(k), TypeName(k), OpName(k.opA), OpName(k.opB), "SCALE", dim>>
<1>1. Keys(k) = {full(-1), full(ThreadDim(k)),
                 <<k.dim, "-1", "-1", "-1", "-1", "-1", -1>>,
                 <<-1, TypeName(k), TypeName(k), "-1", "-1", "-1", -1>>,
                 <<-1, "-1", "-1", OpName(k.opA), OpName(k.opB), "-1", -1>>,
                 <<-1, "-1", "-1", "-1", "-1", "SCALE", -1>>,
                 <<-1, "-1", "-1", "-1", "-1", "-1", ThreadDim(k)>>}
  BY DEF Keys, Param, TypeName, OpName
<1>2. Len(c.a.lengths) \in Nat /\ c.a.type # "-1"
  BY DEF WellFormed, ScalarTypes
<1>3. Fits(k, c) => key = full(-1)
  BY DEF Fits
<1>4. ASSUME key \in Keys(k) PROVE Fits(k, c)
  <2>1. key[1] # -1 /\ key[2] # "-1"
    BY <1>2
  <2>2. \E dim: key = full(dim)
    BY <1>1, <1>4, <2>1
  <2> QED BY <2>2 DEF Fits
<1> QED BY <1>1, <1>3, <1>4
\* The problems the library serves.
Serves(c) ==
  /\ c.a.type = c.b.type /\ c.a.type \in {"R_16F", "R_32F"}
  /\ c.typeScalar \in {"R_16F", "R_32F"}
  /\ Len(c.a.lengths) \in 2..6

LEMMA NarrowestFits ==
  ASSUME NEW c, WellFormed(c), Serves(c)
  PROVE  \E k \in Solutions: Fits(k, c) /\ k.width = 1
<1> DEFINE Op(name) == IF name = "IDENTITY" THEN "PassThrough" ELSE "UnarySquare"
           k == [dim |-> Len(c.a.lengths), type |-> IF c.a.type = "R_16F" THEN "F16" ELSE "F32",
                 opA |-> Op(c.a.unaryOp), opB |-> Op(c.b.unaryOp), width |-> 1]
<1>1. k \in Solutions
  BY SolutionsRegistered DEF Registered, Serves
<1>2. Fits(k, c)
  BY DEF Fits, TypeName, OpName, Serves, WellFormed, UnaryOps
<1> QED BY <1>1, <1>2

LEMMA RefusalServes ==
  ASSUME NEW c, WellFormed(c)
  PROVE  Refusal(c) = "none" <=> ~c.null /\ Serves(c)
<1>1. Candidates(Solutions, c) = {k \in Solutions: Fits(k, c)}
  BY CandidatesFit
<1>2. ASSUME Serves(c) PROVE Candidates(Solutions, c) # {}
  BY <1>1, <1>2, NarrowestFits
<1>3. ASSUME Candidates(Solutions, c) # {} PROVE Len(c.a.lengths) \in 2..6
  BY <1>1, <1>3, SolutionsRegistered DEF Fits, Registered
<1> QED BY <1>2, <1>3 DEF Refusal, Serves

\* The contiguous mode of a packed tensor: the first, or in a row-major build the
\* last.
Contiguous(L) == IF ColMajor THEN 1 ELSE L

LEMMA ContiguousStride ==
  ASSUME NEW lengths \in Seq(Nat), lengths # <<>>
  PROVE  /\ Contiguous(Len(lengths)) \in DOMAIN lengths
         /\ PackedStrides(lengths)[Contiguous(Len(lengths))] = 1
<1>1. CASE ColMajor = TRUE
  <2>1. SubSeq(lengths, 1, 0) = <<>>
    OBVIOUS
  <2>2. ElementsFromLengths(<<>>) = 1
    BY NoLengths
  <2>3. 1 \in DOMAIN lengths /\ 1 - 1 = 0
    OBVIOUS
  <2> HIDE DEF ElementsFromLengths
  <2>4. PackedStrides(lengths)[1] = ElementsFromLengths(SubSeq(lengths, 1, 1 - 1))
    BY <1>1, <2>3 DEF PackedStrides, StridesFromLengths
  <2> QED BY <1>1, <2>1, <2>2, <2>3, <2>4 DEF Contiguous
<1>2. CASE ColMajor = FALSE
  <2>1. Len(lengths) \in 1..Len(lengths) /\ DOMAIN lengths = 1..Len(lengths)
    OBVIOUS
  <2> QED BY <1>2, <2>1, RowMajorStrides DEF Contiguous, PackedStrides
<1> QED BY <1>1, <1>2, ConstantsAssumption

LEMMA PackedFits ==
  ASSUME NEW c, WellFormed(c)
  PROVE  /\ IndexVector(c.a.lengths) = c.a.lengths
         /\ IndexVector(PackedStrides(c.a.lengths)) = PackedStrides(c.a.lengths)
         /\ IndexVector(PackedStrides(c.b.lengths)) = PackedStrides(c.b.lengths)
<1>1. c.a.lengths \in Seq(Nat) /\ c.b.lengths \in Seq(Nat) /\ ColMajor \in BOOLEAN
  BY ConstantsAssumption DEF WellFormed
<1>2. PackedStrides(c.a.lengths) \in Seq(Nat) /\ PackedStrides(c.b.lengths) \in Seq(Nat)
  BY <1>1, PackedTyped DEF PackedStrides
<1>3. /\ FitsIndex(c.a.lengths) /\ FitsIndex(PackedStrides(c.a.lengths))
      /\ FitsIndex(PackedStrides(c.b.lengths))
  BY DEF WellFormed
<1> QED BY <1>1, <1>2, <1>3, IndexFits

LEMMA MaxOfOne ==
  ASSUME NEW n \in Int
  PROVE  Max({n}) = n
BY DEF Max

\* The tiling that reads and writes one element at a time takes every problem:
\* each tensor has a contiguous mode, B's wherever it is among those of A.
LEMMA NarrowestSupported ==
  ASSUME NEW c, WellFormed(c), Serves(c), NEW uninitialised
  PROVE  IsSupported(1, Arguments(c, uninitialised))
<1> DEFINE A == c.modesA
           B == c.modesB
           lengths == c.a.lengths
           bStrides == BStridesCk(c, uninitialised)
           one == Contiguous(Len(lengths))
<1>1. /\ lengths \in Seq(Nat) /\ c.b.lengths \in Seq(Nat) /\ A \in Seq(Int) /\ B \in Seq(Int)
      /\ Len(A) = Len(lengths) /\ Len(B) = Len(lengths) /\ Len(c.b.lengths) = Len(lengths)
  <2>1. c.a.lengths \in Seq(Nat) /\ c.b.lengths \in Seq(Nat)
    BY DEF WellFormed
  <2>2. c.modesA \in Seq(Int) /\ c.modesB \in Seq(Int)
    BY DEF WellFormed
  <2>3. /\ Len(c.modesA) = Len(c.a.lengths) /\ Len(c.modesB) = Len(c.a.lengths)
        /\ Len(c.b.lengths) = Len(c.a.lengths)
    BY DEF WellFormed
  <2> QED BY <2>1, <2>2, <2>3
<1>2. /\ one \in DOMAIN lengths /\ DOMAIN A = DOMAIN lengths /\ DOMAIN B = DOMAIN lengths
      /\ lengths # <<>> /\ c.b.lengths # <<>>
  <2>1. Len(lengths) \in 2..6
    BY DEF Serves
  <2>2. lengths # <<>> /\ c.b.lengths # <<>>
    <3>1. Len(c.b.lengths) = Len(lengths)
      BY <1>1
    <3>2. Len(lengths) # 0 /\ Len(c.b.lengths) # 0
      BY <2>1, <3>1
    <3> QED BY <3>2
  <2>3. one \in DOMAIN lengths
    BY <1>1, <2>2, ContiguousStride
  <2>4. DOMAIN A = DOMAIN lengths /\ DOMAIN B = DOMAIN lengths
    BY <1>1
  <2> QED BY <2>2, <2>3, <2>4
<1>3. PackedStrides(lengths)[one] = 1 /\ one \in DOMAIN PackedStrides(lengths)
  BY <1>1, <1>2, ContiguousStride DEF PackedStrides, StridesFromLengths
<1>4. \A i \in DOMAIN lengths: lengths[i] % 1 = 0
  <2>1. \A n \in Nat: n % 1 = 0
    OBVIOUS
  <2>2. \A i \in DOMAIN lengths: lengths[i] \in Nat
    BY <1>1
  <2> QED BY <2>1, <2>2
<1>5. \E j \in DOMAIN bStrides: bStrides[j] = 1 /\ j \in DOMAIN lengths
  <2>1. PICK j \in DOMAIN A: Char(B[one]) = Char(A[j])
    BY <1>2 DEF WellFormed
  <2> DEFINE toIndex(mode) == LET same == {h \in DOMAIN A: Char(A[h]) = Char(mode)}
                              IN IF same = {} THEN 1 ELSE Max(same)
             from == {i \in DOMAIN A: toIndex(B[i]) = j}
  <2>2. ASSUME NEW i \in DOMAIN B, NEW h \in DOMAIN A, Char(B[i]) = Char(A[h])
        PROVE  toIndex(B[i]) = h
    <3>1. {g \in DOMAIN A: Char(A[g]) = Char(B[i])} = {h}
      <4>1. \A g \in DOMAIN A: Char(A[g]) = Char(A[h]) => g = h
        BY DEF WellFormed
      <4> HIDE DEF A, B
      <4> QED BY <2>2, <4>1
    <3>2. h \in Int
      BY <1>1
    <3> QED BY <3>1, <3>2, MaxOfOne
  <2>3. from = {one}
    <3>1. toIndex(B[one]) = j
      BY <1>2, <2>1, <2>2
    <3>2. ASSUME NEW i \in DOMAIN A, toIndex(B[i]) = j PROVE i = one
      <4>1. PICK h \in DOMAIN A: Char(B[i]) = Char(A[h])
        BY <1>2, <3>2 DEF WellFormed
      <4>2. h = j
        BY <1>2, <2>2, <3>2, <4>1
      <4> QED BY <1>2, <2>1, <4>1, <4>2 DEF WellFormed
    <3> HIDE DEF toIndex
    <3> QED BY <1>2, <3>1, <3>2
  <2>4. bStrides[j] = PackedStrides(c.b.lengths)[one]
    <3>1. bStrides = [h \in DOMAIN A |-> LET f == {i \in DOMAIN A: toIndex(B[i]) = h}
                        IN IF f = {} THEN uninitialised
                           ELSE PackedStrides(c.b.lengths)[Max(f)]]
      BY PackedFits DEF BStridesCk
    <3> HIDE DEF toIndex, bStrides
    <3>2. bStrides[j] = IF from = {} THEN uninitialised
                        ELSE PackedStrides(c.b.lengths)[Max(from)]
      BY <2>1, <3>1
    <3> HIDE DEF from
    <3>3. one \in Int
      BY <1>1, <1>2
    <3> HIDE DEF one
    <3>4. Max({one}) = one /\ {one} # {}
      BY <3>3, MaxOfOne
    <3> QED BY <2>3, <3>2, <3>4
  <2>5. PackedStrides(c.b.lengths)[one] = 1
    BY <1>1, <1>2, ContiguousStride
  <2>6. j \in DOMAIN bStrides
    BY DEF BStridesCk
  <2> QED BY <1>2, <2>4, <2>5, <2>6
<1> QED
  BY <1>2, <1>3, <1>4, <1>5, PackedFits DEF IsSupported, Arguments
-----------------------------------------------------------------------------
\* The search holds solutions that fit the problem, with the narrowest among
\* them until it stops.
SearchInv ==
  \A t \in Threads: caller[t].left # {} =>
    /\ ~caller[t].call.null /\ Serves(caller[t].call)
    /\ \A k \in caller[t].left: Fits(k, caller[t].call)
    /\ caller[t].kernel = None => \E k \in caller[t].left: k.width = 1

ReplyInv ==
  \A t \in Threads: replies[t] # None =>
    (replies[t].status = "SUCCESS" <=> ~replies[t].call.null /\ Serves(replies[t].call))

ServeInv == SearchInv /\ ReplyInv

LEMMA ReturnServes ==
  ASSUME TypeInv, ServeInv, NEW t \in Threads, NEW status, Return(t, status),
         status = "SUCCESS" <=> ~caller[t].call.null /\ Serves(caller[t].call)
  PROVE  ServeInv'
<1>1. /\ caller'[t].left = {} /\ \A u \in Threads \ {t}: caller'[u] = caller[u]
      /\ replies'[t] = [call |-> caller[t].call, status |-> status]
      /\ \A u \in Threads \ {t}: replies'[u] = replies[u]
  BY DEF Return, TypeInv, Idle
<1>2. SearchInv'
  BY <1>1 DEF ServeInv, SearchInv
<1>3. ReplyInv'
  BY <1>1 DEF ServeInv, ReplyInv
<1> QED BY <1>2, <1>3 DEF ServeInv

LEMMA ServeStep ==
  ASSUME \A c \in Calls: WellFormed(c),
         TypeInv, OwnArguments, ServeInv, [Next]_vars
  PROVE  ServeInv'
<1>1. ASSUME NEW t \in Threads, Call(t) PROVE ServeInv'
  <2>1. /\ caller'[t].left = {} /\ \A u \in Threads \ {t}: caller'[u] = caller[u]
        /\ replies' = replies
    BY <1>1 DEF Call, TypeInv
  <2> QED BY <2>1 DEF ServeInv, SearchInv, ReplyInv
<1>2. ASSUME NEW t \in Threads, Refuse(t) PROVE ServeInv'
  <2> DEFINE c == caller[t].call
  <2>1. c \in Calls /\ Refusal(c) # "none" /\ Return(t, Refusal(c))
    BY <1>2 DEF Refuse, Fresh, TypeInv, TypeOK
  <2>2. Refusal(c) # "SUCCESS"
    BY DEF Refusal
  <2>3. ~(~c.null /\ Serves(c))
    BY <2>1, RefusalServes
  <2> QED BY <2>1, <2>2, <2>3, ReturnServes
<1>3. ASSUME NEW t \in Threads, Search(t) PROVE ServeInv'
  <2> DEFINE c == caller[t].call
             left == Candidates(Solutions, c)
  <2>1. c \in Calls /\ Refusal(c) = "none" /\ caller' = [caller EXCEPT ![t].left = left]
    BY <1>3 DEF Search, Fresh, TypeInv, TypeOK
  <2>2. ~c.null /\ Serves(c)
    BY <2>1, RefusalServes
  <2>3. left = {k \in Solutions: Fits(k, c)}
    BY <2>1, CandidatesFit
  <2>4. \E k \in left: k.width = 1
    BY <2>1, <2>2, <2>3, NarrowestFits
  <2>5. left \in SUBSET Solutions /\ \A k \in left: Fits(k, c)
    BY <2>3
  <2> HIDE DEF left
  <2>6. /\ caller'[t].left = left /\ caller'[t].call = c
        /\ \A u \in Threads \ {t}: caller'[u] = caller[u]
    BY <2>1, <2>5, CallerLeft DEF TypeInv
  <2>7. SearchInv'
    BY <2>2, <2>4, <2>5, <2>6 DEF ServeInv, SearchInv
  <2>8. ReplyInv'
    BY <1>3 DEF Search, ServeInv, ReplyInv
  <2> QED BY <2>7, <2>8 DEF ServeInv
<1>4. ASSUME NEW t \in Threads, TryCandidate(t) PROVE ServeInv'
  <2> DEFINE c == caller[t].call
  <2>1. PICK k \in caller[t].left, uninitialised \in {0, 1}:
          /\ args' = Replace(k, InitArgs(k, c, uninitialised))
          /\ IF args'[k].valid
             THEN caller' = [caller EXCEPT ![t].kernel = k] /\ replies' = replies
             ELSE IF caller[t].left # {k}
             THEN caller' = [caller EXCEPT ![t].left = @ \ {k}] /\ replies' = replies
             ELSE Return(t, "INTERNAL_ERROR")
          /\ caller[t].kernel = None
    BY <1>4 DEF TryCandidate
  <2>2. /\ k \in Solutions /\ caller[t].left \in SUBSET Solutions /\ c \in Calls
        /\ ~c.null /\ Serves(c) /\ \A s \in caller[t].left: Fits(s, c)
    BY <2>1 DEF TypeInv, TypeOK, CallerType, Idle, ServeInv, SearchInv
  <2>3. args'[k].valid = IsSupported(k.width, Arguments(c, uninitialised))
    <3> DEFINE arguments == InitArgs(k, c, uninitialised)
    <3>1. /\ arguments.valid = IsSupported(k.width, Arguments(c, uninitialised))
          /\ args' = Replace(k, arguments)
      BY <2>1, InitArgsFields
    <3> HIDE DEF arguments
    <3>2. Replace(k, arguments)[k] = arguments
      BY DEF Replace
    <3> QED BY <3>1, <3>2
  <2>4. CASE args'[k].valid
    <3>1. /\ caller'[t].left = caller[t].left /\ caller'[t].call = c /\ caller'[t].kernel = k
          /\ \A u \in Threads \ {t}: caller'[u] = caller[u]
          /\ replies' = replies
      BY <2>1, <2>2, <2>4, CallerKernel DEF TypeInv
    <3>2. k # None
      BY <2>2, SolutionsAssumption
    <3> QED BY <2>2, <3>1, <3>2 DEF ServeInv, SearchInv, ReplyInv
  <2>5. CASE ~args'[k].valid
    <3>1. PICK narrowest \in caller[t].left: narrowest.width = 1
      BY <2>1 DEF ServeInv, SearchInv
    <3>2. IsSupported(1, Arguments(c, uninitialised))
      BY <2>2, NarrowestSupported
    <3>3. narrowest # k
      BY <2>3, <2>5, <3>1, <3>2
    <3> DEFINE left == caller[t].left \ {k}
    <3>4. /\ caller' = [caller EXCEPT ![t].left = left] /\ replies' = replies
          /\ left \in SUBSET Solutions /\ narrowest \in left
      BY <2>1, <2>2, <2>5, <3>1, <3>3
    <3>5. \A s \in left: Fits(s, c)
      BY <2>2
    <3> HIDE DEF left
    <3>6. /\ caller'[t].left = left /\ caller'[t].call = c
          /\ \A u \in Threads \ {t}: caller'[u] = caller[u]
      BY <3>4, CallerLeft DEF TypeInv
    <3> QED BY <2>2, <3>1, <3>4, <3>5, <3>6 DEF ServeInv, SearchInv, ReplyInv
  <2> QED BY <2>4, <2>5
<1>5. ASSUME NEW t \in Threads, Run(t) PROVE ServeInv'
  <2>1. caller[t].kernel # None /\ caller[t].left # {}
    BY <1>5 DEF Run, TypeInv, TypeOK
  <2>2. Return(t, "SUCCESS")
    BY <1>5, <2>1 DEF Run, OwnArguments
  <2>3. ~caller[t].call.null /\ Serves(caller[t].call)
    BY <2>1 DEF ServeInv, SearchInv
  <2> QED BY <2>2, <2>3, ReturnServes
<1>6. CASE UNCHANGED vars
  BY <1>6 DEF vars, ServeInv, SearchInv, ReplyInv
<1> QED BY <1>1, <1>2, <1>3, <1>4, <1>5, <1>6 DEF Next, Terminated

LEMMA ServeHold ==
  ASSUME Serialised, \A c \in Calls: WellFormed(c)
  PROVE  Spec => []ServeInv
<1>1. Init => ServeInv
  BY DEF Init, Idle, ServeInv, SearchInv, ReplyInv
<1>2. PermutationInv /\ ServeInv /\ [Next]_vars => ServeInv'
  BY ServeStep DEF PermutationInv
<1> QED BY <1>1, <1>2, PermutationHold, PTL DEF Spec

\* For lengths of every size and every order of the modes, a well-formed problem
\* of 2 to 6 modes and a supported type succeeds, for every combination of
\* operators: its solutions are registered, the query finds them whatever they
\* ran before, and the search reaches one that takes the lengths.  Every other
\* problem is refused.
THEOREM PermutationServed ==
  ASSUME Serialised, \A c \in Calls: WellFormed(c)
  PROVE  Spec => []EveryProblemServed
<1>1. ServeInv => EveryProblemServed
  BY DEF ServeInv, ReplyInv, Serves, EveryProblemServed
<1> QED BY <1>1, ServeHold, PTL
-----------------------------------------------------------------------------
\* The mode of A that has the name of B's i-th mode.
PositionInA(c, i) == CHOOSE j \in DOMAIN c.modesA: c.modesA[j] = c.modesB[i]

\* The modes of A and B are matched one to one.
Matched(c, from) ==
  \A n \in 1..Len(c.modesA):
    /\ PositionInA(c, n) \in 1..Len(c.modesA) /\ c.modesA[PositionInA(c, n)] = c.modesB[n]
    /\ from[n] \in 1..Len(c.modesA)
    /\ from[PositionInA(c, n)] = n /\ PositionInA(c, from[n]) = n

LEMMA ModesMatched ==
  ASSUME NEW c, WellFormed(c), SameModes(c)
  PROVE  \E from: Matched(c, from)
<1> DEFINE L == Len(c.modesA)
           to == [n \in 1..L |-> PositionInA(c, n)]
<1>1. DOMAIN c.modesA = 1..L /\ DOMAIN c.modesB = 1..L /\ L \in Nat
  <2>1. c.modesA \in Seq(Int) /\ c.modesB \in Seq(Int) /\ Len(c.modesB) = Len(c.modesA)
    BY DEF WellFormed
  <2> QED BY <2>1
<1>2. \A n \in 1..L: PositionInA(c, n) \in 1..L /\ c.modesA[PositionInA(c, n)] = c.modesB[n]
  BY <1>1 DEF SameModes, PositionInA
<1>3. ASSUME NEW m \in 1..L, NEW n \in 1..L, to[m] = to[n] PROVE m = n
  <2>1. c.modesB[m] = c.modesB[n]
    BY <1>2, <1>3
  <2> QED BY <1>1, <2>1 DEF WellFormed
<1>4. to \in Injection(1..L, 1..L)
  <2>1. to \in [1..L -> 1..L]
    BY <1>2
  <2> HIDE DEF to
  <2> QED BY <1>3, <2>1 DEF Injection, IsInjective
<1>5. to \in Surjection(1..L, 1..L)
  <2> HIDE DEF to
  <2>1. IsFiniteSet(1..L)
    BY FS_Interval
  <2> QED BY <1>4, <2>1, FS_Injection
<1>6. \A j \in 1..L: \E n \in 1..L: to[n] = j
  <2> HIDE DEF to
  <2> QED BY <1>5 DEF Surjection
<1> DEFINE from == [j \in 1..L |-> CHOOSE n \in 1..L: to[n] = j]
<1>7. \A j \in 1..L: from[j] \in 1..L /\ to[from[j]] = j
  <2> HIDE DEF to
  <2> QED BY <1>6
<1>8. \A n \in 1..L: to[n] = PositionInA(c, n) /\ to[n] \in 1..L
  BY <1>2
<1> HIDE DEF to, from
<1>9. \A n \in 1..L: from[to[n]] = n
  BY <1>3, <1>7, <1>8
<1>10. Matched(c, from)
  BY <1>2, <1>7, <1>8, <1>9 DEF Matched
<1> QED BY <1>10

\* The stride that Composable Kernel is given for a mode of A is the one of B's
\* mode of that name.
LEMMA StrideOfMode ==
  ASSUME NEW c, WellFormed(c), SameModes(c), NEW i \in DOMAIN c.modesB, NEW uninitialised
  PROVE  BStridesCk(c, uninitialised)[PositionInA(c, i)] = PackedStrides(c.b.lengths)[i]
<1> DEFINE A == c.modesA
           B == c.modesB
           L == Len(A)
           stride == PackedStrides(c.b.lengths)
           toIndex(mode) == LET same == {h \in DOMAIN A: Char(A[h]) = Char(mode)}
                            IN IF same = {} THEN 1 ELSE Max(same)
           j == PositionInA(c, i)
           from == {h \in DOMAIN A: toIndex(B[h]) = j}
<1>1. DOMAIN A = 1..L /\ DOMAIN B = 1..L /\ L \in Nat
  <2>1. A \in Seq(Int) /\ B \in Seq(Int) /\ Len(B) = Len(A)
    BY DEF WellFormed
  <2> QED BY <2>1
<1>2. PICK inverse: \A n \in 1..L: /\ PositionInA(c, n) \in 1..L /\ A[PositionInA(c, n)] = B[n]
                                   /\ inverse[PositionInA(c, n)] = n
  BY ModesMatched DEF Matched
<1>3. ASSUME NEW h \in 1..L PROVE toIndex(B[h]) = PositionInA(c, h)
  <2> DEFINE p == PositionInA(c, h)
  <2>1. p \in 1..L /\ A[p] = B[h]
    BY <1>2
  <2> HIDE DEF p
  <2>2. {g \in DOMAIN A: Char(A[g]) = Char(B[h])} = {p}
    <3>1. \A g \in DOMAIN A: Char(A[g]) = Char(A[p]) => g = p
      BY <1>1, <2>1 DEF WellFormed
    <3> HIDE DEF A, B
    <3> QED BY <1>1, <2>1, <3>1
  <2>3. p \in Int
    BY <2>1
  <2> QED BY <2>2, <2>3, MaxOfOne DEF p
<1>4. from = {i}
  <2>1. \A h \in 1..L: toIndex(B[h]) = j => h = i
    BY <1>1, <1>2, <1>3
  <2>2. toIndex(B[i]) = j
    BY <1>1, <1>3
  <2> HIDE DEF toIndex, j
  <2> QED BY <1>1, <2>1, <2>2
<1>5. BStridesCk(c, uninitialised)[j] = IF from = {} THEN uninitialised ELSE stride[Max(from)]
  <2>1. BStridesCk(c, uninitialised)
          = [h \in DOMAIN A |-> LET f == {g \in DOMAIN A: toIndex(B[g]) = h}
                                IN IF f = {} THEN uninitialised ELSE stride[Max(f)]]
    BY PackedFits DEF BStridesCk
  <2>2. j \in DOMAIN A
    BY <1>1, <1>2
  <2> HIDE DEF toIndex, stride, j
  <2> QED BY <2>1, <2>2
<1>6. Max({i}) = i /\ {i} # {}
  BY <1>1, MaxOfOne
<1> HIDE DEF from, stride, j
<1> QED BY <1>4, <1>5, <1>6 DEF stride, j

\* The strides of a packed tensor are naturals.
LEMMA StridesTyped ==
  ASSUME NEW lengths \in Seq(Nat)
  PROVE  /\ Len(PackedStrides(lengths)) = Len(lengths)
         /\ \A i \in 1..Len(lengths): PackedStrides(lengths)[i] \in Nat
<1>1. PackedStrides(lengths) \in Seq(Nat) /\ Len(PackedStrides(lengths)) = Len(lengths)
  BY ConstantsAssumption, PackedTyped DEF PackedStrides
<1> QED BY <1>1

\* An offset in B is a sum over A's modes or over B's, the same either way.
LEMMA OffsetsAgree ==
  ASSUME NEW c, WellFormed(c), SameModes(c), NEW x \in Coordinates(c.a.lengths), NEW uninitialised
  PROVE  OffsetOf(x, BStridesCk(c, uninitialised))
           = OffsetOf(InB(c, x), PackedStrides(c.b.lengths))
<1> DEFINE L == Len(c.modesA)
           to == [n \in 1..L |-> PositionInA(c, n)]
           inA == BStridesCk(c, uninitialised)
           inB == PackedStrides(c.b.lengths)
           y == InB(c, x)
           g == [n \in 1..L |-> x[n] * inA[n]]
           h == [n \in 1..L |-> y[n] * inB[n]]
<1>1. /\ L \in Nat /\ DOMAIN c.modesA = 1..L /\ DOMAIN c.modesB = 1..L
      /\ c.a.lengths \in Seq(Nat) /\ c.b.lengths \in Seq(Nat)
      /\ Len(c.a.lengths) = L /\ Len(c.b.lengths) = L
  <2>1. /\ c.modesA \in Seq(Int) /\ c.modesB \in Seq(Int) /\ Len(c.modesB) = Len(c.modesA)
        /\ c.a.lengths \in Seq(Nat) /\ c.b.lengths \in Seq(Nat)
        /\ Len(c.a.lengths) = Len(c.modesA) /\ Len(c.b.lengths) = Len(c.modesA)
    BY DEF WellFormed
  <2> QED BY <2>1
<1>2. PICK from: \A n \in 1..L:
        /\ PositionInA(c, n) \in 1..L /\ from[n] \in 1..L
        /\ from[PositionInA(c, n)] = n /\ PositionInA(c, from[n]) = n
  BY ModesMatched DEF Matched
<1>3. \A n \in 1..L: /\ to[n] = PositionInA(c, n) /\ to[n] \in 1..L /\ from[n] \in 1..L
                     /\ from[to[n]] = n /\ to[from[n]] = n
  BY <1>2
<1>4. \A n \in 1..L: inA[to[n]] = inB[n]
  <2>1. ASSUME NEW n \in 1..L PROVE inA[PositionInA(c, n)] = inB[n]
    BY <1>1, StrideOfMode
  <2> HIDE DEF inA, inB, to
  <2> QED BY <1>3, <2>1
<1>5. \A n \in 1..L: y[n] = x[to[n]]
  BY <1>1, <1>3 DEF InB, PositionInA
<1>6. x \in Seq(Nat) /\ Len(x) = L
  BY <1>1, CoordinatesTyped
<1>7. Len(inB) = L /\ \A n \in 1..L: inB[n] \in Nat
  BY <1>1, StridesTyped
<1>8. Len(inA) = L
  BY <1>1 DEF BStridesCk
<1> HIDE DEF L, to, inA, inB, y
<1>9. \A n \in 1..L: x[n] \in Nat /\ inA[n] \in Nat /\ y[n] \in Nat
  <2>1. \A n \in 1..L: x[n] \in Nat
    BY <1>6
  <2>2. \A n \in 1..L: inA[n] = inB[from[n]]
    BY <1>3, <1>4
  <2>3. \A n \in 1..L: inB[from[n]] \in Nat /\ x[to[n]] \in Nat
    BY <1>3, <1>7, <2>1
  <2> QED BY <1>5, <2>1, <2>2, <2>3
<1>10. Terms(g, L) /\ Terms(h, L)
  <2>1. \A p, q \in Nat: p * q \in Int
    OBVIOUS
  <2> QED BY <1>7, <1>9, <2>1 DEF Terms
<1>11. \A n \in 1..L: h[n] = g[to[n]]
  <2>1. \A n \in 1..L: h[n] = x[to[n]] * inA[to[n]]
    BY <1>4, <1>5
  <2> QED BY <1>3, <2>1
<1>12. \A n \in 1..L: g[n] = x[n] * inA[n] /\ h[n] = y[n] * inB[n]
  OBVIOUS
<1> HIDE DEF g, h
<1>13. PICK f: SumsUpTo(f, g, L) /\ OffsetOf(x, inA) = f[L]
  BY <1>1, <1>8, <1>10, <1>12, OffsetIsSum
<1>14. PICK e: SumsUpTo(e, h, L) /\ OffsetOf(y, inB) = e[L]
  BY <1>1, <1>7, <1>10, <1>12, OffsetIsSum
<1>15. e[L] = f[L]
  <2>1. Embeds(to, from, g, h, L, L)
    BY <1>3, <1>11 DEF Embeds
  <2> QED BY <1>1, <1>10, <1>13, <1>14, <2>1, SumEmbedded
<1> QED BY <1>13, <1>14, <1>15 DEF inA, inB, y

\* A solution that fits writes what the definition gives: its operators are
\* those of the descriptors, and it puts each element at the offset in B that
\* its modes name.
LEMMA KernelPermutes ==
  ASSUME NEW c, WellFormed(c), SameModes(c), NEW k \in Solutions, Fits(k, c),
         NEW uninitialised \in {0, 1}
  PROVE  KernelWrites(k, Arguments(c, uninitialised)) = PermutedElements(c)
<1> DEFINE Op(name) == IF name = "IDENTITY" THEN "PassThrough" ELSE "UnarySquare"
           d == [opA |-> Op(c.a.unaryOp), opB |-> Op(c.b.unaryOp)]
           aStrides == PackedStrides(c.a.lengths)
           bStrides == PackedStrides(c.b.lengths)
           ckStrides == BStridesCk(c, uninitialised)
           X == Coordinates(c.a.lengths)
           value(x) == ElementOfA(OffsetOf(x, aStrides))
<1>1. KernelWrites(k, Arguments(c, uninitialised)) =
        {<<OffsetOf(x, ckStrides), Combined(k, c.alpha, value(x))>> : x \in X}
  <2> DEFINE p == Arguments(c, uninitialised)
  <2>1. /\ p.lengths = c.a.lengths /\ p.aStrides = aStrides /\ p.bStrides = ckStrides
        /\ p.alpha = c.alpha
    BY PackedFits DEF Arguments
  <2>2. KernelWrites(k, p) =
          {<<OffsetOf(x, p.bStrides), Combined(k, p.alpha, ElementOfA(OffsetOf(x, p.aStrides)))>> :
             x \in Coordinates(p.lengths)}
    BY DEF KernelWrites
  <2> HIDE DEF p, aStrides, ckStrides
  <2>3. KernelWrites(k, p) =
          {<<OffsetOf(x, ckStrides), Combined(k, c.alpha, ElementOfA(OffsetOf(x, aStrides)))>> :
             x \in Coordinates(c.a.lengths)}
    BY <2>1, <2>2
  <2> QED BY <2>3 DEF p
<1>2. PermutedElements(c) =
        {<<OffsetOf(InB(c, x), bStrides), Combined(d, c.alpha, value(x))>> : x \in X}
  BY DEF PermutedElements, DefinedElements
<1>3. k.opA = d.opA /\ k.opB = d.opB
  BY SolutionsRegistered DEF Registered, Fits, OpName
<1>4. \A v: Combined(k, c.alpha, v) = Combined(d, c.alpha, v)
  <2> HIDE DEF d
  <2> QED BY <1>3 DEF Combined
<1>5. \A x \in X: OffsetOf(x, ckStrides) = OffsetOf(InB(c, x), bStrides)
  BY OffsetsAgree
<1> HIDE DEF d, aStrides, bStrides, ckStrides, X, value
<1> QED BY <1>1, <1>2, <1>4, <1>5

\* The arguments a solution holds are those some call made it.
MadeInv ==
  \A k \in DOMAIN args: \E uninitialised \in {0, 1}:
    args[k].problem = Arguments(args[k].problem.call, uninitialised)

LEMMA MadeStep == TypeInv /\ MadeInv /\ [Next]_vars => MadeInv'
<1> SUFFICES ASSUME TypeInv, MadeInv, [Next]_vars PROVE MadeInv'
  OBVIOUS
<1>1. ASSUME NEW t \in Threads, TryCandidate(t) PROVE MadeInv'
  <2>1. PICK k \in caller[t].left, uninitialised \in {0, 1}:
          args' = Replace(k, InitArgs(k, caller[t].call, uninitialised))
    BY <1>1 DEF TryCandidate
  <2> DEFINE c == caller[t].call
             arguments == InitArgs(k, c, uninitialised)
  <2>2. arguments.problem = Arguments(c, uninitialised) /\ arguments.problem.call = c
    BY InitArgsFields
  <2>3. args' = Replace(k, arguments)
    BY <2>1
  <2> HIDE DEF arguments
  <2>4. /\ DOMAIN args' = DOMAIN args \cup {k} /\ args'[k] = arguments
        /\ \A s \in DOMAIN args: s # k => args'[s] = args[s]
    BY <2>3 DEF Replace
  <2>5. ASSUME NEW s \in DOMAIN args'
        PROVE  \E u \in {0, 1}: args'[s].problem = Arguments(args'[s].problem.call, u)
    <3>1. CASE s = k
      BY <2>2, <2>3, <2>4, <3>1
    <3>2. CASE s # k
      BY <2>3, <2>4, <2>5, <3>2 DEF MadeInv
    <3> QED BY <3>1, <3>2
  <2> QED BY <2>5 DEF MadeInv
<1>2. CASE UNCHANGED args
  BY <1>2 DEF MadeInv
<1> QED BY <1>1, <1>2 DEF Next, Call, Refuse, Search, Run, Terminated, vars

\* A program that serialises its calls sees each of them be refused with B as
\* it was, or B become at once the permutation its modes define.
THEOREM PermutationImplementsOperation ==
  ASSUME Serialised, \A c \in Calls: WellFormed(c) /\ SameModes(c)
  PROVE  Spec => ImplementsOperation
<1> DEFINE asked == [t \in Threads |-> caller[t].call]
<1>1. Init => Operation!Init /\ MadeInv
  BY DEF Init, Idle, Operation!Init, MadeInv
<1>2. PermutationInv /\ ServeInv /\ MadeInv /\ [Next]_vars
        => [Operation!Next]_<<asked, output>>
  <2> SUFFICES ASSUME PermutationInv, ServeInv, MadeInv, [Next]_vars
               PROVE  Operation!Next \/ UNCHANGED <<asked, output>>
    OBVIOUS
  <2> USE DEF PermutationInv, TypeInv
  <2>1. ASSUME NEW t \in Threads, NEW status, Return(t, status), caller[t].call # None
        PROVE  asked' = [asked EXCEPT ![t] = None]
    BY <2>1 DEF Return, Idle
  <2>2. ASSUME NEW t \in Threads, Call(t) PROVE Operation!Next
    <3>1. Head(program[t]) \in Calls
      BY <2>2, HeadTailProperties DEF Call
    <3>2. caller[t].call = None /\ asked' = [asked EXCEPT ![t] = Head(program[t])] /\ output' = output
      BY <2>2 DEF Call
    <3>3. Operation!Ask(t)
      BY <3>1, <3>2 DEF Operation!Ask
    <3> QED BY <3>3 DEF Operation!Next
  <2>3. ASSUME NEW t \in Threads, Refuse(t) PROVE Operation!Next
    <3>1. Operation!Refuse(t)
      BY <2>1, <2>3 DEF Refuse, Fresh, Operation!Refuse
    <3> QED BY <3>1 DEF Operation!Next
  <2>4. ASSUME NEW t \in Threads, Search(t) PROVE UNCHANGED <<asked, output>>
    BY <2>4 DEF Search, CallerType
  <2>5. ASSUME NEW t \in Threads, TryCandidate(t)
        PROVE  Operation!Next \/ UNCHANGED <<asked, output>>
    <3>1. PICK k \in caller[t].left:
            /\ output' = output
            /\ \/ caller' = [caller EXCEPT ![t].kernel = k]
               \/ caller' = [caller EXCEPT ![t].left = @ \ {k}]
               \/ Return(t, "INTERNAL_ERROR")
      BY <2>5 DEF TryCandidate
    <3>2. k \in Solutions /\ caller[t].left \in SUBSET Solutions /\ caller[t].call # None
      BY <3>1 DEF TypeOK, CallerType, Idle
    <3>3. CASE Return(t, "INTERNAL_ERROR")
      <4>1. Operation!Refuse(t)
        BY <2>1, <3>1, <3>2, <3>3 DEF Operation!Refuse
      <4> QED BY <4>1 DEF Operation!Next
    <3>4. CASE caller' = [caller EXCEPT ![t].kernel = k]
      <4>1. caller'[t].call = caller[t].call /\ \A u \in Threads \ {t}: caller'[u] = caller[u]
        BY <3>2, <3>4, CallerKernel
      <4> QED BY <3>1, <4>1
    <3>5. CASE caller' = [caller EXCEPT ![t].left = @ \ {k}]
      <4> DEFINE left == caller[t].left \ {k}
      <4>1. left \in SUBSET Solutions /\ caller' = [caller EXCEPT ![t].left = left]
        BY <3>2, <3>5
      <4> HIDE DEF left
      <4>2. caller'[t].call = caller[t].call /\ \A u \in Threads \ {t}: caller'[u] = caller[u]
        BY <4>1, CallerLeft
      <4> QED BY <3>1, <4>2
    <3> QED BY <3>1, <3>3, <3>4, <3>5
  <2>6. ASSUME NEW t \in Threads, Run(t) PROVE Operation!Next
    <3> DEFINE c == caller[t].call
               k == caller[t].kernel
    <3>1. k # None /\ k \in caller[t].left /\ k \in DOMAIN args /\ k \in Solutions /\ c \in Calls
      BY <2>6 DEF Run, TypeOK, Idle
    <3>2. args[k].valid /\ args[k].problem.call = c
      BY <3>1 DEF OwnArguments
    <3>3. output' = KernelWrites(k, args[k].problem) /\ Return(t, "SUCCESS")
      BY <2>6, <3>2 DEF Run
    <3>4. PICK uninitialised \in {0, 1}: args[k].problem = Arguments(c, uninitialised)
      BY <3>1, <3>2 DEF MadeInv
    <3>5. Fits(k, c)
      BY <3>1 DEF ServeInv, SearchInv
    <3>6. output' = PermutedElements(c)
      BY <3>1, <3>3, <3>4, <3>5, KernelPermutes
    <3>7. c # None
      BY <3>1, ConstantsAssumption
    <3>8. Operation!Perform(t)
      BY <2>1, <3>3, <3>6, <3>7 DEF Operation!Perform
    <3> QED BY <3>8 DEF Operation!Next
  <2>7. CASE UNCHANGED vars
    BY <2>7 DEF vars
  <2> QED BY <2>2, <2>3, <2>4, <2>5, <2>6, <2>7 DEF Next, Terminated
<1>3. PermutationInv /\ MadeInv /\ [Next]_vars => MadeInv'
  BY MadeStep DEF PermutationInv
<1>4. Spec => []PermutationInv /\ []ServeInv
  BY PermutationHold, ServeHold
<1> QED
  BY <1>1, <1>2, <1>3, <1>4, PTL
  DEF Spec, ImplementsOperation, Operation!Spec
-----------------------------------------------------------------------------
\* The odometer of the CPU reference.

LEMMA MaxOfRange ==
  ASSUME NEW n \in Nat, NEW S \in SUBSET (1..n), S # {}
  PROVE  Max(S) \in S /\ \A i \in S: i <= Max(S)
<1> DEFINE T == {n - i : i \in S}
<1>1. T \in SUBSET Nat /\ T # {}
  <2>1. \A i \in S: n - i \in Nat
    OBVIOUS
  <2> QED BY <2>1
<1>2. PICK x \in T: \A y \in T: x <= y
  BY <1>1, LeastNatural
<1>3. PICK i \in S: x = n - i
  BY <1>2
<1>4. \A j \in S: n - j \in T
  OBVIOUS
<1> HIDE DEF T
<1>5. \A j \in S: j <= i
  BY <1>2, <1>3, <1>4
<1> QED BY <1>3, <1>5 DEF Max

LEMMA AppendElements ==
  ASSUME NEW s \in Seq(Nat), NEW v \in Nat
  PROVE  Append(s, v) = [i \in 1..Len(s) + 1 |-> IF i = Len(s) + 1 THEN v ELSE s[i]]
<1> DEFINE t == Append(s, v)
<1>1. t \in Seq(Nat) /\ Len(t) = Len(s) + 1
  OBVIOUS
<1>2. \A i \in 1..Len(s) + 1: t[i] = IF i = Len(s) + 1 THEN v ELSE s[i]
  OBVIOUS
<1> HIDE DEF t
<1>3. t = [i \in 1..Len(s) + 1 |-> t[i]]
  BY <1>1
<1> QED BY <1>2, <1>3 DEF t

Growing(x, lengths) == {i \in DOMAIN x: x[i] < lengths[i] - 1}

\* The last coordinate grows while it can; then the ones before it go on and it
\* restarts.
LEMMA NextIndexAppend ==
  ASSUME NEW lengths \in Seq(Nat), NEW y \in Seq(Nat), Len(y) + 1 <= Len(lengths),
         NEW a \in Nat, a < lengths[Len(y) + 1]
  PROVE  /\ a + 1 < lengths[Len(y) + 1]
              => NextIndex(Append(y, a), lengths) = Append(y, a + 1)
         /\ a + 1 = lengths[Len(y) + 1]
              => NextIndex(Append(y, a), lengths) = Append(NextIndex(y, lengths), 0)
         /\ NextIndex(y, lengths) \in Seq(Nat) /\ Len(NextIndex(y, lengths)) = Len(y)
<1> DEFINE n == Len(y)
           z == Append(y, a)
           l == lengths[n + 1]
<1>1. /\ n \in Nat /\ l \in Nat /\ DOMAIN y = 1..n /\ DOMAIN z = 1..n + 1
      /\ z[n + 1] = a /\ \A i \in 1..n: z[i] = y[i] /\ y[i] \in Nat
  OBVIOUS
<1>2. Growing(y, lengths) \subseteq 1..n
  BY <1>1 DEF Growing
<1>3. NextIndex(y, lengths) \in Seq(Nat) /\ Len(NextIndex(y, lengths)) = n
  <2>1. NextIndex(y, lengths) = [i \in 1..n |-> NextIndex(y, lengths)[i]]
    BY <1>1 DEF NextIndex
  <2>2. \A i \in 1..n: NextIndex(y, lengths)[i] \in Nat
    BY <1>1 DEF NextIndex
  <2> QED BY <1>1, <2>1, <2>2
<1>4. ASSUME a + 1 < l PROVE NextIndex(z, lengths) = Append(y, a + 1)
  <2> DEFINE G == Growing(z, lengths)
  <2>1. n + 1 \in G /\ G \in SUBSET (1..n + 1) /\ n + 1 \in Nat
    BY <1>1, <1>4 DEF Growing
  <2> HIDE DEF G
  <2>2. Max(G) = n + 1 /\ G # {}
    <3>1. G # {} /\ n + 1 \in Nat
      BY <2>1
    <3>2. Max(G) \in G /\ \A i \in G: i <= Max(G)
      BY <2>1, <3>1, MaxOfRange
    <3>3. Max(G) \in 1..n + 1 /\ n + 1 <= Max(G)
      BY <2>1, <3>2
    <3> HIDE DEF n
    <3> QED BY <3>1, <3>3
  <2>3. NextIndex(z, lengths)
          = [i \in DOMAIN z |-> IF G = {} \/ i > Max(G) THEN 0
                                ELSE IF i = Max(G) THEN z[i] + 1 ELSE z[i]]
    BY DEF NextIndex, G, Growing
  <2>4. Append(y, a + 1) = [i \in 1..n + 1 |-> IF i = n + 1 THEN a + 1 ELSE y[i]]
    BY AppendElements
  <2> HIDE DEF z, n
  <2>5. \A i \in 1..n + 1: (IF G = {} \/ i > Max(G) THEN 0 ELSE IF i = Max(G) THEN z[i] + 1 ELSE z[i])
                             = IF i = n + 1 THEN a + 1 ELSE y[i]
    BY <1>1, <2>2
  <2> QED BY <1>1, <2>3, <2>4, <2>5
<1>5. ASSUME a + 1 = l PROVE NextIndex(z, lengths) = Append(NextIndex(y, lengths), 0)
  <2> DEFINE G == Growing(y, lengths)
             next == NextIndex(y, lengths)
  <2>1. Growing(z, lengths) = G
    BY <1>1, <1>5 DEF Growing
  <2> HIDE DEF G
  <2>2. NextIndex(z, lengths)
          = [i \in DOMAIN z |-> IF G = {} \/ i > Max(G) THEN 0
                                ELSE IF i = Max(G) THEN z[i] + 1 ELSE z[i]]
    BY <2>1 DEF NextIndex, Growing
  <2>3. next = [i \in DOMAIN y |-> IF G = {} \/ i > Max(G) THEN 0
                                   ELSE IF i = Max(G) THEN y[i] + 1 ELSE y[i]]
    BY DEF NextIndex, Growing, G
  <2>4. G # {} => Max(G) \in 1..n
    BY <1>1, <1>2, MaxOfRange DEF G
  <2>5. Append(next, 0) = [i \in 1..n + 1 |-> IF i = n + 1 THEN 0 ELSE next[i]]
    <3>1. next \in Seq(Nat) /\ Len(next) = n
      BY <1>3
    <3> HIDE DEF next, n
    <3> QED BY <3>1, AppendElements
  <2> HIDE DEF z, n, next
  <2>6. \A i \in 1..n + 1: (IF G = {} \/ i > Max(G) THEN 0 ELSE IF i = Max(G) THEN z[i] + 1 ELSE z[i])
                             = IF i = n + 1 THEN 0 ELSE next[i]
    <3>1. \A i \in 1..n: /\ z[i] = y[i]
                         /\ next[i] = IF G = {} \/ i > Max(G) THEN 0
                                      ELSE IF i = Max(G) THEN y[i] + 1 ELSE y[i]
      BY <1>1, <2>3
    <3> HIDE DEF G
    <3> TAKE i \in 1..n + 1
    <3>2. CASE i = n + 1
      BY <1>1, <2>4, <3>2
    <3>3. CASE i # n + 1
      <4>1. i \in 1..n
        BY <1>1, <3>3
      <4> QED BY <3>1, <3>3, <4>1
    <3> QED BY <3>2, <3>3
  <2> QED BY <1>1, <2>2, <2>5, <2>6 DEF next
<1> QED BY <1>3, <1>4, <1>5

LEMMA NextIndexTyped ==
  ASSUME NEW lengths, NEW y \in Seq(Nat)
  PROVE  NextIndex(y, lengths) \in Seq(Nat) /\ Len(NextIndex(y, lengths)) = Len(y)
<1>1. DOMAIN y = 1..Len(y) /\ \A i \in 1..Len(y): y[i] \in Nat
  OBVIOUS
<1>2. NextIndex(y, lengths) = [i \in 1..Len(y) |-> NextIndex(y, lengths)[i]]
  BY <1>1 DEF NextIndex
<1>3. \A i \in 1..Len(y): NextIndex(y, lengths)[i] \in Nat
  BY <1>1 DEF NextIndex
<1> QED BY <1>1, <1>2, <1>3

\* I goes through the odometer's indices over the first n modes, T steps.
Zeros(n) == [i \in 1..n |-> 0]
Odometer(I, n, lengths, T) ==
  I[0] = Zeros(n) /\ \A t \in 1..T: I[t] = NextIndex(I[t - 1], lengths)
Indices(I, n, T) == \A t \in 0..T: I[t] \in Seq(Nat) /\ Len(I[t]) = n

LEMMA OdometerExists ==
  ASSUME NEW lengths \in Seq(Nat), NEW n \in Nat, NEW T \in Nat
  PROVE  \E I: Odometer(I, n, lengths, T) /\ Indices(I, n, T)
<1> DEFINE V == {y \in Seq(Nat): Len(y) = n}
           Step == [p \in Nat \X V |-> NextIndex(p[2], lengths)]
<1>1. StepOver(Step, V)
  <2>1. \A p \in Nat \X V: NextIndex(p[2], lengths) \in V
    BY NextIndexTyped
  <2> HIDE DEF V
  <2> QED BY <2>1 DEF StepOver
<1>2. Zeros(n) \in V
  BY DEF Zeros
<1>3. \A t \in Nat, y \in V: Step[<<t, y>>] = NextIndex(y, lengths)
  OBVIOUS
<1>4. \A y \in V: y \in Seq(Nat) /\ Len(y) = n
  OBVIOUS
<1> HIDE DEF V, Step
<1>5. PICK I: FoldsUpTo(I, T, Zeros(n), Step, V)
  BY <1>1, <1>2, RecursiveFunction
<1>6. I \in [0..T -> V] /\ I[0] = Zeros(n) /\ \A t \in 1..T: I[t] = Step[<<t, I[t - 1]>>]
  BY <1>5 DEF FoldsUpTo
<1>7. \A t \in 1..T: I[t - 1] \in V /\ t \in Nat
  BY <1>6
<1>8. Odometer(I, n, lengths, T)
  BY <1>3, <1>6, <1>7 DEF Odometer
<1>9. \A t \in 0..T: I[t] \in V
  BY <1>6
<1> QED BY <1>4, <1>8, <1>9 DEF Indices

\* I is at each of F indices of J l times, with the coordinates below l added.
Interleaves(I, J, l, F) ==
  \A m \in 0..F - 1, a \in 0..l - 1: I[l * m + a] = Append(J[m], a)

\* With one mode more the odometer goes through all its coordinates at each
\* index of the modes before.
LEMMA OdometerExtended ==
  ASSUME NEW lengths \in Seq(Nat), NEW n \in Nat, n + 1 <= Len(lengths), NEW F \in Nat,
         lengths[n + 1] # 0,
         NEW I, Odometer(I, n + 1, lengths, lengths[n + 1] * F),
         NEW J, Odometer(J, n, lengths, F), Indices(J, n, F)
  PROVE  Interleaves(I, J, lengths[n + 1], F)
<1> DEFINE l == lengths[n + 1]
           at == [i \in Nat |-> l * i]
<1>1. l \in Nat /\ l # 0
  OBVIOUS
<1>2. \A i \in Nat: at[i] = l * i
  OBVIOUS
<1>3. /\ \A i \in Nat: at[i] \in Nat /\ at[i + 1] = at[i] + l
      /\ \A i \in Nat: i < F => at[i] + l <= at[F]
      /\ at[0] = 0
  <2>1. ASSUME NEW i \in Nat
        PROVE  l * i \in Nat /\ l * (i + 1) = l * i + l /\ (i < F => l * i + l <= l * F)
    BY <1>1, Multiples
  <2>2. l * 0 = 0
    BY <1>1
  <2> HIDE DEF l, at
  <2>3. ASSUME NEW i \in Nat
        PROVE  at[i] \in Nat /\ at[i + 1] = at[i] + l /\ (i < F => at[i] + l <= at[F])
    <3>1. i + 1 \in Nat
      OBVIOUS
    <3>2. at[i] = l * i /\ at[i + 1] = l * (i + 1) /\ at[F] = l * F
      BY <1>2, <3>1
    <3> QED BY <2>1, <3>2
  <2>4. at[0] = 0
    BY <1>2, <2>2
  <2> QED BY <2>3, <2>4
<1>4. Odometer(I, n + 1, lengths, at[F])
  OBVIOUS
<1> HIDE DEF l, at
<1>5. ASSUME NEW i \in Nat, i < F, I[at[i]] = Append(J[i], 0)
      PROVE  \A a \in 0..l - 1: I[at[i] + a] = Append(J[i], a)
  <2> DEFINE A == {a \in Nat: a < l => I[at[i] + a] = Append(J[i], a)}
  <2>1. 0 \in A
    <3>1. at[i] \in Nat
      BY <1>3
    <3> HIDE DEF at
    <3>2. at[i] + 0 = at[i]
      BY <3>1
    <3> QED BY <1>5, <3>2
  <2>2. ASSUME NEW a \in Nat, a \in A PROVE a + 1 \in A
    <3> SUFFICES ASSUME a + 1 < l PROVE I[at[i] + (a + 1)] = Append(J[i], a + 1)
      OBVIOUS
    <3> DEFINE t == at[i] + (a + 1)
    <3>1. t \in 1..at[F] /\ t - 1 = at[i] + a
      <4> DEFINE b == at[i]
                 end == at[F]
      <4>1. b \in Nat /\ end \in Nat /\ b + l <= end /\ l \in Nat /\ t = b + (a + 1)
        BY <1>1, <1>3, <1>5
      <4> HIDE DEF b, end, t
      <4>2. t \in 1..end /\ t - 1 = b + a
        BY <4>1
      <4> QED BY <4>2 DEF b, end
    <3>2. I[t] = NextIndex(I[t - 1], lengths)
      BY <1>4, <3>1 DEF Odometer
    <3>3. I[at[i] + a] = Append(J[i], a)
      BY <1>1, <2>2
    <3>4. I[t] = NextIndex(Append(J[i], a), lengths)
      BY <3>1, <3>2, <3>3
    <3>5. J[i] \in Seq(Nat) /\ Len(J[i]) = n
      BY <1>5 DEF Indices
    <3>6. NextIndex(Append(J[i], a), lengths) = Append(J[i], a + 1)
      <4>1. a < lengths[n + 1] /\ a + 1 < lengths[n + 1]
        BY <1>1 DEF l
      <4> QED BY <3>5, <4>1, NextIndexAppend
    <3> QED BY <3>4, <3>6
  <2>3. Nat \subseteq A
    <3> HIDE DEF A
    <3> QED BY <2>1, <2>2, NaturalsIn
  <2> QED BY <1>1, <2>3
<1> DEFINE M == {i \in Nat: i < F => I[at[i]] = Append(J[i], 0)}
<1>6. 0 \in M
  <2>1. Zeros(n + 1) = Append(Zeros(n), 0)
    <3>1. Zeros(n) \in Seq(Nat) /\ Len(Zeros(n)) = n /\ 0 \in Nat
      BY DEF Zeros
    <3>2. Append(Zeros(n), 0)
            = [i \in 1..Len(Zeros(n)) + 1 |-> IF i = Len(Zeros(n)) + 1 THEN 0 ELSE Zeros(n)[i]]
      BY <3>1, AppendElements
    <3>3. \A i \in 1..n + 1: (IF i = n + 1 THEN 0 ELSE Zeros(n)[i]) = 0
      BY DEF Zeros
    <3> QED BY <3>1, <3>2, <3>3 DEF Zeros
  <2> QED BY <1>3, <1>4, <2>1 DEF Odometer
<1>7. ASSUME NEW i \in Nat, i \in M PROVE i + 1 \in M
  <2> SUFFICES ASSUME i + 1 < F PROVE I[at[i + 1]] = Append(J[i + 1], 0)
    OBVIOUS
  <2> DEFINE t == at[i + 1]
  <2>1. i < F /\ i + 1 \in 1..F /\ i + 1 - 1 = i /\ l - 1 \in 0..l - 1 /\ i \in 0..F
    BY <1>1
  <2>2. t = at[i] + l /\ t \in 1..at[F] /\ t - 1 = at[i] + (l - 1)
    <3>1. /\ at[i] \in Nat /\ at[F] \in Nat /\ t = at[i] + l
          /\ at[i] + l <= at[F]
      BY <1>3, <2>1
    <3> QED BY <1>1, <3>1
  <2>3. I[at[i] + (l - 1)] = Append(J[i], l - 1)
    <3>1. I[at[i]] = Append(J[i], 0)
      BY <1>7, <2>1
    <3> QED BY <1>5, <2>1, <3>1
  <2> HIDE DEF t
  <2>4. I[t] = NextIndex(Append(J[i], l - 1), lengths)
    BY <1>4, <2>2, <2>3 DEF Odometer
  <2>5. J[i] \in Seq(Nat) /\ Len(J[i]) = n
    BY <2>1 DEF Indices
  <2>6. NextIndex(Append(J[i], l - 1), lengths) = Append(NextIndex(J[i], lengths), 0)
    <3>1. l - 1 \in Nat /\ l - 1 < lengths[n + 1] /\ l - 1 + 1 = lengths[n + 1]
      BY <1>1 DEF l
    <3> QED BY <2>5, <3>1, NextIndexAppend
  <2>7. J[i + 1] = NextIndex(J[i], lengths)
    <3>1. J[i + 1] = NextIndex(J[i + 1 - 1], lengths)
      BY <2>1 DEF Odometer
    <3> QED BY <2>1, <3>1
  <2> QED BY <2>4, <2>6, <2>7 DEF t
<1>8. Nat \subseteq M
  <2> HIDE DEF M
  <2> QED BY <1>6, <1>7, NaturalsIn
<1>9. ASSUME NEW m \in 0..F - 1, NEW a \in 0..l - 1 PROVE I[at[m] + a] = Append(J[m], a)
  <2>1. m \in Nat /\ m < F
    OBVIOUS
  <2>2. I[at[m]] = Append(J[m], 0)
    BY <1>8, <2>1
  <2> QED BY <1>5, <2>1, <2>2
<1>10. \A m \in 0..F - 1: at[m] = l * m
  BY <1>2
<1> QED BY <1>9, <1>10 DEF l, Interleaves

\* I goes through the elements of X, each of them T steps at most.
GoesThrough(I, X, T) == {I[t] : t \in 0..T - 1} = X

LEMMA OneModeMore ==
  ASSUME NEW lengths \in Seq(Nat), NEW n \in Nat, n + 1 <= Len(lengths), NEW F \in Nat, NEW X,
         \A J: Odometer(J, n, lengths, F) => GoesThrough(J, X, F),
         NEW I, Odometer(I, n + 1, lengths, lengths[n + 1] * F)
  PROVE  GoesThrough(I, Extended(X, lengths[n + 1]), lengths[n + 1] * F)
<1> DEFINE l == lengths[n + 1]
           T == l * F
<1>1. l \in Nat
  OBVIOUS
<1>2. CASE l = 0
  <2>1. T = 0 /\ 0..T - 1 = {} /\ 0..l - 1 = {}
    BY <1>2
  <2> QED BY <2>1 DEF GoesThrough, Extended
<1>3. CASE l # 0
  <2>1. PICK J: Odometer(J, n, lengths, F) /\ Indices(J, n, F)
    BY OdometerExists
  <2>2. GoesThrough(J, X, F)
    BY <2>1
  <2>3. Interleaves(I, J, l, F)
    BY <1>3, <2>1, OdometerExtended
  <2>4. \A m \in Nat: l * m \in Nat /\ T \in Nat /\ (m < F => l * m + l <= T) /\ (l * m < T => m < F)
    BY <1>1, Multiples
  <2> HIDE DEF l, T
  <2>5. ASSUME NEW t \in 0..T - 1 PROVE I[t] \in Extended(X, l)
    <3>1. t \in Nat
      OBVIOUS
    <3>2. PICK m \in Nat, a \in 0..l - 1: t = l * m + a
      BY <1>1, <1>3, <3>1, Division
    <3>3. l * m \in Nat /\ T \in Nat
      BY <2>4
    <3>4. l * m < T
      <4> DEFINE b == l * m
      <4>1. b \in Nat /\ t = b + a
        BY <3>2, <3>3
      <4> HIDE DEF b
      <4>2. b < T
        BY <1>1, <3>3, <4>1
      <4> QED BY <4>2 DEF b
    <3>5. m \in 0..F - 1
      BY <2>4, <3>4
    <3>6. J[m] \in X
      BY <2>2, <3>5 DEF GoesThrough
    <3>7. I[t] = Append(J[m], a)
      <4>1. I[l * m + a] = Append(J[m], a)
        BY <2>3, <3>2, <3>5 DEF Interleaves
      <4> QED BY <3>2, <4>1
    <3> QED BY <3>6, <3>7 DEF Extended
  <2>6. ASSUME NEW x \in X, NEW a \in 0..l - 1 PROVE \E t \in 0..T - 1: I[t] = Append(x, a)
    <3>1. PICK m \in 0..F - 1: x = J[m]
      BY <2>2 DEF GoesThrough
    <3>2. I[l * m + a] = Append(x, a)
      BY <2>3, <3>1 DEF Interleaves
    <3> DEFINE b == l * m
    <3>3. b \in Nat /\ T \in Nat /\ b + l <= T
      <4>1. m \in Nat /\ m < F
        OBVIOUS
      <4> QED BY <2>4, <4>1
    <3>4. I[b + a] = Append(x, a)
      BY <3>2
    <3> HIDE DEF b
    <3>5. b + a \in 0..T - 1
      BY <1>1, <3>3
    <3> QED BY <3>4, <3>5
  <2>7. GoesThrough(I, Extended(X, l), T)
    <3>1. {I[t] : t \in 0..T - 1} \subseteq Extended(X, l)
      BY <2>5
    <3>2. Extended(X, l) \subseteq {I[t] : t \in 0..T - 1}
      <4> SUFFICES ASSUME NEW y \in Extended(X, l) PROVE y \in {I[t] : t \in 0..T - 1}
        OBVIOUS
      <4>1. PICK x \in X, a \in 0..l - 1: y = Append(x, a)
        BY DEF Extended
      <4>2. PICK t \in 0..T - 1: I[t] = Append(x, a)
        BY <2>6
      <4> QED BY <4>1, <4>2
    <3> QED BY <3>1, <3>2 DEF GoesThrough
  <2> QED BY <2>7 DEF l, T
<1> QED BY <1>2, <1>3

\* The odometer goes through every element of a tensor, whatever its rank.
LEMMA OdometerCovers ==
  ASSUME NEW lengths \in Seq(Nat), NEW I,
         Odometer(I, Len(lengths), lengths, ElementsFromLengths(lengths))
  PROVE  GoesThrough(I, Coordinates(lengths), ElementsFromLengths(lengths))
<1> DEFINE L == Len(lengths)
<1>1. PICK f \in [0..L -> Nat]: /\ f[0] = 1
                                /\ \A n \in 1..L: f[n] = lengths[n] * f[n - 1]
                                /\ ElementsFromLengths(lengths) = f[L]
  BY Products
<1>2. PICK up: /\ up[0] = {<<>>}
               /\ \A n \in 1..L: up[n] = Extended(up[n - 1], lengths[n])
               /\ Coordinates(lengths) = up[L]
  BY CoordinatesBuilt
<1> DEFINE Covered == {n \in Nat: n <= L =>
                         \A J: Odometer(J, n, lengths, f[n]) => GoesThrough(J, up[n], f[n])}
<1>3. 0 \in Covered
  <2> SUFFICES ASSUME NEW J, Odometer(J, 0, lengths, f[0]) PROVE GoesThrough(J, up[0], f[0])
    OBVIOUS
  <2>1. J[0] = <<>> /\ 0..f[0] - 1 = {0}
    BY <1>1 DEF Odometer, Zeros
  <2> QED BY <1>2, <2>1 DEF GoesThrough
<1>4. ASSUME NEW n \in Nat, n \in Covered PROVE n + 1 \in Covered
  <2> SUFFICES ASSUME n + 1 <= L, NEW J, Odometer(J, n + 1, lengths, f[n + 1])
               PROVE  GoesThrough(J, up[n + 1], f[n + 1])
    OBVIOUS
  <2>1. n + 1 \in 1..L /\ n + 1 - 1 = n /\ n \in 0..L /\ n <= L
    OBVIOUS
  <2>2. \A K: Odometer(K, n, lengths, f[n]) => GoesThrough(K, up[n], f[n])
    BY <1>4, <2>1
  <2>3. /\ f[n] \in Nat /\ f[n + 1] = lengths[n + 1] * f[n]
        /\ up[n + 1] = Extended(up[n], lengths[n + 1])
    BY <1>1, <1>2, <2>1
  <2>4. GoesThrough(J, Extended(up[n], lengths[n + 1]), lengths[n + 1] * f[n])
    <3>1. Odometer(J, n + 1, lengths, lengths[n + 1] * f[n])
      BY <2>3
    <3> HIDE DEF Covered
    <3> QED BY <2>1, <2>2, <2>3, <3>1, OneModeMore
  <2> QED BY <2>3, <2>4
<1>5. Nat \subseteq Covered
  <2> HIDE DEF Covered
  <2> QED BY <1>3, <1>4, NaturalsIn
<1>6. L \in Covered
  BY <1>5
<1> QED BY <1>1, <1>2, <1>6

\* What is written of the element at x.
Written(k, problem, x) ==
  <<OffsetOf(x, problem.bStrides),
    Combined(k, problem.alpha, ElementOfA(OffsetOf(x, problem.aStrides)))>>

\* One turn of the reference's loop.
Turn(k, problem, walk) ==
  [index |-> NextIndex(walk.index, problem.lengths),
   written |-> walk.written \cup {Written(k, problem, walk.index)}]

LEMMA TurnFields ==
  ASSUME NEW k, NEW problem, NEW walk
  PROVE  /\ Turn(k, problem, walk).index = NextIndex(walk.index, problem.lengths)
         /\ Turn(k, problem, walk).written
              = walk.written \cup {Written(k, problem, walk.index)}
BY DEF Turn

\* W holds the index and the elements after each of T turns.
Walked(W, k, problem, T) ==
  W = [n \in 0..T |->
         IF n = 0 THEN [index |-> [i \in DOMAIN problem.lengths |-> 0], written |-> {}]
         ELSE Turn(k, problem, W[n - 1])]

LEMMA WalkExists ==
  ASSUME NEW k, NEW problem, problem.lengths \in Seq(Nat), NEW T \in Nat
  PROVE  \E W: Walked(W, k, problem, T) /\ Walk(k, problem, T) = W[T]
<1> DEFINE lengths == problem.lengths
           n == Len(lengths)
<1>1. n \in Nat /\ DOMAIN lengths = 1..n
  OBVIOUS
<1>2. PICK I: Odometer(I, n, lengths, T)
  BY <1>1, OdometerExists
<1> DEFINE W == [t \in 0..T |-> [index |-> I[t],
                                 written |-> {Written(k, problem, I[s]) : s \in 0..t - 1}]]
<1>3. W[0] = [index |-> [i \in DOMAIN lengths |-> 0], written |-> {}]
  <2>1. I[0] = [i \in DOMAIN lengths |-> 0]
    BY <1>1, <1>2 DEF Odometer, Zeros
  <2>2. {Written(k, problem, I[s]) : s \in 0..0 - 1} = {} /\ 0 \in 0..T
    OBVIOUS
  <2>3. W[0] = [index |-> I[0], written |-> {}]
    BY <2>2
  <2> HIDE DEF W
  <2> QED BY <2>1, <2>3
<1>4. ASSUME NEW t \in 1..T PROVE W[t] = Turn(k, problem, W[t - 1])
  <2>1. t \in 0..T /\ t - 1 \in 0..T
    OBVIOUS
  <2>2. I[t] = NextIndex(I[t - 1], lengths)
    BY <1>2 DEF Odometer
  <2>3. 0..t - 1 = (0..(t - 1) - 1) \cup {t - 1}
    OBVIOUS
  <2>4. {Written(k, problem, I[s]) : s \in 0..t - 1}
          = {Written(k, problem, I[s]) : s \in 0..(t - 1) - 1} \cup {Written(k, problem, I[t - 1])}
    BY <2>3
  <2> QED BY <2>1, <2>2, <2>4 DEF Turn
<1>5. Walked(W, k, problem, T)
  <2>1. W = [t \in 0..T |-> W[t]]
    OBVIOUS
  <2> HIDE DEF W
  <2>2. \A t \in 0..T: W[t] = IF t = 0 THEN [index |-> [i \in DOMAIN problem.lengths |-> 0], written |-> {}]
                              ELSE Turn(k, problem, W[t - 1])
    BY <1>3, <1>4
  <2> QED BY <2>1, <2>2 DEF Walked
<1> DEFINE after == CHOOSE V: Walked(V, k, problem, T)
<1>6. Walked(after, k, problem, T)
  BY <1>5
<1>7. Walk(k, problem, T) = after[T]
  BY DEF Walk, Walked, Turn, Written
<1> HIDE DEF after
<1> QED BY <1>6, <1>7

\* The reference's walk writes every element of the problem once.
LEMMA ReferenceRunWrites ==
  ASSUME NEW k, NEW problem, problem.lengths \in Seq(Nat)
  PROVE  ReferenceRun(k, problem) = KernelWrites(k, problem)
<1> DEFINE lengths == problem.lengths
           L == Len(lengths)
           T == ElementsFromLengths(lengths)
<1>1. L \in Nat /\ DOMAIN lengths = 1..L
  OBVIOUS
<1>2. T \in Nat
  <2>1. PICK f \in [0..L -> Nat]: T = f[L]
    BY Products
  <2> QED BY <1>1, <2>1
<1>3. PICK W: Walked(W, k, problem, T) /\ Walk(k, problem, T) = W[T]
  <2> HIDE DEF T
  <2> QED BY <1>2, WalkExists
<1> DEFINE I == [t \in 0..T |-> W[t].index]
<1>4. /\ W[0].index = Zeros(L) /\ W[0].written = {}
      /\ \A t \in 1..T: W[t] = Turn(k, problem, W[t - 1])
  <2>1. 0 \in 0..T /\ \A t \in 1..T: t \in 0..T /\ t # 0
    BY <1>2
  <2>2. W[0] = [index |-> [i \in DOMAIN lengths |-> 0], written |-> {}]
    BY <1>3, <2>1 DEF Walked
  <2>3. \A t \in 1..T: W[t] = Turn(k, problem, W[t - 1])
    BY <1>3, <2>1 DEF Walked
  <2> QED BY <1>1, <2>2, <2>3 DEF Zeros
<1>5. Odometer(I, L, lengths, T)
  <2>1. \A t \in 1..T: W[t].index = NextIndex(W[t - 1].index, lengths)
    BY <1>4, TurnFields
  <2>2. \A t \in 1..T: t \in 0..T /\ t - 1 \in 0..T
    BY <1>2
  <2>3. 0 \in 0..T
    BY <1>2
  <2> HIDE DEF T
  <2> QED BY <1>4, <2>1, <2>2, <2>3 DEF Odometer
<1>6. GoesThrough(I, Coordinates(lengths), T)
  <2> HIDE DEF I
  <2> QED BY <1>5, OdometerCovers
<1> DEFINE Sofar == {t \in Nat: t <= T => W[t].written = {Written(k, problem, I[s]) : s \in 0..t - 1}}
<1> HIDE DEF T
<1>7. 0 \in Sofar
  <2>1. 0..0 - 1 = {}
    OBVIOUS
  <2>2. {Written(k, problem, I[s]) : s \in 0..0 - 1} = {}
    BY <2>1
  <2> QED BY <1>4, <2>2
<1>8. ASSUME NEW t \in Nat, t \in Sofar PROVE t + 1 \in Sofar
  <2> SUFFICES ASSUME t + 1 <= T
               PROVE  W[t + 1].written = {Written(k, problem, I[s]) : s \in 0..(t + 1) - 1}
    OBVIOUS
  <2>1. t + 1 \in 1..T /\ (t + 1) - 1 = t /\ t \in 0..T /\ t <= T
    BY <1>2
  <2>2. W[t + 1].written = W[t].written \cup {Written(k, problem, W[t].index)}
    BY <1>4, <2>1, TurnFields
  <2>3. W[t].index = I[t]
    BY <2>1
  <2>4. W[t].written = {Written(k, problem, I[s]) : s \in 0..t - 1}
    BY <1>8, <2>1
  <2> HIDE DEF I
  <2>5. 0..t = (0..t - 1) \cup {t}
    OBVIOUS
  <2> QED BY <2>1, <2>2, <2>3, <2>4, <2>5
<1>9. Nat \subseteq Sofar
  <2> HIDE DEF Sofar
  <2> QED BY <1>7, <1>8, NaturalsIn
<1>10. ReferenceRun(k, problem) = {Written(k, problem, I[s]) : s \in 0..T - 1}
  <2>1. W[T].written = {Written(k, problem, I[s]) : s \in 0..T - 1}
    BY <1>2, <1>9
  <2>2. ReferenceRun(k, problem) = W[T].written
    BY <1>3 DEF ReferenceRun, T
  <2> QED BY <2>1, <2>2
<1> HIDE DEF I
<1>11. KernelWrites(k, problem) = {Written(k, problem, x) : x \in Coordinates(lengths)}
  BY DEF KernelWrites, Written
<1>12. Coordinates(lengths) = {I[s] : s \in 0..T - 1}
  BY <1>6 DEF GoesThrough
<1> HIDE DEF lengths
<1> QED BY <1>10, <1>11, <1>12

\* The reference has one solution for each problem the library serves, and it
\* writes the elements of the definition.
LEMMA ReferencePermutes ==
  ASSUME NEW c, WellFormed(c), SameModes(c), Serves(c)
  PROVE  ReferenceResults(c, 0) = {PermutedElements(c)}
<1> DEFINE K == Candidates(ReferenceSolutions, c)
           problem == Arguments(c, 0)
<1>1. ReferenceSolutions = {k \in Solutions: k.width = 1}
  BY DEF ReferenceSolutions, Solutions,
         PermutationCpuReference2DInstances, PermutationCpuReference3DInstances,
         PermutationCpuReference4DInstances, PermutationCpuReference5DInstances,
         PermutationCpuReference6DInstances, PermutationSolution2DInstances,
         PermutationSolution3DInstances, PermutationSolution4DInstances,
         PermutationSolution5DInstances, PermutationSolution6DInstances
<1>2. K = {k \in Candidates(Solutions, c): k.width = 1}
  BY <1>1 DEF Candidates
<1>3. K = {k \in Solutions: Fits(k, c) /\ k.width = 1}
  BY <1>2, CandidatesFit
<1>4. K # {}
  BY <1>3, NarrowestFits
<1>5. problem.lengths \in Seq(Nat)
  BY PackedFits DEF Arguments, WellFormed
<1>6. ASSUME NEW k \in K PROVE ReferenceRun(k, problem) = PermutedElements(c)
  <2>1. k \in Solutions /\ Fits(k, c)
    BY <1>3
  <2>2. KernelWrites(k, problem) = PermutedElements(c)
    BY <2>1, KernelPermutes
  <2> HIDE DEF problem
  <2>3. ReferenceRun(k, problem) = KernelWrites(k, problem)
    BY <1>5, ReferenceRunWrites
  <2> QED BY <2>2, <2>3
<1>7. ReferenceResults(c, 0) = {ReferenceRun(k, problem) : k \in K}
  BY DEF ReferenceResults
<1> HIDE DEF K, problem
<1> QED BY <1>4, <1>6, <1>7

\* Replies are to calls of the program.
RepliesAsked == \A t \in Threads: replies[t] # None => replies[t].call \in Calls

LEMMA RepliesStep == TypeInv /\ RepliesAsked /\ [Next]_vars => RepliesAsked'
<1> SUFFICES ASSUME TypeInv, RepliesAsked, [Next]_vars PROVE RepliesAsked'
  OBVIOUS
<1>1. CASE UNCHANGED replies
  BY <1>1 DEF RepliesAsked
<1>2. ASSUME NEW t \in Threads, NEW status, Return(t, status), caller[t].call # None
      PROVE  RepliesAsked'
  <2>1. caller[t].call \in Calls /\ DOMAIN replies = Threads
    BY <1>2 DEF TypeInv, TypeOK
  <2>2. replies'[t].call = caller[t].call /\ \A u \in Threads \ {t}: replies'[u] = replies[u]
    BY <1>2, <2>1 DEF Return
  <2> QED BY <2>1, <2>2 DEF RepliesAsked
<1>3. ASSUME NEW t \in Threads, caller[t].left # {} \/ caller[t].kernel # None
      PROVE  caller[t].call # None
  BY <1>3 DEF TypeInv, TypeOK, Idle
<1>4. ASSUME NEW t \in Threads, Refuse(t) PROVE RepliesAsked'
  BY <1>2, <1>4 DEF Refuse, Fresh
<1>5. ASSUME NEW t \in Threads, TryCandidate(t) PROVE RepliesAsked'
  BY <1>1, <1>2, <1>3, <1>5 DEF TryCandidate
<1>6. ASSUME NEW t \in Threads, Run(t) PROVE RepliesAsked'
  BY <1>2, <1>3, <1>6 DEF Run
<1> QED BY <1>1, <1>4, <1>5, <1>6 DEF Next, Call, Search, Terminated, vars

\* hiptensorPermutationReference, whose odometer counts through the elements of
\* a tensor of any rank and lengths, writes for every call that succeeded the
\* permutation its modes define.
THEOREM PermutationReferenceAgrees ==
  ASSUME Serialised, \A c \in Calls: WellFormed(c) /\ SameModes(c)
  PROVE  Spec => []ReferenceAgrees
<1>1. Init => RepliesAsked
  BY DEF Init, RepliesAsked
<1>2. PermutationInv /\ RepliesAsked /\ [Next]_vars => RepliesAsked'
  BY RepliesStep DEF PermutationInv
<1>3. ServeInv /\ RepliesAsked => ReferenceAgrees
  BY ReferencePermutes DEF ServeInv, ReplyInv, RepliesAsked, ReferenceAgrees
<1>4. Spec => []PermutationInv /\ []ServeInv
  BY PermutationHold, ServeHold
<1> QED BY <1>1, <1>2, <1>3, <1>4, PTL DEF Spec
=============================================================================

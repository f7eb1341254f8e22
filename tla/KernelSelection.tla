--------------------------- MODULE KernelSelection ---------------------------
(***************************************************************************)
(* How a contraction finds its kernel: the registry of solutions             *)
(* (contraction_solution_registry.cpp), the queries of                       *)
(* hiptensorInitContractionPlan (hiptensor_contraction.cpp) and the          *)
(* actor-critic tables (contraction_selection.cpp), over the kernels of       *)
(* KernelCatalogue.tla.                                                      *)
(*                                                                          *)
(* A hash is the tuple of the values that are hashed: two keys are equal only *)
(* when their values are.                                                    *)
(***************************************************************************)
EXTENDS KernelCatalogue, TensorLayout, FiniteSetsExt, Functions

CONSTANTS
  Requests   \* the contractions programs describe

VARIABLES
  request,      \* the contraction being planned
  candidates,   \* the kernels left by the queries
  answer        \* what the selection answered

vars == <<request, candidates, answer>>

-----------------------------------------------------------------------------
\* Types at run time.

\* HipDataType_v of a template argument, ck::bhalf_t exchanged for
\* hip_bfloat16 by MetaTraits.
HipDataType(t) ==
  CASE t = "F16" -> "R_16F" [] t = "BF16" -> "R_16BF" [] t = "F32" -> "R_32F"
    [] t = "F64" -> "R_64F" [] t = "CF32" -> "C_32F" [] t = "CF64" -> "C_64F"
    [] t = "none" -> "NONE"

ConvertToComputeType(hipType) ==
  CASE hipType = "R_16BF" -> "COMPUTE_16BF" [] hipType = "R_16F" -> "COMPUTE_16F"
    [] hipType = "R_32F" -> "COMPUTE_32F" [] hipType = "R_64F" -> "COMPUTE_64F"
    [] hipType = "C_32F" -> "COMPUTE_C32F" [] hipType = "C_64F" -> "COMPUTE_C64F"
    [] OTHER -> "COMPUTE_NONE"

ContractionOpId(op) ==
  CASE op = "Scale" -> "SCALE" [] op = "ScaleComplex" -> "SCALE_COMPLEX"
    [] op = "Bilinear" -> "BILINEAR" [] op = "BilinearComplex" -> "BILINEAR_COMPLEX"

\* ContractionSolutionParamsImpl: what a solution says of its kernel.
Params(k) ==
  [dims |-> k.dims,
   types |-> <<HipDataType(k.a), HipDataType(k.b), HipDataType(k.d), HipDataType(k.e),
               ConvertToComputeType(HipDataType(k.compute))>>,
   ops |-> <<"IDENTITY", "IDENTITY">>, opCDE |-> ContractionOpId(k.op)]

-----------------------------------------------------------------------------
\* class ContractionSolutionRegistry::Query.

EmptyQuery == [all |-> {}, hash |-> <<>>]

HashTypes(types) == types
HashOps(op) == <<op>>

\* Mutant: solutions are not filed under their contraction operation.
KeysNoOperation(p) ==
  {p.dims \o p.types \o p.ops \o <<p.opCDE>>, p.dims, HashTypes(p.types), p.ops}

\* The keys a solution is filed under: all of it, and each category.
Keys(p) ==
  {p.dims \o p.types \o p.ops \o <<p.opCDE>>, p.dims, HashTypes(p.types), p.ops,
   HashOps(p.opCDE)}

Bucket(q, key) == IF key \in DOMAIN q.hash THEN q.hash[key] ELSE {}

\* Each solution is filed once under each of its keys.
AddSolutions(q, solutions) ==
  LET keysOf == [k \in solutions |-> Keys(Params(k))]
  IN [all |-> q.all \cup solutions,
      hash |-> [key \in DOMAIN q.hash \cup UNION Range(keysOf) |->
                  Bucket(q, key) \cup {k \in solutions: key \in keysOf[k]}]]

\* A query's answer is a Query again, its categories rebuilt.
Query(q, key) == AddSolutions(EmptyQuery, Bucket(q, key))

\* registerSolutions, once for each batch.
RegisterSolutions(batches) ==
  LET after[n \in 0..Len(batches)] ==
        IF n = 0 THEN EmptyQuery ELSE AddSolutions(after[n - 1], batches[n])
  IN after[Len(batches)]

\* What the constructor of ContractionSolutionInstances leaves in the registry.
Registered == RegisterSolutions(Registrations)

-----------------------------------------------------------------------------
\* The actor-critic tables.  An id names the table and one of its constants.

NoId == <<"0", "0">>

\* ids: by the number of modes of each kind; dim1: the id for two modes when
\* some mode of A or B has length 1, "0" where the table has no such test.
Table(name, ids, dim1) ==
  [ids |-> [r \in 1..6 |-> <<name, ids[r]>>],
   dim1 |-> IF dim1 = "0" THEN NoId ELSE <<name, dim1>>]

F16_F32_Scale      == Table("F16_F32_Scale", <<"a", "a", "a", "b", "b", "c">>, "0")
F16_F32_Bilinear   == Table("F16_F32_Bilinear", <<"a", "b", "a", "a", "a", "b">>, "a")
BF16_F32_Scale     == Table("BF16_F32_Scale", <<"a", "b", "b", "c", "c", "d">>, "0")
BF16_F32_Bilinear  == Table("BF16_F32_Bilinear", <<"a", "b", "a", "a", "a", "a">>, "c")
F32_F16_Scale      == Table("F32_F16_Scale", <<"a", "a", "a", "a", "a", "b">>, "0")
F32_F16_Bilinear   == Table("F32_F16_Bilinear", <<"a", "a", "a", "a", "a", "a">>, "b")
F32_BF16_Scale     == Table("F32_BF16_Scale", <<"a", "a", "b", "a", "c", "d">>, "0")
F32_BF16_Bilinear  == Table("F32_BF16_Bilinear", <<"a", "a", "a", "a", "a", "a">>, "b")
F32_F32_Scale      == Table("F32_F32_Scale", <<"a", "b", "c", "a", "a", "d">>, "0")
F32_F32_Bilinear   == Table("F32_F32_Bilinear", <<"a", "a", "a", "a", "a", "a">>, "a")
F64_F32_Scale      == Table("F64_F32_Scale", <<"a", "b", "c", "d", "e", "e">>, "0")
F64_F32_Bilinear   == Table("F64_F32_Bilinear", <<"a", "a", "a", "a", "a", "a">>, "b")
F64_F64_Scale      == Table("F64_F64_Scale", <<"a", "b", "c", "a", "a", "d">>, "0")
F64_F64_Bilinear   == Table("F64_F64_Bilinear", <<"a", "a", "a", "a", "a", "a">>, "b")
CF32_CF32_Scale    == Table("CF32_CF32_Scale", <<"a", "b", "a", "a", "a", "c">>, "0")
CF32_CF32_Bilinear == Table("CF32_CF32_Bilinear", <<"a", "b", "a", "a", "a", "a">>, "c")
CF64_CF64_Scale    == Table("CF64_CF64_Scale", <<"a", "b", "c", "a", "a", "a">>, "0")
CF64_CF64_Bilinear == Table("CF64_CF64_Bilinear", <<"a", "a", "a", "a", "a", "a">>, "b")

\* No branch.
NoTable == [ids |-> <<>>, dim1 |-> NoId]

\* actorCriticModel: the branch for the types of A, B, D, E and the compute
\* type.  computeType == HIP_R_16BF compares through operator== of
\* data_types.cpp and is HIPTENSOR_COMPUTE_16BF.
TableOf(types) ==
  CASE types = <<"R_16F", "R_16F", "NONE", "R_16F", "COMPUTE_32F">> -> F16_F32_Scale
    [] types = <<"R_16F", "R_16F", "R_16F", "R_16F", "COMPUTE_32F">> -> F16_F32_Bilinear
    [] types = <<"R_16BF", "R_16BF", "NONE", "R_16BF", "COMPUTE_32F">> -> BF16_F32_Scale
    [] types = <<"R_16BF", "R_16BF", "R_16BF", "R_16BF", "COMPUTE_32F">> -> BF16_F32_Bilinear
    [] types = <<"R_32F", "R_32F", "NONE", "R_32F", "COMPUTE_16F">> -> F32_F16_Scale
    [] types = <<"R_32F", "R_32F", "R_32F", "R_32F", "COMPUTE_16F">> -> F32_F16_Bilinear
    [] types = <<"R_32F", "R_32F", "NONE", "R_32F", "COMPUTE_16BF">> -> F32_BF16_Scale
    [] types = <<"R_32F", "R_32F", "R_32F", "R_32F", "COMPUTE_16BF">> -> F32_BF16_Bilinear
    [] types = <<"R_32F", "R_32F", "NONE", "R_32F", "COMPUTE_32F">> -> F32_F32_Scale
    [] types = <<"R_32F", "R_32F", "R_32F", "R_32F", "COMPUTE_32F">> -> F32_F32_Bilinear
    [] types = <<"R_64F", "R_64F", "NONE", "R_64F", "COMPUTE_32F">> -> F64_F32_Scale
    [] types = <<"R_64F", "R_64F", "R_64F", "R_64F", "COMPUTE_32F">> -> F64_F32_Bilinear
    [] types = <<"R_64F", "R_64F", "NONE", "R_64F", "COMPUTE_64F">> -> F64_F64_Scale
    [] types = <<"R_64F", "R_64F", "R_64F", "R_64F", "COMPUTE_64F">> -> F64_F64_Bilinear
    [] types = <<"C_32F", "C_32F", "NONE", "C_32F", "COMPUTE_C32F">> -> CF32_CF32_Scale
    [] types = <<"C_32F", "C_32F", "C_32F", "C_32F", "COMPUTE_C32F">> -> CF32_CF32_Bilinear
    [] types = <<"C_64F", "C_64F", "NONE", "C_64F", "COMPUTE_C64F">> -> CF64_CF64_Scale
    [] types = <<"C_64F", "C_64F", "C_64F", "C_64F", "COMPUTE_C64F">> -> CF64_CF64_Bilinear
    [] OTHER -> NoTable

HasTable(types) == TableOf(types) # NoTable

\* Mutant: the stride before the one of the rank's last mode is read.
StrideReadOneOff(strides, past, r) ==
  Index(IF 2 * r - 1 <= Len(strides) THEN strides[2 * r - 1] ELSE past)

\* d_r: stride 2r - 1 (from 0) of A, whatever is in memory past the strides, as an
\* int.
StrideRead(strides, past, r) ==
  Index(IF 2 * r <= Len(strides) THEN strides[2 * r] ELSE past)

\* Mutant: the id is not initialised, and no test may match.
UniqueIdUnset(table, strides, past, dim1) ==
  LET ones == {r \in 1..6: StrideRead(strides, past, r) = 1}
  IN IF table.dim1 # NoId /\ dim1 /\ 2 \in ones THEN table.dim1
     ELSE IF ones = {} THEN <<"unset", "unset">>
     ELSE table.ids[Min(ones)]

\* The chain of tests that every selectWinner has.
UniqueId(table, strides, past, dim1) ==
  LET ones == {r \in 1..6: StrideRead(strides, past, r) = 1}
  IN IF table.dim1 # NoId /\ dim1 /\ 2 \in ones THEN table.dim1
     ELSE IF ones = {} THEN NoId
     ELSE table.ids[Min(ones)]

-----------------------------------------------------------------------------
\* A request: the types of the descriptors (c is None when descC is null), the
\* compute type, the lengths and strides of A, whether B has a mode of length
\* 1, and what is in memory after the strides.  hiptensorInitTensorDescriptor
\* takes no other types.
ASSUME RequestsAssumption ==
  \A r \in Requests: /\ {r.a, r.b, r.d} \subseteq ScalarTypes /\ r.c \in ScalarTypes \cup {None}
                     /\ r.lengths \in Seq(Nat)

\* The operation hiptensorInitContractionDescriptor stores.
OpOf(r) ==
  LET complex == r.compute \in {"COMPUTE_C32F", "COMPUTE_C64F"} IN
  CASE r.c = None /\ complex  -> "SCALE_COMPLEX"
    [] r.c = None /\ ~complex -> "SCALE"
    [] r.c # None /\ complex  -> "BILINEAR_COMPLEX"
    [] OTHER                  -> "BILINEAR"

\* The types it stores: those of A, B, D and E.
TypesAsked(r) == <<r.a, r.b, IF r.c = None THEN "NONE" ELSE r.c, r.d, r.compute>>

Init == request = None /\ candidates = None /\ answer = None

\* hiptensorInitContractionDescriptor and hiptensorInitContractionFind: every
\* solution is a candidate.
Describe ==
  /\ request = None
  /\ request' \in Requests
  /\ candidates' = Registered.all
  /\ UNCHANGED answer

\* The first query of hiptensorInitContractionPlan, over the find's candidates.
ByOperation ==
  [op \in {"SCALE", "SCALE_COMPLEX", "BILINEAR", "BILINEAR_COMPLEX"} |->
     Query(AddSolutions(EmptyQuery, Registered.all), HashOps(op))]

\* The second, by types.
QueryKernels(r) == Query(ByOperation[OpOf(r)], HashTypes(TypesAsked(r))).all

InitPlan ==
  /\ request # None /\ candidates = Registered.all
  /\ candidates' = QueryKernels(request)
  /\ UNCHANGED <<request, answer>>

\* hiptensorContractionReference: the same types asked of the other registry,
\* that of the CPU reference.
ReferenceRegistered == RegisterSolutions(ReferenceRegistrations)

ReferenceCandidates(r) == Query(ReferenceRegistered, HashTypes(TypesAsked(r))).all

ReferenceStatus(r) ==
  IF Cardinality(ReferenceCandidates(r)) # 1 THEN "INTERNAL_ERROR" ELSE "SUCCESS"

\* The queries have been made.
Queried == request # None /\ candidates # Registered.all

\* actorCriticModel.  Whether the id names a candidate is CK's business: it is
\* the hash of a C++ type.  0 names none.
SelectWinner ==
  /\ Queried /\ answer = None
  /\ LET types == TypesAsked(request) IN
     IF HasTable(types)
     THEN LET id == UniqueId(TableOf(types), request.strides, request.past,
                             request.oneInB \/ 1 \in Range(request.lengths))
          IN \E found \in BOOLEAN:
               /\ found => id # NoId /\ candidates # {}
               /\ answer' = [id |-> id, status |-> IF found THEN "SUCCESS"
                                                   ELSE "EXECUTION_FAILED"]
     ELSE answer' = [id |-> NoId, status |-> "EXECUTION_FAILED"]
  /\ UNCHANGED <<request, candidates>>

\* The program goes on to the next contraction.
Finish ==
  /\ answer # None
  /\ request' = None /\ candidates' = None /\ answer' = None

Next == Describe \/ InitPlan \/ SelectWinner \/ Finish

Spec == Init /\ [][Next]_vars

-----------------------------------------------------------------------------
\* Candidates are registered solutions, a selection names a constant of the
\* request's table or none, and without one it does not succeed.
TypeOK ==
  /\ request \in Requests \cup {None}
  /\ candidates = None \/ candidates \subseteq Registered.all
  /\ answer # None =>
       /\ LET table == TableOf(TypesAsked(request))
          IN answer.id \in {NoId, table.dim1} \cup Range(table.ids)
       /\ answer.status \in {"SUCCESS", "EXECUTION_FAILED"}

\* The kernels a plan chooses from are exactly the registered ones for its
\* operation, types and compute type: the categories filed at registration,
\* the ones rebuilt by every query and the descriptor's fields agree.
QueryExact ==
  Queried =>
    candidates = {k \in Registered.all:
                    /\ ContractionOpId(k.op) = OpOf(request)
                    /\ Params(k).types = TypesAsked(request)}

\* The registration and the actor-critic dispatch, two files kept in step by
\* hand, support the same types: kernels are found exactly where there is a table.
DispatchMeetsRegistry == Queried => (candidates # {} <=> HasTable(TypesAsked(request)))

\* Whatever modes of A and B are contiguous, a supported contraction has a
\* kernel that reads them so: each of the four layouts got its own file.
EveryLayoutServed ==
  Queried /\ candidates # {} => {k.fast : k \in candidates} = {"k", "m"} \X {"k", "n"}

\* A candidate accumulates no narrower than the compute type the program asked
\* for, and double data goes through the tiles made for it.
PrecisionKept ==
  Queried => \A k \in candidates:
    /\ k.acc = IF request.compute \in {"COMPUTE_64F", "COMPUTE_C64F"} THEN "F64" ELSE "F32"
    /\ k.wide = (request.a \in {"R_64F", "C_64F"})

\* The CPU reference, registered in a file of its own, has exactly one answer for
\* what the device supports and none for the rest, and it applies the same
\* operation with the same accumulator as every kernel it stands in for.
OneReference ==
  Queried =>
    /\ ReferenceStatus(request) = "SUCCESS" <=> candidates # {}
    /\ \A ref \in ReferenceCandidates(request), k \in candidates:
         ref.op = k.op /\ ref.acc = k.acc /\ Params(ref) = Params(k)

\* For a packed row-major A with as many M as K modes, up to six of each, a
\* supported contraction gets an id, and with no mode of length 1 the id of its
\* rank, although the tables read past the strides of A.  They read ints: the id of
\* the rank is certain only for strides that fit one.
RankEntryChosen ==
  LET modes == Len(request.lengths)
      table == TableOf(TypesAsked(request))
  IN answer # None /\ HasTable(TypesAsked(request))
     /\ request.strides = StridesFromLengths(request.lengths, FALSE)
     /\ modes \in {2 * r : r \in 1..6}
     => /\ answer.id # NoId
        /\ 1 \notin Range(request.lengths) /\ ~request.oneInB /\ FitsIndex(request.strides)
             => answer.id = table.ids[modes \div 2]
=============================================================================

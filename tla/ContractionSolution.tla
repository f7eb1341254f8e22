------------------------ MODULE ContractionSolution ------------------------
(***************************************************************************)
(* The contraction solutions (library/src/contraction/contraction_solution  *)
(* .cpp and _impl.hpp): one object per compiled kernel, created once per     *)
(* process, shared by every plan and thread, and protected by no lock.  Each *)
(* keeps the arguments of the problem it was last initialised for.           *)
(* The operators below are the pieces that ContractionApi.tla interleaves.   *)
(***************************************************************************)
EXTENDS Naturals, FiniteSets

CONSTANTS
  Threads,
  Kernels,               \* the registered solutions
  Problems,              \* contents of contraction descriptors
  Matches(_, _),         \* Matches(k, p): operation and types of k are p's
  Supports(_, _),        \* Supports(k, p): CK's IsSupportedArgument
  Need(_, _),            \* Need(k, p): CK's GetWorkSpaceSize
  None

VARIABLES
  valid,      \* mValid
  args,       \* mInvokerArgPtr: the argument object held, or None
  invoker,    \* mInvokerPtr is set
  dims        \* mM, mN, mK, mBytes: the problem they were computed from

solutionVars == <<valid, args, invoker, dims>>

\* An argument object belongs to the call of a thread on a problem; data is
\* FALSE when it was built on null pointers, for sizing only.  A complex
\* kernel's object built on data owns device memory until it is destroyed.
Argument == [by: Threads, problem: Problems, data: BOOLEAN]

SolutionTypeOK ==
  /\ valid \in [Kernels -> BOOLEAN]
  /\ args \in [Kernels -> Argument \cup {None}]
  /\ invoker \in [Kernels -> BOOLEAN]
  /\ dims \in [Kernels -> Problems \cup {None}]

SolutionInit ==
  /\ valid = [k \in Kernels |-> FALSE]
  /\ args = [k \in Kernels |-> None]
  /\ invoker = [k \in Kernels |-> FALSE]
  /\ dims = [k \in Kernels |-> None]

ResetArgs(k) ==
  /\ valid' = [valid EXCEPT ![k] = FALSE]
  /\ args' = [args EXCEPT ![k] = None]
  /\ invoker' = [invoker EXCEPT ![k] = FALSE]
  /\ dims' = [dims EXCEPT ![k] = None]

\* Mutant: the reset is forgotten.
KeepArgs(k) == UNCHANGED solutionVars

\* Only the argument object goes; mValid, the invoker and the problem
\* dimensions stay for the caller to read.
ResetInvokerArgs(k) ==
  /\ args' = [args EXCEPT ![k] = None]
  /\ UNCHANGED <<valid, invoker, dims>>

\* The middle of initArgs: normalise the modes, build the argument and the
\* invoker, compute the dimensions.
MakeArgs(k, a) ==
  /\ args' = [args EXCEPT ![k] = a]
  /\ invoker' = [invoker EXCEPT ![k] = TRUE]
  /\ dims' = [dims EXCEPT ![k] = a.problem]
  /\ UNCHANGED valid

\* The end of initArgs: ask CK whether the kernel can run the arguments the
\* solution holds, forget them if not.
TestArgs(k) ==
  IF Supports(k, args[k].problem)
  THEN /\ valid' = [valid EXCEPT ![k] = TRUE]
       /\ UNCHANGED <<args, invoker, dims>>
  ELSE ResetArgs(k)

\* workspaceSize() const.
WorkspaceSize(k) == IF valid[k] THEN Need(k, args[k].problem) ELSE 0
=============================================================================

--------------------------- MODULE ContractionApi ---------------------------
(***************************************************************************)
(* The contraction calls (library/src/contraction/hiptensor_contraction.cpp *)
(* and bruteForceModel / actorCriticModel in contraction_selection.cpp) made *)
(* by several threads on the shared solutions of ContractionSolution.tla.    *)
(* Each thread has a find, a plan and a current HIP device.  The steps of a   *)
(* call are the places where another thread can touch the same solution.     *)
(*                                                                          *)
(* A step that would follow a null pointer is not enabled: the program ends   *)
(* there.                                                                    *)
(***************************************************************************)
EXTENDS ContractionSolution

CONSTANTS
  Devices,
  Handles,         \* the program's handles, each known by the device that
                   \* was current at its hiptensorCreate
  Preferred(_),    \* the kernel the actor-critic tables name for a problem
  WorkspaceSizes,  \* the sizes programs pass
  MaxScore,        \* measured speeds are 0..MaxScore, 0 is "not timed"
  FailingAllocs,   \* hipMalloc and hipFree may fail
  Serialised       \* the program makes one contraction call at a time

ASSUME ConstantsAssumption ==
  /\ None \notin Argument \cup Problems \cup Kernels
  /\ Handles \subseteq Devices
  /\ WorkspaceSizes \subseteq Nat
  /\ \A k \in Kernels, p \in Problems:
       Matches(k, p) \in BOOLEAN /\ Supports(k, p) \in BOOLEAN /\ Need(k, p) \in Nat
  /\ MaxScore \in Nat
  /\ FailingAllocs \in BOOLEAN /\ Serialised \in BOOLEAN

VARIABLES
  device,     \* the current device of each thread
  find,       \* hiptensorContractionFind_t
  plan,       \* hiptensorContractionPlan_t
  buffers,    \* the device buffers the call of each thread has allocated
  pc, call    \* where each thread is in its call, and the call's locals

vars == <<solutionVars, device, find, plan, buffers, pc, call>>

\* DEFAULT stands for DEFAULT_PATIENT too: every test treats the two alike.
Algos == {"DEFAULT", "ACTOR_CRITIC"}
Preferences == {"MIN", "RECOMMENDED", "MAX"}
BruteForceBuffers == 5

\* todo: candidates not visited yet; kernel: the one being visited; best and
\* score: the fastest so far; size: the caller's workspace size, or the one
\* being computed.
NoCall == [api |-> "none", problem |-> None, pref |-> "MIN", size |-> 0,
           todo |-> {}, kernel |-> None, best |-> None, score |-> 0,
           status |-> "SUCCESS"]

\* kernel and problem are the plan's fields; size and algo remember what it
\* was made for.
NoPlan == [kernel |-> None, problem |-> None, size |-> 0, algo |-> "DEFAULT"]

Init ==
  /\ SolutionInit
  /\ device \in [Threads -> Devices]
  /\ find = [t \in Threads |-> [algo |-> "unset", candidates |-> {}]]
  /\ plan = [t \in Threads |-> NoPlan]
  /\ buffers = [t \in Threads |-> 0]
  /\ pc = [t \in Threads |-> "idle"]
  /\ call = [t \in Threads |-> NoCall]

Goto(t, label) == pc' = [pc EXCEPT ![t] = label]

Return(t, status) ==
  /\ Goto(t, "return")
  /\ call' = [call EXCEPT ![t].status = status]

CanCall(t) ==
  /\ pc[t] = "idle"
  /\ Serialised => \A u \in Threads: pc[u] = "idle"

\* The current device is that of the handle passed to this call.  No call
\* looks at the device its plan or its find was made on.
OnHandleDevice(t, h) == device[t] = h

DeviceStatus(t, h) ==
  IF OnHandleDevice(t, h) THEN "SUCCESS" ELSE "ARCH_MISMATCH"

\* The call visits several candidates.
Searching(t) == call[t].api \in {"GetWorkspaceSize", "InitPlan"}

-----------------------------------------------------------------------------
\* The calls, up to their first step on a solution.

\* hipSetDevice by the program.
SetDevice(t) ==
  /\ pc[t] = "idle"
  /\ \E d \in Devices: device' = [device EXCEPT ![t] = d]
  /\ UNCHANGED <<solutionVars, find, plan, buffers, pc, call>>

\* Every registered solution becomes a candidate, whatever the problem.
\* A wrong device (ARCH_MISMATCH) or algorithm (INVALID_VALUE) changes nothing.
InitContractionFind(t) ==
  /\ CanCall(t)
  /\ \E h \in Handles: OnHandleDevice(t, h)
  /\ \E algo \in Algos:
       find' = [find EXCEPT ![t] = [algo |-> algo, candidates |-> Kernels]]
  /\ UNCHANGED <<solutionVars, device, plan, buffers, pc, call>>

ContractionGetWorkspaceSize(t) ==
  /\ CanCall(t)
  /\ \E p \in Problems, pref \in Preferences:
       call' = [call EXCEPT ![t] =
                  [NoCall EXCEPT !.api = "GetWorkspaceSize", !.problem = p,
                                 !.pref = pref, !.todo = find[t].candidates]]
  /\ Goto(t, "next")
  /\ UNCHANGED <<solutionVars, device, find, plan, buffers>>

\* The candidates of the find are queried for the operation and types.
InitContractionPlan(t) ==
  /\ CanCall(t)
  /\ \E h \in Handles, p \in Problems, w \in WorkspaceSizes:
       /\ call' = [call EXCEPT ![t] =
                    [NoCall EXCEPT !.api = "InitPlan", !.problem = p, !.size = w,
                        !.todo = {k \in find[t].candidates: Matches(k, p)},
                        !.status = DeviceStatus(t, h)]]
       /\ Goto(t, IF OnHandleDevice(t, h) THEN "select" ELSE "return")
  /\ UNCHANGED <<solutionVars, device, find, plan, buffers>>

Contraction(t) ==
  /\ CanCall(t)
  /\ \E h \in Handles, w \in WorkspaceSizes:
       /\ call' = [call EXCEPT ![t] =
                    [NoCall EXCEPT !.api = "Contraction", !.size = w,
                        !.problem = plan[t].problem, !.kernel = plan[t].kernel,
                        !.status = IF plan[t].kernel = None
                                   THEN "INTERNAL_ERROR" ELSE DeviceStatus(t, h)]]
       /\ Goto(t, IF plan[t].kernel # None /\ OnHandleDevice(t, h)
                  THEN "reset" ELSE "return")
  /\ UNCHANGED <<solutionVars, device, find, plan, buffers>>

-----------------------------------------------------------------------------
\* Selection.

\* actorCriticModel looks one kernel up by its id; it runs nothing.
ActorCritic(t) ==
  /\ pc[t] = "select"
  /\ find[t].algo = "ACTOR_CRITIC"
  /\ IF Preferred(call[t].problem) \in call[t].todo
     THEN /\ call' = [call EXCEPT ![t].best = Preferred(call[t].problem)]
          /\ Goto(t, "plan")
     ELSE Return(t, "EXECUTION_FAILED")
  /\ UNCHANGED <<solutionVars, device, find, plan, buffers>>

\* A find that was never initialised selects nothing.
NoAlgorithm(t) ==
  /\ pc[t] = "select"
  /\ find[t].algo \notin Algos
  /\ Return(t, "INTERNAL_ERROR")
  /\ UNCHANGED <<solutionVars, device, find, plan, buffers>>

\* Mutant: the failure path frees all five buffers.
BruteForceAllocFreesAll(t) ==
  /\ pc[t] = "select"
  /\ find[t].algo = "DEFAULT"
  /\ \/ /\ buffers' = [buffers EXCEPT ![t] = @ + BruteForceBuffers]
        /\ Goto(t, "next")
        /\ UNCHANGED call
     \/ /\ FailingAllocs
        /\ \E n \in 0..BruteForceBuffers - 1:
             buffers' = [buffers EXCEPT ![t] = @ + n - BruteForceBuffers]
        /\ Return(t, "ALLOC_FAILED")
  /\ UNCHANGED <<solutionVars, device, find, plan>>

\* bruteForceModel allocates five buffers; CHECK_HIP_ALLOC returns at the
\* first failure and keeps those already allocated.
BruteForceAlloc(t) ==
  /\ pc[t] = "select"
  /\ find[t].algo = "DEFAULT"
  /\ \/ /\ buffers' = [buffers EXCEPT ![t] = @ + BruteForceBuffers]
        /\ Goto(t, "next")
        /\ UNCHANGED call
     \/ /\ FailingAllocs
        /\ \E n \in 0..BruteForceBuffers - 1:
             buffers' = [buffers EXCEPT ![t] = @ + n]
        /\ Return(t, "ALLOC_FAILED")
  /\ UNCHANGED <<solutionVars, device, find, plan>>

\* The loops over the candidates, whose order is that of a hash map.
NextCandidate(t) ==
  /\ pc[t] = "next"
  /\ \E k \in call[t].todo:
       call' = [call EXCEPT ![t].kernel = k, ![t].todo = @ \ {k}]
  /\ Goto(t, "reset")
  /\ UNCHANGED <<solutionVars, device, find, plan, buffers>>

WorkspaceSizeDone(t) ==
  /\ pc[t] = "next"
  /\ call[t].todo = {}
  /\ call[t].api = "GetWorkspaceSize"
  /\ Return(t, "SUCCESS")
  /\ UNCHANGED <<solutionVars, device, find, plan, buffers>>

\* Mutant: no winner returns before the buffers are freed.
BruteForceFreeOnWin(t) ==
  /\ pc[t] = "next"
  /\ call[t].todo = {}
  /\ call[t].api = "InitPlan"
  /\ IF call[t].best = None
     THEN Return(t, "EXECUTION_FAILED") /\ UNCHANGED buffers
     ELSE /\ buffers' = [buffers EXCEPT ![t] = @ - BruteForceBuffers]
          /\ Goto(t, "plan")
          /\ UNCHANGED call
  /\ UNCHANGED <<solutionVars, device, find, plan>>

\* The buffers are freed, a failing hipFree returns with the rest allocated.
BruteForceFree(t) ==
  /\ pc[t] = "next"
  /\ call[t].todo = {}
  /\ call[t].api = "InitPlan"
  /\ \/ /\ buffers' = [buffers EXCEPT ![t] = @ - BruteForceBuffers]
        /\ IF call[t].best = None
           THEN Return(t, "EXECUTION_FAILED")
           ELSE Goto(t, "plan") /\ UNCHANGED call
     \/ /\ FailingAllocs
        /\ \E n \in 0..BruteForceBuffers - 1:
             buffers' = [buffers EXCEPT ![t] = @ - n]
        /\ Return(t, "ALLOC_FAILED")
  /\ UNCHANGED <<solutionVars, device, find, plan>>

\* Mutant: the plan gets the candidate visited last.
AssignLastVisited(t) ==
  /\ pc[t] = "plan"
  /\ plan' = [plan EXCEPT ![t] =
                [kernel |-> call[t].kernel, problem |-> call[t].problem,
                 size |-> call[t].size, algo |-> find[t].algo]]
  /\ Return(t, "SUCCESS")
  /\ UNCHANGED <<solutionVars, device, find, buffers>>

\* The plan is written only after the selection succeeded.
AssignPlan(t) ==
  /\ pc[t] = "plan"
  /\ plan' = [plan EXCEPT ![t] =
                [kernel |-> call[t].best, problem |-> call[t].problem,
                 size |-> call[t].size, algo |-> find[t].algo]]
  /\ Return(t, "SUCCESS")
  /\ UNCHANGED <<solutionVars, device, find, buffers>>

-----------------------------------------------------------------------------
\* Mutant: arguments that are still there are taken to be right.
InitArgsReuse(t) ==
  /\ pc[t] = "reset"
  /\ IF valid[call[t].kernel] /\ args[call[t].kernel] # None
     THEN Goto(t, "size") /\ UNCHANGED solutionVars
     ELSE Goto(t, "make") /\ ResetArgs(call[t].kernel)
  /\ UNCHANGED <<device, find, plan, buffers, call>>

\* initArgs on the kernel the call is at, in three steps.
InitArgsReset(t) ==
  /\ pc[t] = "reset"
  /\ ResetArgs(call[t].kernel)
  /\ Goto(t, "make")
  /\ UNCHANGED <<device, find, plan, buffers, call>>

OwnArgs(t) == [by |-> t, problem |-> call[t].problem,
               data |-> call[t].api # "GetWorkspaceSize"]

InitArgsMake(t) ==
  /\ pc[t] = "make"
  /\ MakeArgs(call[t].kernel, OwnArgs(t))
  /\ Goto(t, "test")
  /\ UNCHANGED <<device, find, plan, buffers, call>>

\* An unsupported problem: operator() reports INTERNAL_ERROR, which the
\* searches skip and hiptensorContraction returns.
InitArgsTest(t) ==
  /\ pc[t] = "test"
  /\ args[call[t].kernel] # None
  /\ TestArgs(call[t].kernel)
  /\ IF Supports(call[t].kernel, args[call[t].kernel].problem)
     THEN Goto(t, "size") /\ UNCHANGED call
     ELSE IF Searching(t)
     THEN Goto(t, "next") /\ UNCHANGED call
     ELSE Return(t, "INTERNAL_ERROR")
  /\ UNCHANGED <<device, find, plan, buffers>>

\* Mutant: every preference keeps the smaller size.
CombineMin(pref, old, new) == IF old = 0 \/ new < old THEN new ELSE old

\* The first size found replaces 0, whichever it is; afterwards MIN keeps the
\* smaller and every other preference the larger one.
Combine(pref, old, new) ==
  IF old = 0 \/ (pref = "MIN" /\ new < old) \/ (pref # "MIN" /\ new > old)
  THEN new ELSE old

ReadWorkspaceSize(t) ==
  /\ pc[t] = "size"
  /\ call[t].api = "GetWorkspaceSize"
  /\ valid[call[t].kernel] => args[call[t].kernel] # None
  /\ call' = [call EXCEPT ![t].size =
                Combine(call[t].pref, @, WorkspaceSize(call[t].kernel))]
  /\ Goto(t, "next")
  /\ UNCHANGED <<solutionVars, device, find, plan, buffers>>

\* operator(): too little workspace drops the arguments again.  (The error
\* record of hiptensorContraction then asks for workspaceSize() once more, on
\* the dropped object; no state depends on the answer.)
TestWorkspace(t) ==
  /\ pc[t] = "size"
  /\ call[t].api # "GetWorkspaceSize"
  /\ valid[call[t].kernel] => args[call[t].kernel] # None
  /\ IF WorkspaceSize(call[t].kernel) > call[t].size
     THEN /\ ResetInvokerArgs(call[t].kernel)
          /\ IF Searching(t)
             THEN Goto(t, "next") /\ UNCHANGED call
             ELSE Return(t, "INSUFFICIENT_WORKSPACE")
     ELSE /\ Goto(t, "run")
          /\ UNCHANGED <<solutionVars, call>>
  /\ UNCHANGED <<device, find, plan, buffers>>

\* The kernel is launched with the arguments the solution holds now.
Run(t) ==
  /\ pc[t] = "run"
  /\ args[call[t].kernel] # None
  /\ invoker[call[t].kernel]
  /\ Goto(t, "release")
  /\ UNCHANGED <<solutionVars, device, find, plan, buffers, call>>

\* Mutant: the dimensions go with the arguments.
ReleaseAll(t) ==
  /\ pc[t] = "release"
  /\ ResetArgs(call[t].kernel)
  /\ Goto(t, "metrics")
  /\ UNCHANGED <<device, find, plan, buffers, call>>

\* operator() drops the argument object after the launch.
Release(t) ==
  /\ pc[t] = "release"
  /\ ResetInvokerArgs(call[t].kernel)
  /\ Goto(t, "metrics")
  /\ UNCHANGED <<device, find, plan, buffers, call>>

\* The search reads the dimensions back from the solution, computes the speed
\* and keeps a strictly faster kernel.  A kernel that was not timed is skipped.
RankCandidate(t) ==
  /\ pc[t] = "metrics"
  /\ Searching(t)
  /\ \E s \in 0..MaxScore:
       call' = IF s > call[t].score
               THEN [call EXCEPT ![t].best = call[t].kernel, ![t].score = s]
               ELSE call
  /\ Goto(t, "next")
  /\ UNCHANGED <<solutionVars, device, find, plan, buffers>>

\* hiptensorContraction reads them for its performance record.
ContractionDone(t) ==
  /\ pc[t] = "metrics"
  /\ ~Searching(t)
  /\ Return(t, "SUCCESS")
  /\ UNCHANGED <<solutionVars, device, find, plan, buffers>>

\* Buffers that a failing call left allocated are lost to everyone.
CallReturns(t) ==
  /\ pc[t] = "return"
  /\ Goto(t, "idle")
  /\ call' = [call EXCEPT ![t] = NoCall]
  /\ buffers' = [buffers EXCEPT ![t] = 0]
  /\ UNCHANGED <<solutionVars, device, find, plan>>

-----------------------------------------------------------------------------
CallStep(t) ==
  \/ ActorCritic(t) \/ NoAlgorithm(t) \/ BruteForceAlloc(t)
  \/ NextCandidate(t) \/ WorkspaceSizeDone(t) \/ BruteForceFree(t)
  \/ AssignPlan(t)
  \/ InitArgsReset(t) \/ InitArgsMake(t) \/ InitArgsTest(t)
  \/ ReadWorkspaceSize(t) \/ TestWorkspace(t)
  \/ Run(t) \/ Release(t) \/ RankCandidate(t) \/ ContractionDone(t)
  \/ CallReturns(t)

Next ==
  \E t \in Threads:
    \/ SetDevice(t)
    \/ InitContractionFind(t) \/ ContractionGetWorkspaceSize(t)
    \/ InitContractionPlan(t) \/ Contraction(t)
    \/ CallStep(t)

Spec == Init /\ [][Next]_vars

-----------------------------------------------------------------------------
Labels == {"idle", "select", "next", "plan", "reset", "make", "test", "size",
           "run", "release", "metrics", "return"}
Statuses == {"SUCCESS", "ARCH_MISMATCH", "INTERNAL_ERROR", "EXECUTION_FAILED",
             "ALLOC_FAILED", "INSUFFICIENT_WORKSPACE"}
Calls == [api: {"none", "GetWorkspaceSize", "InitPlan", "Contraction"},
          problem: Problems \cup {None}, pref: Preferences, size: Nat,
          todo: SUBSET Kernels, kernel: Kernels \cup {None},
          best: Kernels \cup {None}, score: 0..MaxScore, status: Statuses]
Plans == [kernel: Kernels \cup {None}, problem: Problems \cup {None},
          size: Nat, algo: Algos \cup {"unset"}]

\* The type of every variable.
TypeOK ==
  /\ SolutionTypeOK
  /\ device \in [Threads -> Devices]
  /\ find \in [Threads -> [algo: Algos \cup {"unset"},
                            candidates: SUBSET Kernels]]
  /\ plan \in [Threads -> Plans]
  /\ buffers \in [Threads -> 0..BruteForceBuffers]
  /\ pc \in [Threads -> Labels]
  /\ call \in [Threads -> Calls]

\* The labels of a call that has built the arguments of its kernel and not
\* given them up yet.
HoldsArgs == {"test", "size", "run", "release"}

\* From initArgs to the end of the run a call finds in the shared solution
\* the arguments it built itself: a kernel never runs on the data or the
\* problem of another call, nor on none.
OwnArguments ==
  \A t \in Threads: pc[t] \in HoldsArgs =>
    args[call[t].kernel] = OwnArgs(t) /\ invoker[call[t].kernel]

\* The dimensions read back for the speed of a kernel are those of the call.
OwnMetrics ==
  \A t \in Threads: pc[t] = "metrics" =>
    dims[call[t].kernel] = call[t].problem

\* Between calls no solution keeps argument objects built on data, with the
\* device memory and the pointers to the program's tensors they hold.
ArgumentsReleased ==
  \A k \in Kernels: args[k] # None /\ args[k].data =>
    \E t \in Threads: pc[t] \in HoldsArgs /\ call[t].kernel = k

\* A plan that brute force made for some workspace size runs whenever the
\* contraction is given at least that much, whatever was called in between.
PlanRuns ==
  \A t \in Threads:
    /\ pc[t] = "return" /\ call[t].api = "Contraction"
    /\ plan[t].kernel # None /\ plan[t].algo # "ACTOR_CRITIC"
    /\ call[t].size >= plan[t].size
    => call[t].status \in {"SUCCESS", "ARCH_MISMATCH"}

\* HIPTENSOR_WORKSPACE_MAX: "All algorithms will be available".
MaxCoversAll ==
  \A t \in Threads:
    pc[t] = "return" /\ call[t].api = "GetWorkspaceSize" /\ call[t].pref = "MAX"
    => \A k \in find[t].candidates:
         Supports(k, call[t].problem) => Need(k, call[t].problem) <= call[t].size

\* bruteForceModel gives its device buffers back on every path on which no
\* hipMalloc and no hipFree failed: with a winner, without one, and whichever
\* candidates were skipped.
BuffersFreed ==
  \A t \in Threads:
    pc[t] = "return" /\ call[t].status # "ALLOC_FAILED" => buffers[t] = 0
=============================================================================

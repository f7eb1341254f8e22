------------------------- MODULE ContractionProofs -------------------------
(***************************************************************************)
(* Proofs about ContractionApi.tla: what the contraction calls keep true as  *)
(* long as the program makes one of them at a time.                          *)
(***************************************************************************)
EXTENDS ContractionApi, TLAPS

\* The labels at which a call is at a kernel.
AtKernel == {"reset", "make", "test", "size", "run", "release", "metrics"}

\* The search holds its buffers; a call in which an allocation failed.
Holding(t) == pc[t] \in AtKernel \cup {"next"} /\ call[t].api = "InitPlan"
Failed(t) == pc[t] = "return" /\ call[t].status = "ALLOC_FAILED"

\* What a call knows at each label.
CallShape(t) ==
  /\ pc[t] \in AtKernel => call[t].kernel \in Kernels
  /\ pc[t] \in AtKernel \cup {"select", "next", "plan"} =>
       call[t].problem \in Problems
  /\ pc[t] \in {"select", "plan"} => call[t].api = "InitPlan"
  /\ pc[t] = "next" => Searching(t)
  /\ plan[t].kernel # None => plan[t].problem \in Problems
  /\ Holding(t) => buffers[t] = BruteForceBuffers
  /\ ~Holding(t) /\ ~Failed(t) => buffers[t] = 0

CallInv == \A t \in Threads: CallShape(t)

\* The program's side of the contract.
Exclusive ==
  \A t, u \in Threads: pc[t] # "idle" /\ pc[u] # "idle" => t = u

\* The solution a call is at carries that call's arguments and dimensions.
ArgsShape(t) ==
  /\ pc[t] \in HoldsArgs =>
       /\ args[call[t].kernel] = OwnArgs(t)
       /\ invoker[call[t].kernel]
  /\ pc[t] \in HoldsArgs \cup {"metrics"} =>
       dims[call[t].kernel] = call[t].problem

ArgsInv == \A t \in Threads: ArgsShape(t)

\* A kernel that passed the tests of operator() can solve the problem in the
\* workspace of the call; so can the best one and the one of the plan.
Viable(k, p, w) == Supports(k, p) /\ Need(k, p) <= w

ViableShape(t) ==
  /\ pc[t] \in {"size", "run", "release", "metrics"} =>
       Supports(call[t].kernel, call[t].problem)
  /\ pc[t] = "size" => valid[call[t].kernel]
  /\ pc[t] \in {"run", "release", "metrics"} =>
       /\ call[t].api # "GetWorkspaceSize"
       /\ Need(call[t].kernel, call[t].problem) <= call[t].size
  /\ /\ pc[t] \in AtKernel \cup {"select", "next", "plan"}
     /\ call[t].api = "InitPlan"
     /\ call[t].best # None
     /\ find[t].algo # "ACTOR_CRITIC"
     => Viable(call[t].best, call[t].problem, call[t].size)
  /\ plan[t].kernel # None /\ plan[t].algo # "ACTOR_CRITIC" =>
       Viable(plan[t].kernel, plan[t].problem, plan[t].size)
  /\ pc[t] \in AtKernel \cup {"return"} /\ call[t].api = "Contraction"
     /\ plan[t].kernel # None =>
       /\ call[t].kernel = plan[t].kernel
       /\ call[t].problem = plan[t].problem
       /\ pc[t] # "return" => call[t].status = "SUCCESS"

ViableInv == PlanRuns /\ \A t \in Threads: ViableShape(t)

-----------------------------------------------------------------------------
\* The record of a call, read and updated one field at a time.
LEMMA CallFields ==
  ASSUME NEW r \in Calls
  PROVE  /\ r.problem \in Problems \cup {None}
         /\ r.size \in Nat
         /\ r.todo \in SUBSET Kernels
         /\ r.kernel \in Kernels \cup {None}
         /\ r.best \in Kernels \cup {None}
         /\ r.score \in 0..MaxScore
         /\ r.api \in {"none", "GetWorkspaceSize", "InitPlan", "Contraction"}
BY DEF Calls

LEMMA CallUpdates ==
  ASSUME NEW r \in Calls
  PROVE  /\ \A s \in Statuses: [r EXCEPT !.status = s] \in Calls
         /\ \A n \in Nat: [r EXCEPT !.size = n] \in Calls
         /\ \A k \in Kernels: [r EXCEPT !.best = k] \in Calls
         /\ \A k \in Kernels, todo \in SUBSET Kernels:
              [r EXCEPT !.kernel = k, !.todo = todo] \in Calls
         /\ \A k \in Kernels, s \in 0..MaxScore:
              [r EXCEPT !.best = k, !.score = s] \in Calls
<1>1. ASSUME NEW s \in Statuses PROVE [r EXCEPT !.status = s] \in Calls
  BY DEF Calls
<1>2. ASSUME NEW n \in Nat PROVE [r EXCEPT !.size = n] \in Calls
  BY DEF Calls
<1>3. ASSUME NEW k \in Kernels PROVE [r EXCEPT !.best = k] \in Calls
  BY DEF Calls
<1>4. ASSUME NEW k \in Kernels, NEW todo \in SUBSET Kernels
      PROVE  [r EXCEPT !.kernel = k, !.todo = todo] \in Calls
  BY DEF Calls
<1>5. ASSUME NEW k \in Kernels, NEW s \in 0..MaxScore
      PROVE  [r EXCEPT !.best = k, !.score = s] \in Calls
  BY DEF Calls
<1> QED BY <1>1, <1>2, <1>3, <1>4, <1>5

\* The records the three calls start from.
LEMMA NoCallTyped == NoCall \in Calls
BY ConstantsAssumption DEF NoCall, Calls, Statuses, Preferences

LEMMA SizeCallTyped ==
  ASSUME NEW r \in Calls, NEW p \in Problems, NEW pref \in Preferences,
         NEW todo \in SUBSET Kernels
  PROVE  [r EXCEPT !.api = "GetWorkspaceSize", !.problem = p, !.pref = pref,
                   !.todo = todo] \in Calls
BY DEF Calls

LEMMA PlanCallTyped ==
  ASSUME NEW r \in Calls, NEW p \in Problems, NEW w \in Nat,
         NEW todo \in SUBSET Kernels, NEW s \in Statuses
  PROVE  [r EXCEPT !.api = "InitPlan", !.problem = p, !.size = w,
                   !.todo = todo, !.status = s] \in Calls
BY DEF Calls

LEMMA RunCallTyped ==
  ASSUME NEW r \in Calls, NEW p \in Problems \cup {None}, NEW w \in Nat,
         NEW k \in Kernels \cup {None}, NEW s \in Statuses
  PROVE  [r EXCEPT !.api = "Contraction", !.size = w, !.problem = p,
                   !.kernel = k, !.status = s] \in Calls
BY DEF Calls

\* What hiptensorInitContractionPlan sets out with.
LEMMA PlanCallMade ==
  ASSUME NEW t \in Threads, InitContractionPlan(t)
  PROVE  \E h \in Handles, p \in Problems, w \in WorkspaceSizes:
           call' = [call EXCEPT ![t] =
                      [NoCall EXCEPT !.api = "InitPlan", !.problem = p, !.size = w,
                      !.todo = {k \in find[t].candidates: Matches(k, p)},
                      !.status = DeviceStatus(t, h)]]
BY DEF InitContractionPlan

\* A call that ends keeps a well-formed record, and so does one that goes on.
LEMMA ReturnTyped ==
  ASSUME call \in [Threads -> Calls], NEW t \in Threads, NEW s \in Statuses,
         Return(t, s)
  PROVE  call' \in [Threads -> Calls]
<1>1. [call[t] EXCEPT !.status = s] \in Calls
  BY CallUpdates
<1> QED BY <1>1 DEF Return

\* Types and the shape of a call are kept together: a step relies on the
\* kernel and the problem it finds in its call.
LEMMA TypeStep == TypeOK /\ CallInv /\ [Next]_vars => TypeOK'
<1> SUFFICES ASSUME TypeOK, CallInv, [Next]_vars PROVE TypeOK'
  OBVIOUS
<1> USE ConstantsAssumption
    DEF TypeOK, SolutionTypeOK, CallInv, CallShape, AtKernel, Holding, Failed,
        solutionVars, Labels, Plans, Algos, Preferences, Argument, BruteForceBuffers
<1>1. ASSUME NEW t \in Threads, SetDevice(t) PROVE TypeOK'
  BY <1>1, CallFields DEF SetDevice
<1>2. ASSUME NEW t \in Threads, InitContractionFind(t) PROVE TypeOK'
  BY <1>2, CallFields DEF InitContractionFind, CanCall
<1>3. ASSUME NEW t \in Threads, ContractionGetWorkspaceSize(t) PROVE TypeOK'
  <2>1. call' \in [Threads -> Calls]
    <3>1. PICK p \in Problems, pref \in Preferences:
            call' = [call EXCEPT ![t] =
                      [NoCall EXCEPT !.api = "GetWorkspaceSize", !.problem = p,
                                 !.pref = pref, !.todo = find[t].candidates]]
      BY <1>3 DEF ContractionGetWorkspaceSize
    <3>2. [NoCall EXCEPT !.api = "GetWorkspaceSize", !.problem = p,
             !.pref = pref, !.todo = find[t].candidates] \in Calls
      BY NoCallTyped, SizeCallTyped
    <3> QED BY <3>1, <3>2
  <2> QED BY <1>3, <2>1 DEF ContractionGetWorkspaceSize, CanCall, NoCall, Goto
<1>4. ASSUME NEW t \in Threads, InitContractionPlan(t) PROVE TypeOK'
  <2>1. call' \in [Threads -> Calls]
    <3>1. PICK h \in Handles, p \in Problems, w \in WorkspaceSizes:
            call' = [call EXCEPT ![t] =
                      [NoCall EXCEPT !.api = "InitPlan", !.problem = p, !.size = w,
                      !.todo = {k \in find[t].candidates: Matches(k, p)},
                      !.status = DeviceStatus(t, h)]]
      BY <1>4, PlanCallMade, Zenon
    <3>2. {k \in find[t].candidates: Matches(k, p)} \in SUBSET Kernels
      OBVIOUS
    <3>3. w \in Nat /\ DeviceStatus(t, h) \in Statuses
      BY DEF DeviceStatus, Statuses
    <3>4. [NoCall EXCEPT !.api = "InitPlan", !.problem = p, !.size = w,
             !.todo = {k \in find[t].candidates: Matches(k, p)},
             !.status = DeviceStatus(t, h)] \in Calls
      BY <3>2, <3>3, NoCallTyped, PlanCallTyped
    <3> QED BY <3>1, <3>4
  <2> QED BY <1>4, <2>1 DEF InitContractionPlan, CanCall, NoCall, Goto
<1>5. ASSUME NEW t \in Threads, Contraction(t) PROVE TypeOK'
  <2>1. call' \in [Threads -> Calls]
    <3> DEFINE status(h) == IF plan[t].kernel = None
                            THEN "INTERNAL_ERROR" ELSE DeviceStatus(t, h)
    <3>1. PICK h \in Handles, w \in WorkspaceSizes:
            call' = [call EXCEPT ![t] =
                      [NoCall EXCEPT !.api = "Contraction", !.size = w,
                      !.problem = plan[t].problem, !.kernel = plan[t].kernel,
                      !.status = status(h)]]
      BY <1>5 DEF Contraction
    <3>2. w \in Nat /\ status(h) \in Statuses
      BY DEF DeviceStatus, Statuses
    <3>3. plan[t].problem \in Problems \cup {None} /\ plan[t].kernel \in Kernels \cup {None}
      OBVIOUS
    <3> HIDE DEF status
    <3>4. [NoCall EXCEPT !.api = "Contraction", !.size = w,
             !.problem = plan[t].problem, !.kernel = plan[t].kernel,
             !.status = status(h)] \in Calls
      BY <3>2, <3>3, NoCallTyped, RunCallTyped
    <3> QED BY <3>1, <3>4
  <2> QED BY <1>5, <2>1 DEF Contraction, CanCall, NoCall, Goto
<1>6. ASSUME NEW t \in Threads, ActorCritic(t) PROVE TypeOK'
  <2>1. call' \in [Threads -> Calls]
    <3>1. ASSUME Preferred(call[t].problem) \in call[t].todo
          PROVE  [call[t] EXCEPT !.best = Preferred(call[t].problem)] \in Calls
      BY <3>1, CallFields, CallUpdates
    <3>2. CASE Preferred(call[t].problem) \in call[t].todo
      BY <1>6, <3>1, <3>2 DEF ActorCritic
    <3>3. CASE Preferred(call[t].problem) \notin call[t].todo
      BY <1>6, <3>3, ReturnTyped DEF ActorCritic, Statuses
    <3> QED BY <3>2, <3>3
  <2>2. pc' \in [Threads -> Labels]
    BY <1>6 DEF ActorCritic, Return, Goto
  <2>3. UNCHANGED <<solutionVars, device, find, plan, buffers>>
    BY <1>6 DEF ActorCritic
  <2> QED BY <2>1, <2>2, <2>3
<1>7. ASSUME NEW t \in Threads, NoAlgorithm(t) PROVE TypeOK'
  <2>1. call' \in [Threads -> Calls]
    BY <1>7, ReturnTyped DEF NoAlgorithm, Statuses
  <2>2. call[t] \in Calls
    OBVIOUS
  <2> QED BY <1>7, <2>1, <2>2, CallFields DEF NoAlgorithm, Return, Goto
<1>8. ASSUME NEW t \in Threads, BruteForceAlloc(t) PROVE TypeOK'
  <2>1. call' \in [Threads -> Calls]
    BY <1>8, ReturnTyped DEF BruteForceAlloc, Statuses
  <2>2. call[t] \in Calls
    OBVIOUS
  <2>3. buffers' \in [Threads -> 0..BruteForceBuffers]
    <3>1. PICK n \in 0..BruteForceBuffers:
            buffers' = [buffers EXCEPT ![t] = @ + n]
      BY <1>8 DEF BruteForceAlloc
    <3>2. buffers[t] = 0
      BY <1>8 DEF BruteForceAlloc
    <3> QED BY <3>1, <3>2
  <2>4. pc' \in [Threads -> Labels]
    BY <1>8 DEF BruteForceAlloc, Return, Goto
  <2> QED BY <1>8, <2>1, <2>3, <2>4 DEF BruteForceAlloc
<1>9. ASSUME NEW t \in Threads, NextCandidate(t) PROVE TypeOK'
  <2>1. call' \in [Threads -> Calls]
    <3>1. PICK k \in call[t].todo:
            call' = [call EXCEPT ![t].kernel = k, ![t].todo = @ \ {k}]
      BY <1>9 DEF NextCandidate
    <3>2. [call[t] EXCEPT !.kernel = k, !.todo = call[t].todo \ {k}] \in Calls
      <4>1. k \in Kernels /\ call[t].todo \ {k} \in SUBSET Kernels
        BY CallFields
      <4> QED BY <4>1, CallUpdates
    <3> QED BY <3>1, <3>2
  <2>2. call[t] \in Calls
    OBVIOUS
  <2> QED BY <1>9, <2>1, <2>2, CallFields DEF NextCandidate, Goto
<1>10. ASSUME NEW t \in Threads, WorkspaceSizeDone(t) PROVE TypeOK'
  <2>1. call' \in [Threads -> Calls]
    BY <1>10, ReturnTyped DEF WorkspaceSizeDone, Statuses
  <2>2. call[t] \in Calls
    OBVIOUS
  <2> QED BY <1>10, <2>1, <2>2, CallFields DEF WorkspaceSizeDone, Return, Goto
<1>11. ASSUME NEW t \in Threads, BruteForceFree(t) PROVE TypeOK'
  <2>1. call' \in [Threads -> Calls]
    BY <1>11, ReturnTyped DEF BruteForceFree, Statuses
  <2>2. call[t] \in Calls
    OBVIOUS
  <2>3. buffers' \in [Threads -> 0..BruteForceBuffers]
    <3>1. PICK n \in 0..BruteForceBuffers:
            buffers' = [buffers EXCEPT ![t] = @ - n]
      BY <1>11 DEF BruteForceFree
    <3>2. buffers[t] = BruteForceBuffers
      BY <1>11, <2>2, CallFields DEF BruteForceFree
    <3>3. buffers[t] - n \in 0..BruteForceBuffers
      BY <3>1, <3>2
    <3> QED BY <3>1, <3>3
  <2>4. pc' \in [Threads -> Labels]
    BY <1>11 DEF BruteForceFree, Return, Goto
  <2> QED BY <1>11, <2>1, <2>3, <2>4 DEF BruteForceFree
<1>12. ASSUME NEW t \in Threads, AssignPlan(t) PROVE TypeOK'
  <2>1. call' \in [Threads -> Calls]
    BY <1>12, ReturnTyped DEF AssignPlan, Statuses
  <2>2. call[t] \in Calls
    OBVIOUS
  <2> QED BY <1>12, <2>1, <2>2, CallFields DEF AssignPlan, Return, Goto
<1>13. ASSUME NEW t \in Threads, InitArgsReset(t) PROVE TypeOK'
  BY <1>13, CallFields DEF InitArgsReset, ResetArgs, Goto
<1>14. ASSUME NEW t \in Threads, InitArgsMake(t) PROVE TypeOK'
  BY <1>14, CallFields DEF InitArgsMake, MakeArgs, OwnArgs, Goto
<1>15. ASSUME NEW t \in Threads, InitArgsTest(t) PROVE TypeOK'
  <2>1. call' \in [Threads -> Calls]
    BY <1>15, ReturnTyped DEF InitArgsTest, Statuses
  <2>2. call[t] \in Calls
    OBVIOUS
  <2>3. pc' \in [Threads -> Labels]
    BY <1>15 DEF InitArgsTest, Return, Goto
  <2>4. SolutionTypeOK'
    BY <1>15 DEF InitArgsTest, TestArgs, ResetArgs
  <2> QED BY <1>15, <2>1, <2>3, <2>4 DEF InitArgsTest
<1>16. ASSUME NEW t \in Threads, ReadWorkspaceSize(t) PROVE TypeOK'
  <2>1. call' \in [Threads -> Calls]
    <3>1. call[t].kernel \in Kernels
      BY <1>16, CallFields DEF ReadWorkspaceSize
    <3>2. WorkspaceSize(call[t].kernel) \in Nat
      BY <1>16, <3>1 DEF ReadWorkspaceSize, WorkspaceSize
    <3>3. Combine(call[t].pref, call[t].size, WorkspaceSize(call[t].kernel)) \in Nat
      BY <3>2, CallFields DEF Combine
    <3>4. [call[t] EXCEPT !.size = Combine(call[t].pref, call[t].size,
             WorkspaceSize(call[t].kernel))] \in Calls
      BY <3>3, CallUpdates
    <3> QED BY <1>16, <3>4 DEF ReadWorkspaceSize
  <2>2. call[t] \in Calls
    OBVIOUS
  <2> QED BY <1>16, <2>1, <2>2, CallFields DEF ReadWorkspaceSize, Combine, WorkspaceSize, Goto
<1>17. ASSUME NEW t \in Threads, TestWorkspace(t) PROVE TypeOK'
  <2>1. call' \in [Threads -> Calls]
    BY <1>17, ReturnTyped DEF TestWorkspace, Statuses
  <2>2. call[t] \in Calls
    OBVIOUS
  <2>3. pc' \in [Threads -> Labels]
    BY <1>17 DEF TestWorkspace, Return, Goto
  <2>4. SolutionTypeOK'
    BY <1>17 DEF TestWorkspace, ResetInvokerArgs
  <2> QED BY <1>17, <2>1, <2>3, <2>4 DEF TestWorkspace
<1>18. ASSUME NEW t \in Threads, Run(t) PROVE TypeOK'
  BY <1>18, CallFields DEF Run, Goto
<1>19. ASSUME NEW t \in Threads, Release(t) PROVE TypeOK'
  BY <1>19, CallFields DEF Release, ResetInvokerArgs, Goto
<1>20. ASSUME NEW t \in Threads, RankCandidate(t) PROVE TypeOK'
  <2>1. call' \in [Threads -> Calls]
    <3>1. PICK s \in 0..MaxScore:
            call' = IF s > call[t].score
                    THEN [call EXCEPT ![t].best = call[t].kernel, ![t].score = s]
                    ELSE call
      BY <1>20 DEF RankCandidate
    <3>2. call[t].kernel \in Kernels
      BY <1>20 DEF RankCandidate
    <3>3. [call[t] EXCEPT !.best = call[t].kernel, !.score = s] \in Calls
      BY <3>2, CallUpdates
    <3> QED BY <3>1, <3>3
  <2>2. call[t] \in Calls
    OBVIOUS
  <2> QED BY <1>20, <2>1, <2>2, CallFields DEF RankCandidate, Goto
<1>21. ASSUME NEW t \in Threads, ContractionDone(t) PROVE TypeOK'
  <2>1. call' \in [Threads -> Calls]
    BY <1>21, ReturnTyped DEF ContractionDone, Statuses
  <2>2. call[t] \in Calls
    OBVIOUS
  <2> QED BY <1>21, <2>1, <2>2, CallFields DEF ContractionDone, Return, Goto
<1>22. ASSUME NEW t \in Threads, CallReturns(t) PROVE TypeOK'
  <2>1. call' \in [Threads -> Calls]
    BY <1>22, CallFields DEF CallReturns, NoCall, Goto, Calls, Statuses
  <2> QED BY <1>22, <2>1 DEF CallReturns, NoCall, Goto
<1>23. CASE UNCHANGED vars
  BY <1>23 DEF vars
<1> QED
  BY <1>1, <1>2, <1>3, <1>4, <1>5, <1>6, <1>7, <1>8, <1>9, <1>10, <1>11, <1>12, <1>13, <1>14, <1>15, <1>16, <1>17, <1>18, <1>19, <1>20, <1>21, <1>22, <1>23
  DEF Next, CallStep

LEMMA CallStepInv == TypeOK /\ CallInv /\ [Next]_vars => CallInv'
<1> SUFFICES ASSUME TypeOK, CallInv, [Next]_vars PROVE CallInv'
  OBVIOUS
<1> USE ConstantsAssumption
    DEF TypeOK, SolutionTypeOK, CallInv, CallShape, AtKernel, Holding, Failed, Searching,
        solutionVars, Plans, BruteForceBuffers
<1>1. ASSUME NEW t \in Threads, SetDevice(t) PROVE CallInv'
  BY <1>1, CallFields DEF SetDevice
<1>2. ASSUME NEW t \in Threads, InitContractionFind(t) PROVE CallInv'
  BY <1>2, CallFields DEF InitContractionFind, CanCall
<1>3. ASSUME NEW t \in Threads, ContractionGetWorkspaceSize(t) PROVE CallInv'
  BY <1>3, CallFields DEF ContractionGetWorkspaceSize, CanCall, NoCall, Goto
<1>4. ASSUME NEW t \in Threads, InitContractionPlan(t) PROVE CallInv'
  BY <1>4, CallFields DEF InitContractionPlan, CanCall, NoCall, Goto
<1>5. ASSUME NEW t \in Threads, Contraction(t) PROVE CallInv'
  BY <1>5, CallFields DEF Contraction, CanCall, NoCall, Goto
<1>6. ASSUME NEW t \in Threads, ActorCritic(t) PROVE CallInv'
  <2>1. CASE Preferred(call[t].problem) \in call[t].todo
    <3>1. \A u \in Threads:
            /\ call'[u].api = call[u].api
            /\ call'[u].problem = call[u].problem
            /\ u # t => call'[u] = call[u]
      <4>1. call' = [call EXCEPT ![t].best = Preferred(call[t].problem)]
        BY <1>6, <2>1 DEF ActorCritic
      <4> QED BY <4>1 DEF Calls
    <3>2. pc' = [pc EXCEPT ![t] = "plan"] /\ UNCHANGED <<plan, buffers>>
      BY <1>6, <2>1 DEF ActorCritic, Goto
    <3> QED BY <1>6, <3>1, <3>2 DEF ActorCritic
  <2>2. CASE Preferred(call[t].problem) \notin call[t].todo
    BY <1>6, <2>2 DEF ActorCritic, Return, Goto
  <2> QED BY <2>1, <2>2
<1>7. ASSUME NEW t \in Threads, NoAlgorithm(t) PROVE CallInv'
  BY <1>7, CallFields DEF NoAlgorithm, Return, Goto
<1>8. ASSUME NEW t \in Threads, BruteForceAlloc(t) PROVE CallInv'
  <2>1. /\ pc[t] = "select" /\ buffers[t] = 0 /\ call[t].api = "InitPlan"
        /\ call[t].problem \in Problems /\ UNCHANGED plan
    BY <1>8 DEF BruteForceAlloc
  <2>2. CASE pc' = [pc EXCEPT ![t] = "next"]
    <3>1. UNCHANGED call /\ buffers' = [buffers EXCEPT ![t] = @ + BruteForceBuffers]
      BY <1>8, <2>2 DEF BruteForceAlloc, Return, Goto
    <3> QED BY <2>1, <2>2, <3>1
  <2>3. CASE Return(t, "ALLOC_FAILED")
    <3>1. \A u \in Threads \ {t}: pc'[u] = pc[u] /\ call'[u] = call[u]
                                  /\ buffers'[u] = buffers[u]
      BY <1>8, <2>3 DEF BruteForceAlloc, Return, Goto
    <3>2. pc'[t] = "return" /\ call'[t].status = "ALLOC_FAILED"
      BY <2>3, CallFields DEF Return, Goto, Calls
    <3> QED BY <2>1, <3>1, <3>2
  <2> QED BY <1>8, <2>2, <2>3 DEF BruteForceAlloc, Goto
<1>9. ASSUME NEW t \in Threads, NextCandidate(t) PROVE CallInv'
  BY <1>9, CallFields DEF NextCandidate, Goto
<1>10. ASSUME NEW t \in Threads, WorkspaceSizeDone(t) PROVE CallInv'
  BY <1>10, CallFields DEF WorkspaceSizeDone, Return, Goto
<1>11. ASSUME NEW t \in Threads, BruteForceFree(t) PROVE CallInv'
  <2>1. /\ pc[t] = "next" /\ buffers[t] = BruteForceBuffers
        /\ call[t].api = "InitPlan" /\ call[t].problem \in Problems
        /\ UNCHANGED plan
    BY <1>11 DEF BruteForceFree
  <2>2. \A u \in Threads \ {t}: pc'[u] = pc[u] /\ call'[u] = call[u]
                                /\ buffers'[u] = buffers[u]
    BY <1>11 DEF BruteForceFree, Return, Goto
  <2>3. CASE pc' = [pc EXCEPT ![t] = "plan"]
    <3>1. UNCHANGED call /\ buffers' = [buffers EXCEPT ![t] = @ - BruteForceBuffers]
      BY <1>11, <2>3 DEF BruteForceFree, Return, Goto
    <3> QED BY <2>1, <2>3, <3>1
  <2>4. CASE /\ Return(t, "EXECUTION_FAILED")
             /\ buffers' = [buffers EXCEPT ![t] = @ - BruteForceBuffers]
    <3>1. pc'[t] = "return" /\ buffers'[t] = 0
      BY <2>1, <2>4 DEF Return, Goto
    <3> QED BY <2>1, <2>2, <3>1
  <2>5. CASE Return(t, "ALLOC_FAILED")
    <3>1. pc'[t] = "return" /\ call'[t].status = "ALLOC_FAILED"
      BY <2>5, CallFields DEF Return, Goto, Calls
    <3> QED BY <2>1, <2>2, <3>1
  <2> QED BY <1>11, <2>3, <2>4, <2>5 DEF BruteForceFree, Goto
<1>12. ASSUME NEW t \in Threads, AssignPlan(t) PROVE CallInv'
  BY <1>12, CallFields DEF AssignPlan, Return, Goto
<1>13. ASSUME NEW t \in Threads, InitArgsReset(t) PROVE CallInv'
  BY <1>13, CallFields DEF InitArgsReset, Goto
<1>14. ASSUME NEW t \in Threads, InitArgsMake(t) PROVE CallInv'
  BY <1>14, CallFields DEF InitArgsMake, Goto
<1>15. ASSUME NEW t \in Threads, InitArgsTest(t) PROVE CallInv'
  BY <1>15, CallFields DEF InitArgsTest, Searching, Return, Goto
<1>16. ASSUME NEW t \in Threads, ReadWorkspaceSize(t) PROVE CallInv'
  BY <1>16, CallFields DEF ReadWorkspaceSize, Goto
<1>17. ASSUME NEW t \in Threads, TestWorkspace(t) PROVE CallInv'
  BY <1>17, CallFields DEF TestWorkspace, Searching, Return, Goto
<1>18. ASSUME NEW t \in Threads, Run(t) PROVE CallInv'
  BY <1>18, CallFields DEF Run, Goto
<1>19. ASSUME NEW t \in Threads, Release(t) PROVE CallInv'
  BY <1>19, CallFields DEF Release, Goto
<1>20. ASSUME NEW t \in Threads, RankCandidate(t) PROVE CallInv'
  BY <1>20, CallFields DEF RankCandidate, Goto, Searching
<1>21. ASSUME NEW t \in Threads, ContractionDone(t) PROVE CallInv'
  BY <1>21, CallFields DEF ContractionDone, Return, Goto
<1>22. ASSUME NEW t \in Threads, CallReturns(t) PROVE CallInv'
  BY <1>22, CallFields DEF CallReturns, NoCall, Goto
<1>23. CASE UNCHANGED vars
  BY <1>23 DEF vars
<1> QED
  BY <1>1, <1>2, <1>3, <1>4, <1>5, <1>6, <1>7, <1>8, <1>9, <1>10, <1>11, <1>12, <1>13, <1>14, <1>15, <1>16, <1>17, <1>18, <1>19, <1>20, <1>21, <1>22, <1>23
  DEF Next, CallStep

LEMMA TypeAndShape == Spec => [](TypeOK /\ CallInv)
<1>1. Init => TypeOK /\ CallInv
  <2> SUFFICES ASSUME Init PROVE TypeOK /\ CallInv
    OBVIOUS
  <2>1. TypeOK
    BY ConstantsAssumption, NoCallTyped
    DEF Init, TypeOK, SolutionTypeOK, SolutionInit, NoPlan, Plans, Algos, Labels,
        BruteForceBuffers
  <2>2. CallInv
    BY DEF Init, CallInv, CallShape, Holding, Failed, AtKernel, NoPlan
  <2> QED BY <2>1, <2>2
<1>2. (TypeOK /\ CallInv) /\ [Next]_vars => (TypeOK /\ CallInv)'
  BY TypeStep, CallStepInv
<1> QED BY <1>1, <1>2, PTL DEF Spec

\* Type correctness of the solutions and of every thread's calls, for any
\* number of threads, kernels and problems, serialised or not.
THEOREM ContractionType == Spec => []TypeOK
BY TypeAndShape, PTL

\* bruteForceModel returns without its five device buffers unless a hipMalloc
\* or hipFree failed, however many calls run at the same time.
THEOREM ContractionBuffersFreed == Spec => []BuffersFreed
<1>1. TypeOK /\ CallInv => BuffersFreed
  BY DEF CallInv, CallShape, Holding, Failed, AtKernel, BuffersFreed
<1> QED BY <1>1, TypeAndShape, PTL

-----------------------------------------------------------------------------
LEMMA ExclusiveStep ==
  ASSUME Serialised
  PROVE  TypeOK /\ Exclusive /\ [Next]_vars => Exclusive'
<1> SUFFICES ASSUME TypeOK, Exclusive, [Next]_vars PROVE Exclusive'
  OBVIOUS
<1> USE Serialised DEF TypeOK, Exclusive
<1>1. ASSUME NEW t \in Threads, SetDevice(t) PROVE Exclusive'
  BY <1>1 DEF SetDevice
<1>2. ASSUME NEW t \in Threads, InitContractionFind(t) PROVE Exclusive'
  BY <1>2 DEF InitContractionFind, CanCall
<1>3. ASSUME NEW t \in Threads, ContractionGetWorkspaceSize(t) PROVE Exclusive'
  BY <1>3 DEF ContractionGetWorkspaceSize, CanCall, Goto
<1>4. ASSUME NEW t \in Threads, InitContractionPlan(t) PROVE Exclusive'
  BY <1>4 DEF InitContractionPlan, CanCall, Goto
<1>5. ASSUME NEW t \in Threads, Contraction(t) PROVE Exclusive'
  BY <1>5 DEF Contraction, CanCall, Goto
<1>6. ASSUME NEW t \in Threads, ActorCritic(t) PROVE Exclusive'
  BY <1>6 DEF ActorCritic, Return, Goto
<1>7. ASSUME NEW t \in Threads, NoAlgorithm(t) PROVE Exclusive'
  BY <1>7 DEF NoAlgorithm, Return, Goto
<1>8. ASSUME NEW t \in Threads, BruteForceAlloc(t) PROVE Exclusive'
  BY <1>8 DEF BruteForceAlloc, Return, Goto
<1>9. ASSUME NEW t \in Threads, NextCandidate(t) PROVE Exclusive'
  BY <1>9 DEF NextCandidate, Goto
<1>10. ASSUME NEW t \in Threads, WorkspaceSizeDone(t) PROVE Exclusive'
  BY <1>10 DEF WorkspaceSizeDone, Return, Goto
<1>11. ASSUME NEW t \in Threads, BruteForceFree(t) PROVE Exclusive'
  BY <1>11 DEF BruteForceFree, Return, Goto
<1>12. ASSUME NEW t \in Threads, AssignPlan(t) PROVE Exclusive'
  BY <1>12 DEF AssignPlan, Return, Goto
<1>13. ASSUME NEW t \in Threads, InitArgsReset(t) PROVE Exclusive'
  BY <1>13 DEF InitArgsReset, Goto
<1>14. ASSUME NEW t \in Threads, InitArgsMake(t) PROVE Exclusive'
  BY <1>14 DEF InitArgsMake, Goto
<1>15. ASSUME NEW t \in Threads, InitArgsTest(t) PROVE Exclusive'
  BY <1>15 DEF InitArgsTest, Return, Goto
<1>16. ASSUME NEW t \in Threads, ReadWorkspaceSize(t) PROVE Exclusive'
  BY <1>16 DEF ReadWorkspaceSize, Goto
<1>17. ASSUME NEW t \in Threads, TestWorkspace(t) PROVE Exclusive'
  BY <1>17 DEF TestWorkspace, Return, Goto
<1>18. ASSUME NEW t \in Threads, Run(t) PROVE Exclusive'
  BY <1>18 DEF Run, Goto
<1>19. ASSUME NEW t \in Threads, Release(t) PROVE Exclusive'
  BY <1>19 DEF Release, Goto
<1>20. ASSUME NEW t \in Threads, RankCandidate(t) PROVE Exclusive'
  BY <1>20 DEF RankCandidate, Goto
<1>21. ASSUME NEW t \in Threads, ContractionDone(t) PROVE Exclusive'
  BY <1>21 DEF ContractionDone, Return, Goto
<1>22. ASSUME NEW t \in Threads, CallReturns(t) PROVE Exclusive'
  BY <1>22 DEF CallReturns, Goto
<1>23. CASE UNCHANGED vars
  BY <1>23 DEF vars
<1> QED
  BY <1>1, <1>2, <1>3, <1>4, <1>5, <1>6, <1>7, <1>8, <1>9, <1>10, <1>11, <1>12, <1>13, <1>14, <1>15, <1>16, <1>17, <1>18, <1>19, <1>20, <1>21, <1>22, <1>23
  DEF Next, CallStep

LEMMA ArgsStep ==
  TypeOK /\ CallInv /\ Exclusive /\ ArgsInv /\ [Next]_vars => ArgsInv'
<1> SUFFICES ASSUME TypeOK, CallInv, Exclusive, ArgsInv, [Next]_vars PROVE ArgsInv'
  OBVIOUS
<1> USE ConstantsAssumption
    DEF TypeOK, SolutionTypeOK, CallInv, CallShape, Exclusive, ArgsInv, ArgsShape,
        AtKernel, HoldsArgs, OwnArgs, solutionVars
<1>1. ASSUME NEW t \in Threads, SetDevice(t) PROVE ArgsInv'
  BY <1>1 DEF SetDevice
<1>2. ASSUME NEW t \in Threads, InitContractionFind(t) PROVE ArgsInv'
  BY <1>2 DEF InitContractionFind
<1>3. ASSUME NEW t \in Threads, ContractionGetWorkspaceSize(t) PROVE ArgsInv'
  BY <1>3 DEF ContractionGetWorkspaceSize, Goto
<1>4. ASSUME NEW t \in Threads, InitContractionPlan(t) PROVE ArgsInv'
  BY <1>4 DEF InitContractionPlan, Goto
<1>5. ASSUME NEW t \in Threads, Contraction(t) PROVE ArgsInv'
  BY <1>5 DEF Contraction, Goto
<1>6. ASSUME NEW t \in Threads, ActorCritic(t) PROVE ArgsInv'
  BY <1>6 DEF ActorCritic, Return, Goto
<1>7. ASSUME NEW t \in Threads, NoAlgorithm(t) PROVE ArgsInv'
  BY <1>7 DEF NoAlgorithm, Return, Goto
<1>8. ASSUME NEW t \in Threads, BruteForceAlloc(t) PROVE ArgsInv'
  BY <1>8 DEF BruteForceAlloc, Return, Goto
<1>9. ASSUME NEW t \in Threads, NextCandidate(t) PROVE ArgsInv'
  BY <1>9 DEF NextCandidate, Goto
<1>10. ASSUME NEW t \in Threads, WorkspaceSizeDone(t) PROVE ArgsInv'
  BY <1>10 DEF WorkspaceSizeDone, Return, Goto
<1>11. ASSUME NEW t \in Threads, BruteForceFree(t) PROVE ArgsInv'
  BY <1>11 DEF BruteForceFree, Return, Goto
<1>12. ASSUME NEW t \in Threads, AssignPlan(t) PROVE ArgsInv'
  BY <1>12 DEF AssignPlan, Return, Goto
<1>13. ASSUME NEW t \in Threads, InitArgsReset(t) PROVE ArgsInv'
  BY <1>13, SMTT(20) DEF InitArgsReset, ResetArgs, Goto
<1>14. ASSUME NEW t \in Threads, InitArgsMake(t) PROVE ArgsInv'
  BY <1>14, SMTT(20) DEF InitArgsMake, MakeArgs, Goto
<1>15. ASSUME NEW t \in Threads, InitArgsTest(t) PROVE ArgsInv'
  <2> DEFINE k == call[t].kernel
  <2>1. k \in Kernels /\ \A u \in Threads \ {t}: pc[u] = "idle"
    BY <1>15 DEF InitArgsTest
  <2>2. CASE Supports(k, args[k].problem)
    BY <1>15, <2>2 DEF InitArgsTest, TestArgs, Goto
  <2>3. CASE ~Supports(k, args[k].problem)
    <3>1. pc'[t] \in {"next", "return"}
      BY <1>15, <2>3 DEF InitArgsTest, Return, Goto
    <3>2. \A u \in Threads \ {t}: pc'[u] = "idle"
      BY <1>15, <2>1 DEF InitArgsTest, Return, Goto
    <3>3. \A u \in Threads: pc'[u] \in {"idle", "next", "return"}
      BY <3>1, <3>2
    <3> HIDE DEF k, CallShape
    <3> QED BY <3>3
  <2> QED BY <2>2, <2>3
<1>16. ASSUME NEW t \in Threads, ReadWorkspaceSize(t) PROVE ArgsInv'
  BY <1>16 DEF ReadWorkspaceSize, Goto
<1>17. ASSUME NEW t \in Threads, TestWorkspace(t) PROVE ArgsInv'
  <2> DEFINE k == call[t].kernel
  <2>1. k \in Kernels /\ \A u \in Threads \ {t}: pc[u] = "idle"
    BY <1>17 DEF TestWorkspace
  <2>2. CASE WorkspaceSize(k) > call[t].size
    <3>1. pc'[t] \in {"next", "return"} /\ \A u \in Threads \ {t}: pc'[u] = pc[u]
      BY <1>17, <2>2 DEF TestWorkspace, Return, Goto
    <3>2. \A u \in Threads: pc'[u] \in {"idle", "next", "return"}
      BY <2>1, <3>1
    <3> HIDE DEF k, CallShape
    <3> QED BY <3>2
  <2>3. CASE ~(WorkspaceSize(k) > call[t].size)
    <3>1. /\ pc[t] = "size"
          /\ pc' = [pc EXCEPT ![t] = "run"]
          /\ UNCHANGED <<solutionVars, call>>
      BY <1>17, <2>3 DEF TestWorkspace, Goto
    <3> HIDE DEF k, CallShape, CallInv
    <3> QED BY <3>1
  <2> QED BY <2>2, <2>3
<1>18. ASSUME NEW t \in Threads, Run(t) PROVE ArgsInv'
  BY <1>18 DEF Run, Goto
<1>19. ASSUME NEW t \in Threads, Release(t) PROVE ArgsInv'
  BY <1>19 DEF Release, ResetInvokerArgs, Goto
<1>20. ASSUME NEW t \in Threads, RankCandidate(t) PROVE ArgsInv'
  BY <1>20 DEF RankCandidate, Goto, Searching
<1>21. ASSUME NEW t \in Threads, ContractionDone(t) PROVE ArgsInv'
  BY <1>21 DEF ContractionDone, Return, Goto
<1>22. ASSUME NEW t \in Threads, CallReturns(t) PROVE ArgsInv'
  BY <1>22 DEF CallReturns, Goto
<1>23. CASE UNCHANGED vars
  BY <1>23 DEF vars
<1> QED
  BY <1>1, <1>2, <1>3, <1>4, <1>5, <1>6, <1>7, <1>8, <1>9, <1>10, <1>11, <1>12, <1>13, <1>14, <1>15, <1>16, <1>17, <1>18, <1>19, <1>20, <1>21, <1>22, <1>23
  DEF Next, CallStep

\* A call that drops the argument object of its kernel leaves none behind: the
\* other threads are idle, so no other solution held one on data.
LEMMA DroppedArgs ==
  ASSUME SolutionTypeOK, ArgumentsReleased,
         NEW t \in Threads, \A u \in Threads \ {t}: pc[u] = "idle",
         args' = [args EXCEPT ![call[t].kernel] = None]
  PROVE  ArgumentsReleased'
<1> DEFINE k == call[t].kernel
<1>1. ASSUME NEW j \in Kernels, j # k PROVE ~(args[j] # None /\ args[j].data)
  BY <1>1 DEF ArgumentsReleased, HoldsArgs
<1>2. args' = [j \in Kernels |-> IF j = k THEN None ELSE args[j]]
  BY DEF SolutionTypeOK
<1>3. ASSUME NEW j \in Kernels PROVE ~(args'[j] # None /\ args'[j].data)
  <2> HIDE DEF k
  <2>1. CASE j = k
    BY <1>2, <2>1
  <2>2. CASE j # k
    BY <1>1, <1>2, <2>2
  <2> QED BY <2>1, <2>2
<1> QED BY <1>3 DEF ArgumentsReleased

LEMMA ReleasedStep ==
  TypeOK /\ CallInv /\ Exclusive /\ ArgsInv /\ ArgumentsReleased /\ [Next]_vars
  => ArgumentsReleased'
<1> SUFFICES ASSUME TypeOK, CallInv, Exclusive, ArgsInv, ArgumentsReleased,
                    [Next]_vars
             PROVE  ArgumentsReleased'
  OBVIOUS
<1> USE ConstantsAssumption
    DEF TypeOK, SolutionTypeOK, CallInv, CallShape, Exclusive, ArgsInv, ArgsShape,
        AtKernel, HoldsArgs, OwnArgs, ArgumentsReleased, solutionVars
<1>1. ASSUME NEW t \in Threads, SetDevice(t) PROVE ArgumentsReleased'
  BY <1>1 DEF SetDevice
<1>2. ASSUME NEW t \in Threads, InitContractionFind(t) PROVE ArgumentsReleased'
  BY <1>2 DEF InitContractionFind, CanCall
<1>3. ASSUME NEW t \in Threads, ContractionGetWorkspaceSize(t) PROVE ArgumentsReleased'
  BY <1>3 DEF ContractionGetWorkspaceSize, CanCall, Goto
<1>4. ASSUME NEW t \in Threads, InitContractionPlan(t) PROVE ArgumentsReleased'
  BY <1>4 DEF InitContractionPlan, CanCall, Goto
<1>5. ASSUME NEW t \in Threads, Contraction(t) PROVE ArgumentsReleased'
  BY <1>5 DEF Contraction, CanCall, Goto
<1>6. ASSUME NEW t \in Threads, ActorCritic(t) PROVE ArgumentsReleased'
  BY <1>6 DEF ActorCritic, Return, Goto
<1>7. ASSUME NEW t \in Threads, NoAlgorithm(t) PROVE ArgumentsReleased'
  BY <1>7 DEF NoAlgorithm, Return, Goto
<1>8. ASSUME NEW t \in Threads, BruteForceAlloc(t) PROVE ArgumentsReleased'
  BY <1>8 DEF BruteForceAlloc, Return, Goto
<1>9. ASSUME NEW t \in Threads, NextCandidate(t) PROVE ArgumentsReleased'
  BY <1>9 DEF NextCandidate, Goto
<1>10. ASSUME NEW t \in Threads, WorkspaceSizeDone(t) PROVE ArgumentsReleased'
  BY <1>10 DEF WorkspaceSizeDone, Return, Goto
<1>11. ASSUME NEW t \in Threads, BruteForceFree(t) PROVE ArgumentsReleased'
  BY <1>11 DEF BruteForceFree, Return, Goto
<1>12. ASSUME NEW t \in Threads, AssignPlan(t) PROVE ArgumentsReleased'
  BY <1>12 DEF AssignPlan, Return, Goto
<1>13. ASSUME NEW t \in Threads, InitArgsReset(t) PROVE ArgumentsReleased'
  BY <1>13 DEF InitArgsReset, ResetArgs, Goto
<1>14. ASSUME NEW t \in Threads, InitArgsMake(t) PROVE ArgumentsReleased'
  BY <1>14 DEF InitArgsMake, MakeArgs, Goto
<1>15. ASSUME NEW t \in Threads, InitArgsTest(t) PROVE ArgumentsReleased'
  <2> DEFINE k == call[t].kernel
  <2>1. k \in Kernels /\ \A u \in Threads \ {t}: pc[u] = "idle"
    BY <1>15 DEF InitArgsTest
  <2>2. CASE Supports(k, args[k].problem)
    <3>1. /\ UNCHANGED <<args, call>>
          /\ pc' = [pc EXCEPT ![t] = "size"]
      BY <1>15, <2>2 DEF InitArgsTest, TestArgs, Goto
    <3> QED BY <1>15, <2>1, <3>1 DEF InitArgsTest
  <2>3. CASE ~Supports(k, args[k].problem)
    <3>1. args' = [args EXCEPT ![k] = None]
      BY <1>15, <2>3 DEF InitArgsTest, TestArgs, ResetArgs
    <3> QED BY <2>1, <3>1, DroppedArgs
  <2> QED BY <2>2, <2>3
<1>16. ASSUME NEW t \in Threads, ReadWorkspaceSize(t) PROVE ArgumentsReleased'
  <2> DEFINE k == call[t].kernel
  <2>1. k \in Kernels /\ \A u \in Threads \ {t}: pc[u] = "idle"
    BY <1>16 DEF ReadWorkspaceSize
  <2>2. ~args[k].data
    <3>1. args[k] = OwnArgs(t)
      BY <1>16 DEF ReadWorkspaceSize
    <3>2. ~OwnArgs(t).data
      BY <1>16 DEF ReadWorkspaceSize
    <3> QED BY <3>1, <3>2
  <2>3. ASSUME NEW j \in Kernels PROVE ~(args'[j] # None /\ args'[j].data)
    BY <1>16, <2>1, <2>2 DEF ReadWorkspaceSize
  <2> QED BY <2>3
<1>17. ASSUME NEW t \in Threads, TestWorkspace(t) PROVE ArgumentsReleased'
  <2> DEFINE k == call[t].kernel
  <2>1. k \in Kernels /\ \A u \in Threads \ {t}: pc[u] = "idle"
    BY <1>17 DEF TestWorkspace
  <2>2. CASE WorkspaceSize(k) > call[t].size
    <3>1. args' = [args EXCEPT ![k] = None]
      BY <1>17, <2>2 DEF TestWorkspace, ResetInvokerArgs
    <3> QED BY <2>1, <3>1, DroppedArgs
  <2>3. CASE ~(WorkspaceSize(k) > call[t].size)
    BY <1>17, <2>3 DEF TestWorkspace, Goto
  <2> QED BY <2>2, <2>3
<1>18. ASSUME NEW t \in Threads, Run(t) PROVE ArgumentsReleased'
  BY <1>18 DEF Run, Goto
<1>19. ASSUME NEW t \in Threads, Release(t) PROVE ArgumentsReleased'
  BY <1>19 DEF Release, ResetInvokerArgs, Goto
<1>20. ASSUME NEW t \in Threads, RankCandidate(t) PROVE ArgumentsReleased'
  BY <1>20 DEF RankCandidate, Goto, Searching
<1>21. ASSUME NEW t \in Threads, ContractionDone(t) PROVE ArgumentsReleased'
  BY <1>21 DEF ContractionDone, Return, Goto
<1>22. ASSUME NEW t \in Threads, CallReturns(t) PROVE ArgumentsReleased'
  BY <1>22 DEF CallReturns, Goto
<1>23. CASE UNCHANGED vars
  BY <1>23 DEF vars
<1> QED
  BY <1>1, <1>2, <1>3, <1>4, <1>5, <1>6, <1>7, <1>8, <1>9, <1>10, <1>11, <1>12, <1>13, <1>14, <1>15, <1>16, <1>17, <1>18, <1>19, <1>20, <1>21, <1>22, <1>23
  DEF Next, CallStep

\* A step inside a call only disturbs what is said of its own thread: the
\* others are idle, and an idle thread has nothing but its plan.
LEMMA ViableFrame ==
  ASSUME TypeOK, Exclusive, ViableInv, NEW t \in Threads, pc[t] # "idle",
         \A u \in Threads \ {t}:
           pc'[u] = pc[u] /\ call'[u] = call[u] /\ plan'[u] = plan[u],
         ViableShape(t)',
         pc'[t] = "return" /\ call'[t].api = "Contraction" =>
           \/ call'[t].status \in {"SUCCESS", "ARCH_MISMATCH"}
           \/ plan'[t].kernel = None
           \/ plan'[t].algo = "ACTOR_CRITIC"
           \/ ~(call'[t].size >= plan'[t].size)
  PROVE  ViableInv'
<1>1. \A u \in Threads \ {t}: pc'[u] = "idle" /\ ViableShape(u)
  BY DEF Exclusive, ViableInv
<1>2. \A u \in Threads \ {t}: ViableShape(u)'
  BY <1>1 DEF ViableShape, AtKernel
<1> QED BY <1>1, <1>2 DEF ViableInv, PlanRuns

LEMMA ViableStep ==
  TypeOK /\ CallInv /\ Exclusive /\ ArgsInv /\ ViableInv /\ [Next]_vars
  => ViableInv'
<1> SUFFICES ASSUME TypeOK, CallInv, Exclusive, ArgsInv, ViableInv, [Next]_vars
             PROVE  ViableInv'
  OBVIOUS
<1> USE ConstantsAssumption
    DEF TypeOK, SolutionTypeOK, CallInv, CallShape, Exclusive, ArgsInv, ArgsShape,
        ViableInv, ViableShape, Viable, PlanRuns,
        AtKernel, HoldsArgs, OwnArgs, Searching, solutionVars, Plans
<1>1. ASSUME NEW t \in Threads, SetDevice(t) PROVE ViableInv'
  BY <1>1, CallFields DEF SetDevice
<1>2. ASSUME NEW t \in Threads, InitContractionFind(t) PROVE ViableInv'
  BY <1>2, CallFields DEF InitContractionFind, CanCall
<1>3. ASSUME NEW t \in Threads, ContractionGetWorkspaceSize(t) PROVE ViableInv'
  BY <1>3, CallFields DEF ContractionGetWorkspaceSize, CanCall, NoCall, Goto
<1>4. ASSUME NEW t \in Threads, InitContractionPlan(t) PROVE ViableInv'
  BY <1>4, CallFields DEF InitContractionPlan, CanCall, NoCall, Goto
<1>5. ASSUME NEW t \in Threads, Contraction(t) PROVE ViableInv'
  BY <1>5, CallFields DEF Contraction, CanCall, NoCall, DeviceStatus, OnHandleDevice, Goto
<1>6. ASSUME NEW t \in Threads, ActorCritic(t) PROVE ViableInv'
  <2>1. pc[t] # "idle"
    BY <1>6 DEF ActorCritic
  <2>2. \A u \in Threads \ {t}:
           pc'[u] = pc[u] /\ call'[u] = call[u] /\ plan'[u] = plan[u]
    BY <1>6 DEF ActorCritic, Return, Goto
  <2>3. ViableShape(t)'
    <3>1. call'[t].api = "InitPlan"
      BY <1>6 DEF ActorCritic, Return, Calls
    <3>2. pc'[t] \in {"plan", "return"} /\ UNCHANGED <<find, plan>>
      BY <1>6 DEF ActorCritic, Return, Goto
    <3> QED BY <1>6, <3>1, <3>2 DEF ActorCritic
  <2>4. call'[t].api # "Contraction"
    <3>1. call'[t].api = "InitPlan"
      BY <1>6 DEF ActorCritic, Return, Calls
    <3> QED BY <3>1
  <2> HIDE DEF ViableShape, ViableInv, TypeOK, Exclusive
  <2> QED BY <2>1, <2>2, <2>3, <2>4, ViableFrame
<1>7. ASSUME NEW t \in Threads, NoAlgorithm(t) PROVE ViableInv'
  BY <1>7, CallFields DEF NoAlgorithm, Return, Goto
<1>8. ASSUME NEW t \in Threads, BruteForceAlloc(t) PROVE ViableInv'
  <2>1. pc[t] # "idle"
    BY <1>8 DEF BruteForceAlloc
  <2>2. \A u \in Threads \ {t}:
           pc'[u] = pc[u] /\ call'[u] = call[u] /\ plan'[u] = plan[u]
    BY <1>8 DEF BruteForceAlloc, Return, Goto
  <2>3. ViableShape(t)'
    <3>1. /\ call'[t].api = "InitPlan"
          /\ call'[t].best = call[t].best
          /\ call'[t].problem = call[t].problem
          /\ call'[t].size = call[t].size
      BY <1>8 DEF BruteForceAlloc, Return, Calls
    <3>2. pc'[t] \in {"next", "return"} /\ UNCHANGED <<find, plan>>
      BY <1>8 DEF BruteForceAlloc, Return, Goto
    <3> QED BY <1>8, <3>1, <3>2 DEF BruteForceAlloc
  <2>4. call'[t].api # "Contraction"
    BY <1>8 DEF BruteForceAlloc, Return, Calls
  <2> HIDE DEF ViableShape, ViableInv, TypeOK, Exclusive
  <2> QED BY <2>1, <2>2, <2>3, <2>4, ViableFrame
<1>9. ASSUME NEW t \in Threads, NextCandidate(t) PROVE ViableInv'
  BY <1>9, CallFields DEF NextCandidate, Goto
<1>10. ASSUME NEW t \in Threads, WorkspaceSizeDone(t) PROVE ViableInv'
  BY <1>10, CallFields DEF WorkspaceSizeDone, Return, Goto
<1>11. ASSUME NEW t \in Threads, BruteForceFree(t) PROVE ViableInv'
  <2>1. pc[t] # "idle"
    BY <1>11 DEF BruteForceFree
  <2>2. \A u \in Threads \ {t}:
           pc'[u] = pc[u] /\ call'[u] = call[u] /\ plan'[u] = plan[u]
    BY <1>11 DEF BruteForceFree, Return, Goto
  <2>3. ViableShape(t)'
    <3>1. /\ call'[t].api = "InitPlan"
          /\ call'[t].best = call[t].best
          /\ call'[t].problem = call[t].problem
          /\ call'[t].size = call[t].size
      BY <1>11 DEF BruteForceFree, Return, Calls
    <3>2. pc'[t] \in {"plan", "return"} /\ UNCHANGED <<find, plan>>
      BY <1>11 DEF BruteForceFree, Return, Goto
    <3> QED BY <1>11, <3>1, <3>2 DEF BruteForceFree
  <2>4. call'[t].api # "Contraction"
    BY <1>11 DEF BruteForceFree, Return, Calls
  <2> HIDE DEF ViableShape, ViableInv, TypeOK, Exclusive
  <2> QED BY <2>1, <2>2, <2>3, <2>4, ViableFrame
<1>12. ASSUME NEW t \in Threads, AssignPlan(t) PROVE ViableInv'
  BY <1>12, CallFields DEF AssignPlan, Return, Goto
<1>13. ASSUME NEW t \in Threads, InitArgsReset(t) PROVE ViableInv'
  <2>1. pc[t] # "idle"
    BY <1>13 DEF InitArgsReset
  <2>2. \A u \in Threads \ {t}:
           pc'[u] = pc[u] /\ call'[u] = call[u] /\ plan'[u] = plan[u]
    BY <1>13 DEF InitArgsReset, Goto
  <2>3. ViableShape(t)'
    <3>1. pc'[t] = "make" /\ UNCHANGED <<find, plan, call>>
      BY <1>13 DEF InitArgsReset, Goto
    <3> QED BY <1>13, <3>1 DEF InitArgsReset
  <2>4. pc'[t] # "return"
    BY <1>13 DEF InitArgsReset, Goto
  <2> HIDE DEF ViableShape, ViableInv, TypeOK, Exclusive
  <2> QED BY <2>1, <2>2, <2>3, <2>4, ViableFrame
<1>14. ASSUME NEW t \in Threads, InitArgsMake(t) PROVE ViableInv'
  BY <1>14, CallFields DEF InitArgsMake, MakeArgs, Goto
<1>15. ASSUME NEW t \in Threads, InitArgsTest(t) PROVE ViableInv'
  <2>1. pc[t] # "idle"
    BY <1>15 DEF InitArgsTest
  <2>2. \A u \in Threads \ {t}:
           pc'[u] = pc[u] /\ call'[u] = call[u] /\ plan'[u] = plan[u]
    BY <1>15 DEF InitArgsTest, Return, Goto
  <2> DEFINE k == call[t].kernel
  <2>5. k \in Kernels /\ args[k].problem = call[t].problem
    <3>1. k \in Kernels /\ args[k] = OwnArgs(t)
      BY <1>15 DEF InitArgsTest
    <3>2. OwnArgs(t).problem = call[t].problem
      OBVIOUS
    <3> QED BY <3>1, <3>2
  <2>6. CASE Supports(k, args[k].problem)
    <3>1. /\ UNCHANGED <<find, plan, call>>
          /\ pc'[t] = "size"
          /\ valid'[k]
      BY <1>15, <2>5, <2>6 DEF InitArgsTest, TestArgs, Goto
    <3>3. ViableShape(t)'
      BY <1>15, <2>5, <2>6, <3>1 DEF InitArgsTest
    <3> HIDE DEF ViableShape, ViableInv, TypeOK, Exclusive
    <3> QED BY <2>1, <2>2, <3>1, <3>3, ViableFrame
  <2>7. CASE ~Supports(k, args[k].problem)
    <3>1. /\ call'[t].api = call[t].api
          /\ call'[t].kernel = call[t].kernel
          /\ call'[t].best = call[t].best
          /\ call'[t].problem = call[t].problem
          /\ call'[t].size = call[t].size
      BY <1>15, <2>7 DEF InitArgsTest, Return, Calls
    <3>2. /\ UNCHANGED <<find, plan>>
          /\ pc'[t] = IF Searching(t) THEN "next" ELSE "return"
      BY <1>15, <2>7 DEF InitArgsTest, Return, Goto
    <3>3. call[t].api = "Contraction" => plan[t].algo = "ACTOR_CRITIC" \/ plan[t].kernel = None
      BY <1>15, <2>5, <2>7 DEF InitArgsTest
    <3>4. ViableShape(t)'
      BY <1>15, <3>1, <3>2 DEF InitArgsTest
    <3> HIDE DEF ViableShape, ViableInv, TypeOK, Exclusive
    <3> QED BY <2>1, <2>2, <3>1, <3>2, <3>3, <3>4, ViableFrame
  <2> QED BY <2>6, <2>7
<1>16. ASSUME NEW t \in Threads, ReadWorkspaceSize(t) PROVE ViableInv'
  BY <1>16, CallFields DEF ReadWorkspaceSize, Combine, WorkspaceSize, Goto
<1>17. ASSUME NEW t \in Threads, TestWorkspace(t) PROVE ViableInv'
  <2>1. pc[t] # "idle"
    BY <1>17 DEF TestWorkspace
  <2>2. \A u \in Threads \ {t}:
           pc'[u] = pc[u] /\ call'[u] = call[u] /\ plan'[u] = plan[u]
    BY <1>17 DEF TestWorkspace, Return, Goto
  <2> DEFINE k == call[t].kernel
  <2>5. /\ k \in Kernels /\ args[k].problem = call[t].problem
        /\ Supports(k, call[t].problem)
        /\ WorkspaceSize(k) = Need(k, call[t].problem)
    <3>1. k \in Kernels /\ args[k] = OwnArgs(t) /\ valid[k]
      BY <1>17 DEF TestWorkspace
    <3>2. OwnArgs(t).problem = call[t].problem
      OBVIOUS
    <3> QED BY <1>17, <3>1, <3>2 DEF TestWorkspace, WorkspaceSize
  <2>6. CASE ~(WorkspaceSize(k) > call[t].size)
    <3>1. UNCHANGED <<find, plan, call>> /\ pc'[t] = "run"
      BY <1>17, <2>6 DEF TestWorkspace, Goto
    <3>2. Need(k, call[t].problem) <= call[t].size
      <4>1. Need(k, call[t].problem) \in Nat /\ call[t].size \in Nat
        BY <1>17, <2>5, CallFields DEF TestWorkspace
      <4> QED BY <2>5, <2>6, <4>1
    <3>3. ViableShape(t)'
      BY <1>17, <2>5, <3>1, <3>2 DEF TestWorkspace
    <3> HIDE DEF ViableShape, ViableInv, TypeOK, Exclusive
    <3> QED BY <2>1, <2>2, <3>1, <3>3, ViableFrame
  <2>7. CASE WorkspaceSize(k) > call[t].size
    <3>1. /\ call'[t].api = call[t].api
          /\ call'[t].kernel = call[t].kernel
          /\ call'[t].best = call[t].best
          /\ call'[t].problem = call[t].problem
          /\ call'[t].size = call[t].size
      BY <1>17, <2>7 DEF TestWorkspace, Return, Calls
    <3>2. /\ UNCHANGED <<find, plan>>
          /\ pc'[t] = IF Searching(t) THEN "next" ELSE "return"
      BY <1>17, <2>7 DEF TestWorkspace, Return, Goto
    <3>3. call[t].api = "Contraction" =>
            \/ plan[t].kernel = None
            \/ plan[t].algo = "ACTOR_CRITIC"
            \/ ~(call[t].size >= plan[t].size)
      <4>1. SUFFICES ASSUME call[t].api = "Contraction", plan[t].kernel # None,
                            plan[t].algo # "ACTOR_CRITIC"
                     PROVE  ~(call[t].size >= plan[t].size)
        OBVIOUS
      <4>2. Need(k, call[t].problem) <= plan[t].size
        BY <1>17, <4>1 DEF TestWorkspace
      <4>3. /\ Need(k, call[t].problem) \in Nat
            /\ call[t].size \in Nat
            /\ plan[t].size \in Nat
        BY <1>17, <2>5, CallFields DEF TestWorkspace
      <4> QED BY <2>5, <2>7, <4>2, <4>3
    <3>4. ViableShape(t)'
      BY <1>17, <3>1, <3>2 DEF TestWorkspace
    <3> HIDE DEF ViableShape, ViableInv, TypeOK, Exclusive
    <3> QED BY <2>1, <2>2, <3>1, <3>2, <3>3, <3>4, ViableFrame
  <2> QED BY <2>6, <2>7
<1>18. ASSUME NEW t \in Threads, Run(t) PROVE ViableInv'
  BY <1>18, CallFields DEF Run, Goto
<1>19. ASSUME NEW t \in Threads, Release(t) PROVE ViableInv'
  BY <1>19, CallFields DEF Release, ResetInvokerArgs, Goto
<1>20. ASSUME NEW t \in Threads, RankCandidate(t) PROVE ViableInv'
  BY <1>20, CallFields DEF RankCandidate, Goto
<1>21. ASSUME NEW t \in Threads, ContractionDone(t) PROVE ViableInv'
  BY <1>21, CallFields DEF ContractionDone, Return, Goto
<1>22. ASSUME NEW t \in Threads, CallReturns(t) PROVE ViableInv'
  BY <1>22, CallFields DEF CallReturns, NoCall, Goto
<1>23. CASE UNCHANGED vars
  BY <1>23 DEF vars
<1> QED
  BY <1>1, <1>2, <1>3, <1>4, <1>5, <1>6, <1>7, <1>8, <1>9, <1>10, <1>11, <1>12, <1>13, <1>14, <1>15, <1>16, <1>17, <1>18, <1>19, <1>20, <1>21, <1>22, <1>23
  DEF Next, CallStep

-----------------------------------------------------------------------------
\* The inductive invariant of a program that makes one call at a time.
SerialInv ==
  /\ TypeOK
  /\ CallInv
  /\ Exclusive
  /\ ArgsInv
  /\ ArgumentsReleased
  /\ ViableInv

LEMMA Serial ==
  ASSUME Serialised
  PROVE  Spec => []SerialInv
<1>1. Init => SerialInv
  <2> SUFFICES ASSUME Init PROVE SerialInv
    OBVIOUS
  <2>1. TypeOK
    BY ConstantsAssumption, NoCallTyped
    DEF Init, TypeOK, SolutionTypeOK, SolutionInit, NoPlan, Plans, Algos, Labels,
        BruteForceBuffers
  <2>2. CallInv /\ Exclusive /\ ArgsInv
    BY DEF Init, CallInv, CallShape, Holding, Failed, Exclusive, ArgsInv, ArgsShape,
           HoldsArgs, AtKernel, NoPlan
  <2>3. ArgumentsReleased
    BY DEF Init, SolutionInit, ArgumentsReleased
  <2>4. ViableInv
    BY DEF Init, ViableInv, ViableShape, PlanRuns, AtKernel, NoPlan
  <2> QED BY <2>1, <2>2, <2>3, <2>4 DEF SerialInv
<1>2. SerialInv /\ [Next]_vars => SerialInv'
  BY Serialised, TypeStep, CallStepInv, ExclusiveStep, ArgsStep, ReleasedStep,
     ViableStep
  DEF SerialInv
<1> QED BY <1>1, <1>2, PTL DEF Spec

\* With one call at a time a kernel only ever runs on the arguments its own
\* call built (initArgs to Run in ContractionSolution::operator()).
THEOREM ContractionOwnArguments ==
  ASSUME Serialised
  PROVE  Spec => []OwnArguments
<1>1. SerialInv => OwnArguments
  BY DEF SerialInv, ArgsInv, ArgsShape, OwnArguments
<1> QED BY Serialised, <1>1, Serial, PTL

\* The problem size bruteForceModel and hiptensorContraction read back after
\* a run is the one of their own problem.
THEOREM ContractionOwnMetrics ==
  ASSUME Serialised
  PROVE  Spec => []OwnMetrics
<1>1. SerialInv => OwnMetrics
  BY DEF SerialInv, ArgsInv, ArgsShape, OwnMetrics
<1> QED BY Serialised, <1>1, Serial, PTL

\* No call returns with argument objects on the program's tensors left in a
\* shared solution, on success and on every error path.
THEOREM ContractionArgumentsReleased ==
  ASSUME Serialised
  PROVE  Spec => []ArgumentsReleased
<1>1. SerialInv => ArgumentsReleased
  BY DEF SerialInv
<1> QED BY Serialised, <1>1, Serial, PTL

\* A plan found by brute force keeps running whatever was called since.
THEOREM ContractionPlanRuns ==
  ASSUME Serialised
  PROVE  Spec => []PlanRuns
<1>1. SerialInv => PlanRuns
  BY DEF SerialInv, ViableInv
<1> QED BY Serialised, <1>1, Serial, PTL
-----------------------------------------------------------------------------
\* The workspace size computed so far for HIPTENSOR_WORKSPACE_MAX covers each
\* candidate the loop is past.
Pending(t, k) ==
  \/ pc[t] # "return" /\ k \in call[t].todo
  \/ pc[t] \in AtKernel /\ k = call[t].kernel

Covered(t, k) ==
  Supports(k, call[t].problem) => Need(k, call[t].problem) <= call[t].size

SizeShape(t) ==
  /\ pc[t] \in AtKernel \cup {"next", "return"}
  /\ call[t].api = "GetWorkspaceSize" /\ call[t].pref = "MAX"
  => \A k \in find[t].candidates: Pending(t, k) \/ Covered(t, k)

SizeInv == \A t \in Threads: SizeShape(t)

\* A step of one thread is about that thread's size only.
LEMMA SizeFrame ==
  ASSUME SizeInv, NEW t \in Threads, UNCHANGED find,
         \A u \in Threads \ {t}: pc'[u] = pc[u] /\ call'[u] = call[u],
         SizeShape(t)'
  PROVE  SizeInv'
<1>1. ASSUME NEW u \in Threads \ {t} PROVE SizeShape(u)'
  BY <1>1 DEF SizeInv, SizeShape, Pending, Covered
<1> QED BY <1>1 DEF SizeInv

LEMMA SizeStep ==
  TypeOK /\ CallInv /\ ArgsInv /\ ViableInv /\ SizeInv /\ [Next]_vars => SizeInv'
<1> SUFFICES ASSUME TypeOK, CallInv, ArgsInv, ViableInv, SizeInv, [Next]_vars
             PROVE  SizeInv'
  OBVIOUS
<1> USE ConstantsAssumption
    DEF TypeOK, CallInv, CallShape, SizeInv, SizeShape, Pending, Covered, AtKernel,
        Searching
<1>1. ASSUME NEW t \in Threads, SetDevice(t) PROVE SizeInv'
  BY <1>1, CallFields DEF SetDevice
<1>2. ASSUME NEW t \in Threads, InitContractionFind(t) PROVE SizeInv'
  BY <1>2, CallFields DEF InitContractionFind, CanCall
<1>3. ASSUME NEW t \in Threads, ContractionGetWorkspaceSize(t) PROVE SizeInv'
  BY <1>3, CallFields DEF ContractionGetWorkspaceSize, CanCall, NoCall, Goto
<1>4. ASSUME NEW t \in Threads, InitContractionPlan(t) PROVE SizeInv'
  BY <1>4, CallFields DEF InitContractionPlan, CanCall, NoCall, OnHandleDevice, DeviceStatus, Goto
<1>5. ASSUME NEW t \in Threads, Contraction(t) PROVE SizeInv'
  BY <1>5, CallFields DEF Contraction, CanCall, NoCall, OnHandleDevice, DeviceStatus, Goto
<1>6. ASSUME NEW t \in Threads, ActorCritic(t) PROVE SizeInv'
  <2>1. call[t].api # "GetWorkspaceSize" /\ call'[t].api = call[t].api
    BY <1>6 DEF ActorCritic, Return, Calls
  <2>2. /\ UNCHANGED find
        /\ \A u \in Threads \ {t}: pc'[u] = pc[u] /\ call'[u] = call[u]
    BY <1>6 DEF ActorCritic, Return, Goto
  <2> QED BY <2>1, <2>2, SizeFrame DEF SizeShape
<1>7. ASSUME NEW t \in Threads, NoAlgorithm(t) PROVE SizeInv'
  BY <1>7, CallFields DEF NoAlgorithm, Return, Goto
<1>8. ASSUME NEW t \in Threads, BruteForceAlloc(t) PROVE SizeInv'
  <2>1. call[t].api # "GetWorkspaceSize" /\ call'[t].api = call[t].api
    BY <1>8 DEF BruteForceAlloc, Return, Calls
  <2>2. /\ UNCHANGED find
        /\ \A u \in Threads \ {t}: pc'[u] = pc[u] /\ call'[u] = call[u]
    BY <1>8 DEF BruteForceAlloc, Return, Goto
  <2> QED BY <2>1, <2>2, SizeFrame DEF SizeShape
<1>9. ASSUME NEW t \in Threads, NextCandidate(t) PROVE SizeInv'
  <2>1. PICK k \in call[t].todo:
          call' = [call EXCEPT ![t].kernel = k, ![t].todo = @ \ {k}]
    BY <1>9 DEF NextCandidate
  <2>2. /\ UNCHANGED find
        /\ pc[t] = "next" /\ pc'[t] = "reset"
        /\ \A u \in Threads \ {t}: pc'[u] = pc[u] /\ call'[u] = call[u]
    BY <1>9, <2>1 DEF NextCandidate, Goto
  <2>3. /\ call'[t].todo = call[t].todo \ {k} /\ call'[t].kernel = k
        /\ call'[t].api = call[t].api /\ call'[t].pref = call[t].pref
        /\ call'[t].problem = call[t].problem /\ call'[t].size = call[t].size
    BY <2>1 DEF Calls
  <2>4. SizeShape(t)'
    BY <2>2, <2>3
  <2> HIDE DEF SizeInv, SizeShape
  <2> QED BY <2>2, <2>4, SizeFrame
<1>10. ASSUME NEW t \in Threads, WorkspaceSizeDone(t) PROVE SizeInv'
  BY <1>10, CallFields DEF WorkspaceSizeDone, Return, Goto
<1>11. ASSUME NEW t \in Threads, BruteForceFree(t) PROVE SizeInv'
  <2>1. call[t].api # "GetWorkspaceSize" /\ call'[t].api = call[t].api
    BY <1>11 DEF BruteForceFree, Return, Calls
  <2>2. /\ UNCHANGED find
        /\ \A u \in Threads \ {t}: pc'[u] = pc[u] /\ call'[u] = call[u]
    BY <1>11 DEF BruteForceFree, Return, Goto
  <2> QED BY <2>1, <2>2, SizeFrame DEF SizeShape
<1>12. ASSUME NEW t \in Threads, AssignPlan(t) PROVE SizeInv'
  BY <1>12, CallFields DEF AssignPlan, Return, Goto
<1>13. ASSUME NEW t \in Threads, InitArgsReset(t) PROVE SizeInv'
  BY <1>13, CallFields DEF InitArgsReset, Goto
<1>14. ASSUME NEW t \in Threads, InitArgsMake(t) PROVE SizeInv'
  BY <1>14, CallFields DEF InitArgsMake, Goto
<1>15. ASSUME NEW t \in Threads, InitArgsTest(t) PROVE SizeInv'
  <2>1. /\ pc[t] = "test" /\ UNCHANGED find
        /\ pc'[t] \in {"size", "next", "return"}
        /\ pc'[t] = "return" => call[t].api # "GetWorkspaceSize"
        /\ \A u \in Threads \ {t}: pc'[u] = pc[u] /\ call'[u] = call[u]
    BY <1>15 DEF InitArgsTest, Return, Goto
  <2>2. /\ call'[t].todo = call[t].todo /\ call'[t].kernel = call[t].kernel
        /\ call'[t].api = call[t].api /\ call'[t].pref = call[t].pref
        /\ call'[t].problem = call[t].problem /\ call'[t].size = call[t].size
    BY <1>15 DEF InitArgsTest, Return, Calls
  <2>3. args[call[t].kernel].problem = call[t].problem
    <3>1. args[call[t].kernel] = OwnArgs(t)
      BY <2>1 DEF ArgsInv, ArgsShape, HoldsArgs
    <3>2. OwnArgs(t).problem = call[t].problem
      BY DEF OwnArgs
    <3> QED BY <3>1, <3>2
  <2>4. pc'[t] = "next" => ~Supports(call[t].kernel, call[t].problem)
    BY <1>15, <2>3 DEF InitArgsTest, Return, Goto
  <2>5. SizeShape(t)'
    BY <2>1, <2>2, <2>4
  <2> HIDE DEF SizeInv, SizeShape
  <2> QED BY <2>1, <2>5, SizeFrame
<1>16. ASSUME NEW t \in Threads, ReadWorkspaceSize(t) PROVE SizeInv'
  <2> DEFINE k == call[t].kernel
             size == Combine(call[t].pref, call[t].size, WorkspaceSize(k))
  <2>1. /\ pc[t] = "size" /\ pc'[t] = "next" /\ UNCHANGED find
        /\ \A u \in Threads \ {t}: pc'[u] = pc[u] /\ call'[u] = call[u]
    BY <1>16 DEF ReadWorkspaceSize, Goto
  <2>2. /\ call'[t].todo = call[t].todo
        /\ call'[t].api = call[t].api /\ call'[t].pref = call[t].pref
        /\ call'[t].problem = call[t].problem /\ call'[t].size = size
    BY <1>16 DEF ReadWorkspaceSize, Calls
  <2>3. k \in Kernels /\ WorkspaceSize(k) = Need(k, call[t].problem)
    <3>1. k \in Kernels /\ args[k] = OwnArgs(t) /\ valid[k]
      BY <2>1 DEF ArgsInv, ArgsShape, ViableInv, ViableShape, HoldsArgs
    <3>2. OwnArgs(t).problem = call[t].problem
      BY DEF OwnArgs
    <3> QED BY <3>1, <3>2 DEF WorkspaceSize
  <2>4. call[t].size \in Nat /\ call[t].problem \in Problems
    BY <2>1, CallFields
  <2>5. /\ Need(k, call[t].problem) \in Nat
        /\ \A c \in find[t].candidates: Need(c, call[t].problem) \in Nat
    BY <2>3, <2>4
  <2>6. call[t].pref = "MAX" =>
          /\ size \in Nat
          /\ call[t].size <= size
          /\ Need(k, call[t].problem) <= size
    BY <2>3, <2>4, <2>5 DEF Combine
  <2> HIDE DEF size
  <2>7. SizeShape(t)'
    <3> SUFFICES ASSUME call[t].api = "GetWorkspaceSize", call[t].pref = "MAX",
                        NEW c \in find[t].candidates
                 PROVE  Pending(t, c)' \/ Covered(t, c)'
      BY <2>1, <2>2
    <3>1. CASE c \in call[t].todo
      BY <2>1, <2>2, <3>1
    <3>2. CASE c = k
      BY <2>1, <2>2, <2>6, <3>2
    <3>3. CASE c \notin call[t].todo /\ c # k
      <4>1. Supports(c, call[t].problem) => Need(c, call[t].problem) <= call[t].size
        BY <2>1, <3>3
      <4>2. Need(c, call[t].problem) <= call[t].size =>
              Need(c, call[t].problem) <= size
        BY <2>4, <2>5, <2>6
      <4> QED BY <2>2, <4>1, <4>2
    <3> QED BY <3>1, <3>2, <3>3
  <2> HIDE DEF SizeInv, SizeShape
  <2> QED BY <2>1, <2>7, SizeFrame
<1>17. ASSUME NEW t \in Threads, TestWorkspace(t) PROVE SizeInv'
  <2>1. call[t].api # "GetWorkspaceSize" /\ call'[t].api = call[t].api
    BY <1>17 DEF TestWorkspace, Return, Calls
  <2>2. /\ UNCHANGED find
        /\ \A u \in Threads \ {t}: pc'[u] = pc[u] /\ call'[u] = call[u]
    BY <1>17 DEF TestWorkspace, Return, Goto
  <2> QED BY <2>1, <2>2, SizeFrame DEF SizeShape
<1>18. ASSUME NEW t \in Threads, Run(t) PROVE SizeInv'
  BY <1>18, CallFields DEF Run, Goto
<1>19. ASSUME NEW t \in Threads, Release(t) PROVE SizeInv'
  BY <1>19, CallFields DEF Release, Goto
<1>20. ASSUME NEW t \in Threads, RankCandidate(t) PROVE SizeInv'
  <2>1. call[t].api # "GetWorkspaceSize" /\ call'[t].api = call[t].api
    BY <1>20 DEF RankCandidate, ViableInv, ViableShape, Calls
  <2>2. /\ UNCHANGED find
        /\ \A u \in Threads \ {t}: pc'[u] = pc[u] /\ call'[u] = call[u]
    BY <1>20 DEF RankCandidate, Goto
  <2> QED BY <2>1, <2>2, SizeFrame DEF SizeShape
<1>21. ASSUME NEW t \in Threads, ContractionDone(t) PROVE SizeInv'
  BY <1>21, CallFields DEF ContractionDone, Return, Goto
<1>22. ASSUME NEW t \in Threads, CallReturns(t) PROVE SizeInv'
  BY <1>22, CallFields DEF CallReturns, NoCall, Goto
<1>23. CASE UNCHANGED vars
  BY <1>23 DEF vars
<1> QED
  BY <1>1, <1>2, <1>3, <1>4, <1>5, <1>6, <1>7, <1>8, <1>9, <1>10, <1>11, <1>12, <1>13, <1>14, <1>15, <1>16, <1>17, <1>18, <1>19, <1>20, <1>21, <1>22, <1>23
  DEF Next, CallStep

\* hiptensorContractionGetWorkspaceSize with HIPTENSOR_WORKSPACE_MAX returns
\* enough for every candidate of the find that can run the problem, in
\* whichever order the hash map gives them.
THEOREM ContractionMaxCoversAll ==
  ASSUME Serialised
  PROVE  Spec => []MaxCoversAll
<1>1. Init => SizeInv
  BY DEF Init, SizeInv, SizeShape, AtKernel
<1>2. SerialInv /\ SizeInv /\ [Next]_vars => SizeInv'
  BY SizeStep DEF SerialInv
<1>3. SerialInv /\ SizeInv => MaxCoversAll
  BY DEF SerialInv, TypeOK, SizeInv, SizeShape, Pending, Covered, MaxCoversAll, AtKernel
<1> QED BY <1>1, <1>2, <1>3, Serialised, Serial, PTL DEF Spec
=============================================================================

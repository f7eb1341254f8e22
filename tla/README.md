# hipTensor in TLA+

hipTensor is a C++ library that performs tensor contractions, permutations and
reductions on AMD GPUs.  It does no scheduling of its own: a program makes calls
into it, from as many threads as it likes, and the library looks kernels up,
sets their arguments and launches them.  Two things make it hard to get right.
Almost all of its state is *shared by the whole process and hidden from the
program*: one logger, registries of kernels, and one mutable object per kernel in
which every call stores the arguments of its own problem.  And much of its
knowledge is *lists kept in step by hand*: kernel files, registrations, decision
tables and CPU references that have to agree type by type.

These modules model that state, the calls that change it, the places where two
calls can meet, and those lists.  TLC checks them on small instances, the lists
in full; TLAPS proves every safety property the runs check, the refinements included,
for all instances, some under premises that are named.

- [Inventory of the system](#inventory)
- [The modules and the code](#the-modules-and-the-code)
- [The runs](#the-runs)
- [Fairness and deadlock](#fairness-and-deadlock)
- [Where code and documentation disagree](#where-code-and-documentation-disagree)
- [The proofs](#the-proofs)
- [What is not modelled](#what-is-not-modelled)
- [Plan](#plan)

Paths are relative to `library/src/` unless they start with `library/`.

## Inventory

| component | state | operations | shared with |
|---|---|---|---|
| **Logger** `logger.cpp` | mask, enable flag, stream and whether it is owned, callback, a mutex | set mask, level, stream, file, callback; disable; log a record | every API call of every thread |
| **Contraction API** `contraction/hiptensor_contraction.cpp` | the program's descriptor, find and plan structures | init descriptor, init find, get workspace size, init plan, contract | solutions, selection, handle, logger |
| **Contraction solutions** `contraction/contraction_solution*.{hpp,cpp}` | per kernel: `mValid`, the argument object, the invoker, problem dimensions | `initArgs`, `operator()`, `workspaceSize`, `resetArgs`, `resetInvokerArgs` | all plans and threads, no lock |
| **Kernel selection** `contraction/contraction_selection.cpp` | five device buffers during a search | `bruteForceModel` (run every candidate and rank), `actorCriticModel` (decision tables) | solutions, HIP allocator |
| **Solution registries** `contraction/`, `permutation/`, `reduction/ *_registry.cpp` | solutions by id, and by hashes of their parameters | register, query | filled once per process |
| **Complex contraction kernels** `contraction/device/*_complex.hpp`, `contraction_pack_util.hpp` | device memory of unpacked operands, in the argument object | unpack, four real contractions, combine | the null stream and the caller's stream |
| **Real kernels** `contraction/device/*_instance.cpp` | none | 72 files of template instances | contraction registry |
| **CPU references** `*/*_cpu_reference*` | a registry each | query, loop over the elements | tests |
| **Permutation** `permutation/` | per kernel: argument object, kept after the run | validate, query, `initArgs`, run | all calls, no lock |
| **Reduction** `reduction/` | per kernel: argument object, kept after the run | validate, query, copy C to D, try kernels | all calls, no lock |
| **Handle and device** `handle.cpp`, `hip_device.cpp` | the device current at creation | create, destroy, compare devices | every call |
| **Tensor descriptors** `hiptensor.cpp`, `include/util.hpp` | lengths, strides, type | init with default strides, alignment of a pointer | all descriptors |
| **Lazy singletons** `include/singleton.hpp` | one instance per type | `instance()` | logger, registries, device |

How they interact.  An API call first logs a trace record, then takes its own
checks, then asks a registry (through a find or directly) for candidate
solutions.  It calls `initArgs` on a solution, which stores argument object,
invoker and dimensions *in the solution*, asks the kernel whether it can run
them, and then either reads the workspace size, or tests the workspace and
launches.  Contraction solutions drop the argument object afterwards; permutation
and reduction solutions keep it until the next call.  `bruteForceModel` does this
for every candidate of a plan in turn and ranks them by the time measured.  The
argument object of a complex contraction unpacks its operands as soon as it is
built.  If the call fails it logs an error record.

Which behaviours are hard.

- *Interleaving.*  Two threads in `ContractionSolution::operator()` on one
  kernel; a thread that changes logger settings while another is between the
  mask test and the write of a record.
- *Ordering on the device.*  Work launched on the null stream and on the caller's
  stream, which the device runs later, and memory freed by the host in between.
- *Callbacks.*  The logger runs the program's function with its mutex held.
- *Protocol sequences.*  A plan is made once and run many times, with sizing
  calls, searches and other plans on the same kernels in between.  Sizing leaves
  arguments built on null pointers behind; permutations and reductions leave
  those of the last call.
- *Partial failure.*  A search holds five device buffers and returns from the
  middle of allocating or freeing them; a call leaves an `operator()` that tested
  but did not run; a reduction has copied C to D before a kernel refuses.
- *Stale state.*  The device of a plan against the device current now; dimensions
  read back from a solution after its run; thread dimensions hashed before
  anything set them.
- *Lists that must agree.*  72 kernel files, 18 registrations, 18 decision tables
  and 18 references for contractions; 40 registrations and 40 references for
  permutations; 84 and 84 for reductions.
- *Boundaries.*  Workspace 0 as a size and as "none yet"; strides read past the
  end of a vector; lengths that no vector width divides; the wrap of an odometer;
  full reductions and reductions of nothing.

What would make each component correct.  *Logger:* records are delivered whole,
under one set of settings, to an open stream; disabling is final; files it opened
get closed; the mutex comes back.  *Contraction:* a kernel runs on the arguments
of its own call; a plan runs again as it ran when it was made; no memory stays
behind; the size reported for "all algorithms" covers all of them.  *Mode normalisation:* the loops over the
normalised tensors compute the contraction the program wrote.  *Registries:* a
query returns exactly the solutions asked for, whatever is supported has kernels
for each layout, a table and one reference, and is computed as precisely as asked.
*Complex kernels:* whatever order the device chooses, E is the complex
contraction, and no memory is freed before its last use.  *Permutation, reduction:*
every problem the documentation admits is served, and what is written is what
strides and modes define.

## The modules and the code

| module | models | role |
|---|---|---|
| `AtomicLog` | the promise of the logger | abstract specification |
| `Logger` | `logger.cpp`, the `hiptensorLogger*` functions of `hiptensor.cpp` | implements `AtomicLog` |
| `LoggerProofs` | | theorems |
| `ContractionSolution` | `contraction_solution.cpp`, `contraction_solution_impl.hpp` | state and pieces of one solution |
| `ContractionApi` | `hiptensor_contraction.cpp`, `bruteForceModel` and the actor-critic selection | composes calls and threads over the solutions |
| `ContractionProofs` | | theorems |
| `NormalizeModes` | `normalizeTensorModes`, the dimensions of `initArgs`, the loops of the CPU reference | an algorithm against its meaning |
| `NormalizeModesProofs` | | theorems |
| `KernelCatalogue` | the instance files, factories and registrations of contractions, and of their CPU reference | data |
| `KernelSelection` | the registry, its queries, the actor-critic tables | the catalogue seen by a plan |
| `KernelSelectionProofs` | | theorems |
| `TensorOperation` | the promise of an operation: refuse, or write the result at once | abstract specification |
| `DeviceStreams` | the order HIP keeps between streams | external |
| `ComplexContraction` | `device_contraction_{bilinear,scale}_complex.hpp`, `contraction_pack_util.hpp` | implements `TensorOperation` over `DeviceStreams` |
| `ComplexContractionProofs` | | theorems |
| `TensorLayout` | `hiptensorInitTensorDescriptor`, `util.hpp` | operators |
| `TensorLayoutProofs` | | lemmas about lengths, strides, offsets and coordinates |
| `Permutation` | `permutation/`, with its registrations and reference | implements `TensorOperation` |
| `PermutationProofs` | | theorems |
| `ReductionCatalogue` | the 84 instance files and the reference's registrations | data |
| `Reduction` | `hiptensor_reduction.cpp`, the solutions and registry of reductions | calls over the catalogue |
| `ReductionProofs` | | theorems |
| `MC*` | | instances for TLC |

**Logger.**  `mask`, `enabled`, `stream`, `ownsStream` and `callback` are the
fields of the singleton; `holder` is its mutex while a record is delivered.
Every setter holds the mutex from its first to its last line and calls nothing
that comes back, so it is one step that waits for the mutex (`Working`).
`logMessage` is three steps: test (`LogMessage`), the program's callback
(`CallbackReturns`, or `CallbackCallsLibrary` for one that makes a library call
itself), and the write (`WriteRecord`).  `Requests(t)` is the calls a thread makes.  A thread goes through an API call as
`hiptensor.cpp` does: trace record, work, error record if the work failed,
return.  A program's own `FILE*` is named by the thread that opened it; the
program may close it when it is not lent to the logger (`UserOpen`, `UserClose`).
`Return` hands it back where the documentation says so: after a call that installed
another stream, and also after `hiptensorLoggerSetFile(nullptr)`, which is documented to
revert to stdout and does not; `misled` names the threads that believed it.  `lost`
names the files that an empty file name made the logger forget.  A mask is the set
of its bits.  `PERF_TRACE` stands also for `HEURISTICS_TRACE`, which is tested at one
other place (`contraction_selection.cpp:157`); the level `PERF_HINT`, which no code
reads, text and time stamps are left out.

**ContractionSolution and ContractionApi.**  `valid`, `args`, `invoker` and
`dims` are the fields of the solutions.  An argument object records what
properties can tell apart: which thread's call built it, for which problem, and
whether it holds real pointers.  The steps of a call are the places where
another thread can touch the same solution: `InitArgsReset`, `InitArgsMake` and
`InitArgsTest` are the three parts of `initArgs`; `TestWorkspace`, `Run` and
`Release` the rest of `operator()`; `ReadWorkspaceSize` the sizing loop;
`RankCandidate` and `ContractionDone` what is read back afterwards.  `find`,
`plan` and `device` belong to the thread that uses them.  A handle is the device that was
current when it was made; each call passes any handle and compares its device with
the current one (`OnHandleDevice`, `DeviceStatus`).  A plan keeps no device, so it may be
run through a handle of another one.  The algorithm `DEFAULT` stands for
`DEFAULT_PATIENT` too, which every test treats alike.  `buffers` counts the
device buffers a thread's searches have not freed.  A step that would
dereference a null pointer is not enabled.  A kernel's abilities are the
constants `Matches` (operation and types), `Supports` (what Composable Kernel's
`IsSupportedArgument` answers) and `Need` (its workspace size); the decision
tables are the constant `Preferred`, a kernel per problem.

**NormalizeModes.**  A tensor is a sequence of dimensions with mode, length and
stride.  `Keep` is the loop that walks one tensor and keeps the modes another has;
`NormalA`, `NormalB` and `NormalE` give what `normalizeTensorModes`
stores, `Normalize` applies them to one problem, and `ReferenceRun` runs the loops
of the CPU reference over the result: M and N counted by the lengths of E, K by
those of A, every access through the strides.  The meaning is written
independently of them: `Wanted` is the set of triples of memory offsets that the
program's modes ask to be multiplied and added.  `WellFormed` is what makes the input
a contraction: every mode is in two of the three tensors, with one length of at least 1,
and none is -1, the code's marker of padding.  `Apart` says that no two elements of a
tensor share memory, without which counting offsets would not count elements.

Lengths and strides are `size_t` for the program and 32-bit `ck::index_t` for a kernel
and for the reference; `Index` and `IndexVector` of `TensorLayout` are that conversion
(two's complement, `IndexLimit` = 2^31), made where the code makes it: on the normal
tensors (`toCKVec`), on the strides a table reads, and on the arguments of permutations
and reductions.  Nothing in the library checks that a value survives it.

**KernelCatalogue, KernelSelection.**  One record per instance file holds the
template arguments that the registry, a query or a reader of the result can tell
apart; the several tile sizes of one file are one kernel.  `Registrations` is what
the constructor of `ContractionSolutionInstances` registers, through the factory
that the types select, and `RegisterSolutions` files it batch by batch.  A hash is the tuple of values hashed, so two hashes are
equal only when their values are.  `AddSolutions` files a solution under each of
its keys and `Query` builds a new query from a bucket, as the code does;
`InitPlan` makes the two queries of `hiptensorInitContractionPlan`; `SelectWinner`
takes the branch of `actorCriticModel` for the types (`TableOf`; there may be none), reads the six strides of A
the tables read (`past` is whatever lies behind the vector) and takes the first
test that matches.  An id of a table is the name of the table and of its constant:
whether the 64-bit number is that of a shipped kernel depends on a hash of C++ type
names and is left open.

**ComplexContraction, DeviceStreams.**  The host's steps are those of
`initArgs` and `operator()`; each launches work in the order of the code, and the
device runs any work that has nothing to wait for.  Work waits for earlier work on
its own stream, and the null stream and blocking streams wait for each other;
`hipFree` waits for the whole device, which is what makes it safe for
`resetInvokerArgs` to follow the launches at once.  A tensor is one complex
element: unpacking, combining and the real contractions treat all elements alike.
The program fills its tensors by work of its own on the stream it passes.  Allocations of
the copies succeed, and no operand but C is null.

**Permutation.**  `args` is the arguments each solution holds, from its first call
on; `InitArgs` replaces all of them, and keeps them also when Composable Kernel
refuses.  A tiling of vector width w accepts a problem whose contiguous modes in
A and B are multiples of w.  The strides are those of packed tensors, in the layout of
the build (`ColMajor`, the option `HIPTENSOR_DATA_LAYOUT_COL_MAJOR`, on by default):
the theorems are for both builds, the runs for the default one.  Which candidate is tried first is the order of a hash
map, so any.  Elements written are pairs of offset and value; A holds a different
value everywhere.  `Walk` is the odometer of the CPU reference, turn by turn.

**Reduction.**  `memory` is the program's device buffers, element by element.
`CopyC` and `Try` are the two parts of the call that write; what Composable Kernel
accepts is left open, and what it computes follows from lengths, strides and the
positions of the reduced modes alone: the kept modes of A *in A's order* against
the dimensions of D in D's order.  `DefinedElement` is an element of a reduction;
`ReducesInOrder` states which elements of A it is made of by the order of A's modes, as
the tests lay out their outputs, `ReducesByName` by the names of the modes, as the
documentation does.  A kernel whose measured time is negative ends the call with
`CK_ERROR` after it has run.  `CopyC` is done when it returns: it is a synchronous `hipMemcpy`
on the null stream, and the caller's stream is taken to be a blocking one.

**TensorOperation.**  A call is refused and the output stays, or the output becomes
the result in one step.  `Permutation` and `ComplexContraction` are mapped to it by
the call each thread is in, and by what was written last; for the latter a call
counts as done when its combining kernel has run, which on blocking streams is
before it returns.

## The runs

All pass except those marked *violation*, which find a behaviour that a sentence
of the documentation rules out (see below).

| run | checks | shows |
|---|---|---|
| `logger_delivery` | `TypeOK`, `StreamAlive`, `NoStreamLeak`, `QuietWhenDisabled`, `MutexComesBack`, `ImplementsAtomicLog` | two threads move the stream, change settings, disable and log at the same time; callbacks may call the library; fopen may fail |
| `logger_null_file` | `StreamOpen` | *violation* |
| `contraction_calls` | `TypeOK`, `OwnArguments`, `OwnMetrics`, `PlanRuns`, `MaxCoversAll`, `BuffersFreed`, `ArgumentsReleased` | two threads that take turns, in any order of calls on two shared solutions, with two handles on two devices and failing allocations and frees: nothing is mixed up, plans stay good, sizes suffice, searches clean up |
| `contraction_race` | `OwnArguments` | *violation* |
| `normalize_modes` | `TypeOK`, `SameContraction`, `DimsCountWork` | every order of the modes of the three tensors |
| `kernels` | `TypeOK`, `QueryExact`, `DispatchMeetsRegistry`, `EveryLayoutServed`, `PrecisionKept`, `OneReference`, `RankEntryChosen` | all types a program can describe, all tables, all ranks |
| `complex_streams` | `NoUseAfterFree`, `NothingHeld`, `ResultOnReturn`, `ImplementsOperation` | two complex contractions on the null stream and blocking streams, in every order the device may take |
| `complex_nonblocking` | `ResultOnReturn` | *violation* |
| `permutation` | `TypeOK`, `OwnArguments`, `EveryProblemServed`, `ReferenceAgrees`, `ImplementsOperation`, `CallsReturn` | 2 to 6 modes, all orders of two and three, every operator, calls after one another and by two threads that take turns |
| `permutation_strides` | `DescriptorStrides` | *violation* |
| `reduction` | `TypeOK`, `EveryReductionServed`, `ReferenceCovers`, `ReducesInOrder`, `FailureWritesOnlyC` | every rank, number of reduced modes, type and operator; D's modes in any order, padded, in place; calls after one another |
| `reduction_order` | `ReducesByName` | *violation* |

What the deeper properties say.

- `ImplementsAtomicLog`: a record reaches callback and stream under exactly the
  settings it was tested against.  It is a refinement with the identity as the
  mapping: only `WriteRecord` is an `Emit`, and everything before it is a stutter.
- `QuietWhenDisabled`: when `hiptensorLoggerForceDisable` has run, no thread is
  still delivering, not even one that had passed the test before.
- `StreamAlive`: no combination of the program closing its own stream and the
  logger closing its own leaves the logger on a closed one, unless the program believed
  in a `hiptensorLoggerSetFile(nullptr)`; `StreamOpen` is the same without that exception.
- `MutexComesBack`: whoever holds the mutex can go on by itself, unless it is in a
  callback that called the library, which waits for itself for ever.
- `OwnArguments` (both modules): from `initArgs` to the run, the arguments in the
  shared solution are those of the call that is looking at them.
- `PlanRuns`: a plan made by brute force for a workspace of some size runs
  whenever it is given that much, whatever was called in between.
- `MaxCoversAll`: the running maximum of `hiptensorContractionGetWorkspaceSize`
  is large enough for every kernel that supports the problem, in whatever order
  the hash map hands them out.
- `BuffersFreed`: the search has given its buffers back on every path on which the
  allocator did not fail.
- `CallsReturn` of permutations: every call comes back, also through a search in which
  candidates refuse.
- `SameContraction`: the offsets accessed are the offsets wanted, as sets of triples, while
  lengths and strides fit an index.
- `DimsCountWork`: mM * mN and mM * mN * mK count the elements written and the products,
  while the extents fit an index.
- `QueryExact`: the kernels a plan chooses from are exactly those of its operation,
  types and compute type, through three encodings and two re-filed queries.
- `DispatchMeetsRegistry`, `EveryLayoutServed`, `PrecisionKept`, `OneReference`: the
  hand-written lists agree, have one kernel file for each layout, accumulate as
  wide as the program asked, and are matched by one reference that does the same.
- `RankEntryChosen`: for packed tensors the tables take the entry of the rank, though
  they read strides that do not exist and cut the others to 32 bits, as long as A's strides
  fit.
- `NoUseAfterFree`, `NothingHeld`: the copies of a complex contraction live until
  the last work that names them is done, and no longer than the call.
- `ImplementsOperation` for complex contractions: the four real contractions of
  which two overwrite and two add, with the sign of i squared, combined with alpha
  and beta, are the complex contraction in every order the device may choose.  For
  permutations: whichever tiling runs, after whatever calls.
- `EveryProblemServed`: the scalar tiling is registered wherever it is needed.
- `EveryReductionServed`: a kernel is found and run, or both kernels there are for the
  problem have refused it; for at most 6 modes and an operator of reductions; the run
  also makes calls beyond both, which find no kernel.
- `ReducesInOrder`: what a call leaves in D is the reduction with the dimensions of D
  matched to the modes of A it keeps in A's order, whatever the order of D's modes and
  whatever D's strides, through stale arguments, in place, and with C copied first.
- `FailureWritesOnlyC`: the most a reduction that fails before a kernel ran does is copy
  C to D.

Bounds, and why they are enough.

- *Threads: two.*  All interference is between two calls on one object.  The
  theorems cover any number.
- *File handles: two*, one to have been closed and one to be opened; fopen reuses.  One in
  `logger_null_file`, which opens none.
- *Callbacks, and `Requests`:* each thread has a role that meets the other's at the stream and
  the mutex.  One callback that returns and one that calls the library.
- *Devices and handles of `ContractionApi`: two*, a handle for each; one in `contraction_race`.
- *Kernels and problems of `ContractionApi`: two and up to three*, chosen to differ:
  `small` runs everything and needs no workspace, `large` runs one problem, needs
  some, and is for other types than the third problem.  So there are candidates
  that fail each test, win, and lose.  The kernels shipped today all report a need
  of 0; the code has the paths for more and they are checked.
- *Workspace sizes 0 and 1:* too little and enough.
- *`MaxScore`* 1: not timed, or timed; a later candidate that is no faster does not replace the first.
- *Modes of `NormalizeModes`:* up to two of each kind, five in all, with `MaxM =
  MaxN = MaxK = 2`, so that full and padded tensors occur.  The code has 6 of each
  kind; its loops treat them alike.
- *`IndexLimit`*, 2^31 in the code: 4096 for selections and permutations, 128 for mode
  normalisation, 8 for reductions, above the lengths and strides of ordinary calls; some calls
  (`WideRequests`, `WideProblems`, `WideCalls`) go beyond it, and a stride is cut to 1.
- *Kernels and registrations:* all of them.  *Requests:* the types of A, B, C and D
  may be of two kinds at a time, with every compute type, which decides every
  equality a query tests; for every table A has 1 to 12 modes, packed either way,
  with a mode of length 1 first, in the middle, last or nowhere.
- *Complex contractions: two calls*, so that the second finds what the first left,
  with different operands; C in place of E and not; every way to be refused.  The
  operands have distinct nonzero parts, so that a swapped, lost or doubled product shows in E.
- *Permutations:* the default build (`ColMajor` TRUE); lengths 1 to 8 around the vector widths 4 and 8; every order of two
  and three modes, reversal and rotation of more; ranks 1 and 7 to be refused.
- *Reductions:* up to eight elements, lengths 1 to 3; three calls after one another on
  the same kernels and buffers; every choice of D's modes in A's order; every order of two
  of three modes, with the lengths and strides the tests give them and with those of the
  names; a padded D; seven modes and an operator of no reduction, to find no kernel.
- *Symmetry:* of the file handles in `logger_delivery`, of the threads in `contraction_calls`;
  neither run has liveness properties.

## Fairness and deadlock

`Permutation` assumes weak fairness of the steps of a
call that has been made: the operating system keeps scheduling a thread that can
run, and no step of a permutation waits for another thread.  No fairness is assumed of the
program (it need not call) or of any choice inside a step.  The other modules check safety
only and assume none: `std::mutex`, behind which a thread may be overtaken for ever, would
justify little.

Deadlock is checked except in `logger_delivery` and `normalize_modes`.
In `logger_delivery` a callback that
calls the library waits for the mutex its own thread holds, and everybody waits
behind it: the code does stop there.  (The documentation does not forbid such
callbacks, nor does it promise them.)  `NormalizeModes` computes once and ends.
Modules whose programs are finite end in a step `Terminated`, enabled only when
every call has returned; a host that waits in `hipFree` for work that can never
run would be found as a deadlock.

## Where code and documentation disagree

- `contraction_race`.  Two threads that contract at the same time run on each
  other's arguments (`contraction_solution.cpp:207`).  The repository's rules for
  contributors say to expect multi-threaded programs; the API documentation says
  nothing about threads.  All other contraction runs and theorems about
  arguments therefore assume the program makes one contraction call at a time
  (`Serialised`), and so does the run of permutations, whose solutions have no lock
  either.
- `complex_nonblocking`.  The kernels that unpack and combine the parts run on the
  null stream (`device_contraction_bilinear_complex.hpp:384` and `:547`), though the
  documentation says of the stream argument "HIP stream to perform all operations".
  On a stream made with `hipStreamNonBlocking` E may be combined before it is
  computed.
- `permutation_strides`.  `hiptensorPermutation` takes both tensors as packed in the layout of
  the build, by default with the first mode contiguous (`permutation_solution_impl.hpp:125`), whatever strides the
  descriptors hold; the documentation says the descriptors hold the strides.
  `hiptensorInitTensorDescriptor` itself stores row-major strides by default
  (`hiptensor.cpp:205`), where its documentation announces column-major ones.
- `logger_null_file`.  `hiptensorLoggerSetFile(nullptr)` returns `IO_ERROR` and keeps the
  previous stream (`logger.cpp:69`); the documentation says it "defaults back to stdout"
  (`hiptensor.hpp:314`).  A program that closes the stream it lent leaves the logger writing
  to a closed one.
- `reduction_order`.  `checkReductionInputData` accepts D's modes in any order
  (`hiptensor_reduction.cpp:152`), but a kernel knows only which of A's modes to reduce.  The
  documentation says "modeC[i] corresponds to extent[i] and stride[i]"; with lengths and
  strides given that way in another order than A's, the results end up at other elements.  The
  tests give the lengths and strides in A's order and the modes in theirs.

Noticed while modelling, described here and not run.

- `hiptensorLoggerOpenFile("")` reverts to stdout without closing the file an earlier
  call opened (`logger.cpp:94`); `NoStreamLeak` allows these files (`lost`) and no others.
- Nothing compares the device of a plan with that of the handle it is run through
  (`hiptensor_contraction.cpp:726`); the documentation obliges the program.
- Nothing checks that lengths and strides fit the 32-bit indices of the kernels; a table may
  take a stride of 2^32 + 1 for 1 (`contraction_selection.cpp:226`).
- A reduction copies C to D on the null stream (`hiptensor_reduction.cpp:300`) and runs its
  kernel on the caller's: on a non-blocking stream nothing orders the two, as in
  `complex_nonblocking`.
- A failing `hipMalloc` or `hipFree` in `bruteForceModel` returns with the other
  buffers still allocated (`contraction_selection.cpp:98`), which is why
  `BuffersFreed` excepts `ALLOC_FAILED`.
- The actor-critic selection reports success for a kernel it never asked about the
  problem or the workspace (`contraction_selection.cpp:266`), which is why `PlanRuns`
  is about plans of brute force.  For a column-major A no test of a table may match:
  the id is then 0, which names no kernel.
- A mode called -1 is found at every padded position (`contraction_solution.cpp:137`).
- `normalizeTensorModes` uses the layout of the API's D also for C
  (`contraction_solution.cpp:157`); the documentation requires them to be identical
  and nothing checks it.
- The complex kernels copy and combine as many *contiguous* elements as the lengths
  multiply to, so padded strides leave elements out; and a plan made with a C, run
  with C null, combines parts that were never copied.
- Permutation keys modes by `char`: modes that differ by 256 are one.
- `checkReductionInputData` accepts equally named modes of different lengths, and a
  reduction of no mode passes it but finds no kernel.  With padded strides of C the
  copy to D is of the first elements only.
- The operator called `SQRT` by the API is registered for Composable Kernel's
  `UnarySquare` (`permutation_types_impl.hpp:45`).

## The proofs

Every theorem is for any sets of threads, handles, callbacks, requests, kernels,
problems, devices, calls, buffers, lengths and sizes that satisfy the assumptions of
its module, which TLC evaluates on every run, and the premises named in the table.

| theorem | states | from |
|---|---|---|
| `LoggerType` | `TypeOK` | inductive as it stands |
| `LoggerQuiet` | `QuietWhenDisabled` | `DeliveryInv` |
| `LoggerStreamAlive` | `StreamAlive` | `StreamInv` |
| `LoggerNoLeak` | `NoStreamLeak` | `StreamInv`, inductive on top of it |
| `LoggerMutex` | `MutexComesBack` | `HolderInv` |
| `LoggerAtomic` | `ImplementsAtomicLog` | `DeliveryInv`, one step of `AtomicLog` per action |
| `ContractionType` | `TypeOK` | `CallInv` |
| `ContractionBuffersFreed` | `BuffersFreed` | `CallInv` |
| `ContractionOwnArguments` | `OwnArguments`, given `Serialised` | `SerialInv` |
| `ContractionOwnMetrics` | `OwnMetrics`, given `Serialised` | `SerialInv` |
| `ContractionArgumentsReleased` | `ArgumentsReleased`, given `Serialised` | `SerialInv` |
| `ContractionPlanRuns` | `PlanRuns`, given `Serialised` | `SerialInv` |
| `ContractionMaxCoversAll` | `MaxCoversAll`, given `Serialised` | an invariant of the sizing loop |
| `ComplexNothingHeld` | `NothingHeld` | `HoldInv` |
| `ComplexNoUseAfterFree` | `NoUseAfterFree` | `HoldInv` |
| `ComplexResultOnReturn` | `ResultOnReturn`, given `Blocking` | `ComplexInv` |
| `ComplexImplementsOperation` | `ImplementsOperation`, given `Blocking` | `ComplexInv`, `WrittenInv` |
| `PermutationTypeOK` | `TypeOK` | `TypeInv` |
| `PermutationOwnArguments` | `OwnArguments`, given `Serialised` | `PermutationInv` |
| `PermutationServed` | `EveryProblemServed`, given `Serialised`, `WellFormed` | `ServeInv` |
| `PermutationImplementsOperation` | `ImplementsOperation`, given `Serialised`, `WellFormed`, `SameModes` | `PermutationInv`, `ServeInv`, `MadeInv` |
| `PermutationReferenceAgrees` | `ReferenceAgrees`, given `Serialised`, `WellFormed`, `SameModes` | the turns of the odometer |
| `ReductionTypeOK` | `TypeOK` | `TypeInv` |
| `ReductionReferenceCovers` | `ReferenceCovers` | the catalogue |
| `ReductionServed` | `EveryReductionServed` | `TypeInv`, `ReplyInv` |
| `ReductionFailureWritesOnlyC` | `FailureWritesOnlyC` | `TypeInv` |
| `ReductionInOrder` | `ReducesInOrder` | `TypeInv`, `CopiedInv`, the order of the kept modes |
| `KernelSelectionTypeOK` | `TypeOK` | `SelectionInv` |
| `KernelSelectionQueryExact` | `QueryExact` | `SelectionInv`, the registry |
| `KernelSelectionDispatch` | `DispatchMeetsRegistry` | the catalogue and the tables |
| `KernelSelectionLayouts` | `EveryLayoutServed` | the catalogue |
| `KernelSelectionPrecision` | `PrecisionKept` | the catalogue |
| `KernelSelectionReference` | `OneReference` | both catalogues |
| `KernelSelectionRankEntry` | `RankEntryChosen` | packed strides |
| `NormalTypeOK` | `TypeOK` | `NormalInv` |
| `NormalSameContraction` | `SameContraction` | `NormalInv`, values of modes and turns of loops |
| `NormalDimsCountWork` | `DimsCountWork`, given `Apart` of A and of E | the same, and counting |

*Logger.*  `DeliveryInv` says that a thread between the mask test and the write
holds the mutex, that logging is still enabled, its context still in the mask and
the callback it told still the registered one.  It is inductive because every
setter waits for the mutex.  `StreamInv` says who may close what: the logger's
stream is lent by its owner, belongs to the logger, or is of a program that was misled;
lent and owned streams are open; and a thread whose own `hiptensorLoggerOpenFile` is
returning no longer has its stream in the logger, which is what makes it safe for it to
close that stream.  `HolderInv` is `MutexComesBack` with the one place where a callback
that called the library waits.

*Contraction.*  Type correctness is not inductive alone: a step needs to know that
the call it continues is at a kernel, has a problem, and holds its five buffers.
`CallInv` says so.  `SerialInv` adds that at most one thread is in a call
(`Exclusive`); that the solution that call is at carries its arguments and
dimensions (`ArgsInv`); that nobody else's are left over (`ArgumentsReleased`);
and that a kernel that passed the tests, the best so far, and the kernel of every
brute-force plan can solve their problem in their workspace (`ViableInv`).  The
last is what carries `PlanRuns` from the search to all later runs of the plan.
`ContractionType` and `ContractionBuffersFreed` do not assume `Serialised`.

`ContractionMaxCoversAll` follows from a loop invariant: the running maximum covers
every candidate visited that supports the problem, whoever sized last.

*Complex contraction.*  `HoldInv` is about memory: in each state of the host it says
how many copies exist, and that what the device has still to run names only those.
It needs nothing of the streams, because `hipFree` waits for the whole device.
`OrderInv` is about order: the queue holds the rest of the call's work in the order
of the code, and on streams that wait for the null stream (`Blocking`) only its head
can run.  So the work done is always a prefix of the sequence `Work`, and `DataInv`
gives, for each length of that prefix, what copies and E hold.  The last entry is the
complex contraction, by the arithmetic of real and imaginary parts.  `WrittenInv` ties
the end of the prefix to the state of the host, which gives the refinement: the run of
the combining kernel is the one step that is not a stutter.

*Permutation.*  `PermutationInv` adds to the types that one thread is in the library
and that the kernel it is to run holds the arguments of its call.  `ServeInv` carries
the search: the solutions still to try fit the problem, and the narrowest tiling is among
them until a candidate is accepted.  With the catalogue (`SolutionsRegistered`: every
rank, type, operator and width), with the query (`CandidatesFit`: `mThreadDim`, which
changes after registration, has no part in it) and with the strides (`NarrowestSupported`:
one mode of A, and one of B, is contiguous, the first or the last by the layout of the
build, and width 1 divides anything) the search cannot fail.  `MadeInv` says that the arguments held are those some call made;
then a run writes what the definition gives, and every step is a step of
`TensorOperation` or a stutter.  That the offsets in B, which the code sums over A's
modes, are those the modes of B define is a change of the order of summation.  For the
reference, the n-th turn of the odometer is the element whose coordinates have n as
their rank: a carry is the end of a division by one more length, so it visits every
element once and stops after the last.

*Reduction.*  `InstancesRegistered` compares the 84 files, type by type and rank by rank,
with the set of kernels there should be; the reference's list is compared with the same
set, and `ReferenceCovers` and `SupportedServed` follow for every call.  `TypeInv` says that the
candidates are those tried and those to try; `ReplyInv` that an error reply has refused
them all.  `CopiedInv` says that D begins with the elements of C from the copy until a
kernel runs, whichever refuse in between, so that what is combined is C as it was.
`KeptInOrder` is why a kernel that counts positions can compute what `ReducesInOrder` says: the
modes A keeps, numbered in A's order by `Place`, are as many as D has dimensions.
`WellFormedAgrees` is that the elements of A a kernel then reduces for an element of D are
those of the property, also after the conversion to indices; of D's strides it is only
needed that they keep its elements apart, and no premise stands outside the property.  A
full reduction, whose D has no modes, is the case of one element.

*Kernel selection.*  The lists are finite but the proofs do not enumerate what a program
may ask.  `FactoryFiles` compares the kernel files with what each factory instantiates,
`RegistrationsFiles` the factories with the registrations, and `KernelsRegistered` both
with one table of supported combinations (`Supported`); the rows of the tables of the
actor-critic selection (`BilinearRows` and the others) and the references
(`ReferencesSupported`) are compared with the same table.  So lists of three origins agree
because each agrees with it.  The registry is a loop over registrations: `WellFiled` says
that each solution is filed under exactly its keys, `AddedWellFiled` keeps it, for any
batch, and the answer of a query is well filed again, which is what makes the second
query exact (`QueriesFind`).  `RankEntryChosen` rests on `RowMajorStrides`: the last
stride of a packed row-major tensor is 1, and one before it only if the lengths behind
are 1; with strides that fit, a table reads these numbers and not what is left of them.

*Mode normalisation.*  `NormalInv` says that the normal tensors are those of a problem and
what was accessed is what the loops visit.  Each of them is laid out (`Laid`) as its kept
modes in their places followed by padding, and E follows A and B (`NormalELaid`).  A place
has the name of its mode; the offset of an element is then a sum over names, and places
that pad add nothing since their index is 0 (`SumEmbedded`, `NormalOffset`).  Turns of the
loops and values of the modes correspond one to one (`ElementsMeet`), which gives
`SameContraction`; with the number of values, a product of lengths, it gives
`DimsCountWork`.

*Induction.*  All of the above is about folds over sequences of any length:
products, offsets, coordinates, loops.  `TensorLayoutProofs` gets induction from
well-foundedness, for sets instead of predicates: a set of naturals that has 0 and with
each n its successor contains them all (`NaturalsIn`).  `RecursiveFunction` shows that a
recursive definition over 0..n has a value, which `Products`, `OffsetIsSum` and
`CoordinatesBuilt` apply to the functions of `TensorLayout`.

Premises.  `Serialised` and `Blocking` are where the library needs help from the program:
without them `contraction_race` and `complex_nonblocking` find violations.  `WellFormed` of a
permutation is what the documentation asks of its modes and lengths, and that lengths and
strides fit an index; `SameModes` is that B has the modes of A.  `Apart` asks that different
elements of A, and of E, have different places in memory.  None of them is about the behaviour
of the library.  TLC evaluates them on the instances of the runs (`MCPermutation`,
`MCNormalizeModes`).  What reductions, selections and normalised modes need of a problem,
indices that fit included, is said in the properties themselves, and the runs have problems
on both sides of it.

Only model-checked: `CallsReturn` of permutations, which is liveness.  `OwnArguments` without
`Serialised`, `ResultOnReturn` without `Blocking`, `DescriptorStrides`, `StreamOpen` and
`ReducesByName` do not hold.

## What is not modelled

- Null-pointer checks of API arguments, but for permutation and reduction, where they
  are one way to be refused.
- What Composable Kernel computes and which problems its kernels accept: a library of
  its own.  Its contract is written down where a result depends on it (`KernelWrites`,
  `Reduced`, `DoContract`, marked external) and left open elsewhere.
- Floating point: elements are integers; precision appears as the type of the
  accumulator.
- Overflow of the byte counts that a solution keeps for its performance record: it only
  affects the bandwidth that is reported.  (The narrowing of lengths and strides is modelled.)
- A failing `hipMalloc` of the copies of a complex contraction, and null operands other
  than C.
- The stream of a reduction, and a failing `hipMemcpy`, at which `CHECK_HIP_ERROR` exits the
  process.
- Hash collisions, and the numbers of the actor-critic tables as hashes of C++ types.
- Union and intersection of queries, which nothing calls.
- Error records of contraction calls: `Logger` covers what logging does to the
  logger, and it does nothing to contractions.
- `hiptensorCreate` and `hiptensorDestroy`: one allocation and one free, with no state
  but the device, which `ContractionApi` has.  `hiptensorGetAlignmentRequirement`,
  whose result no code of the library reads.
- `hiptensorReductionGetWorkspaceSize`, which always answers 0.
- Conversions of scalar values, printing, YAML, the test suite.
- The concurrency of two permutations or two reductions: their solutions are shared
  without a lock, and what that leads to is what `contraction_race` shows.
- `Logger::enable()`, which nothing calls.

## Plan

1. Premises of theorems as the code's own checks, where it has them: which of the clauses of
   `WellFormed` of permutations and reductions the validation guarantees.
2. Reductions over `DeviceStreams`: the copy of C and the kernel on streams that do not wait.
3. Liveness steps that are safety in disguise: that a search has fewer candidates left after
   each step.

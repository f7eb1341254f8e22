-------------------------- MODULE ComplexContraction --------------------------
(***************************************************************************)
(* The complex contractions of library/src/contraction/device: CK multiplies  *)
(* real tensors only, so E = alpha A B + beta D is made of four real          *)
(* contractions on copies of the parts.  The copies are unpacked and packed   *)
(* again by kernels of hipTensor's own, launched without a stream.            *)
(*                                                                          *)
(* A tensor is one element, <<re, im>>; the tensors are packed, so that       *)
(* unpacking and packing is element by element.  ContractionSolution's        *)
(* operator() is the host's part, the device runs what is launched.           *)
(*                                                                          *)
(* A hipMalloc or hipFree of the copies that fails ends the program           *)
(* (CHECK_HIP_ERROR exits), so no step follows it.  The calls have operands:   *)
(* hiptensorContractionGetWorkspaceSize, which passes null pointers, copies    *)
(* nothing and launches nothing, and is a call of ContractionApi.tla only.     *)
(***************************************************************************)
EXTENDS DeviceStreams, Integers, FiniteSets

CONSTANTS
  None,
  Host,       \* the program's thread
  Calls,      \* the calls of operator() a program makes
  Programs,   \* what it may call, in order: a set of sequences of Calls
  Garbage     \* what memory that was never written holds

ASSUME ConstantsAssumption ==
  /\ None \notin Calls /\ Programs \subseteq Seq(Calls)
  /\ Garbage \in Int \X Int
  /\ \A c \in Calls: {c.A, c.B, c.D, c.alpha, c.beta} \subseteq Int \X Int
  /\ NullStream \notin NonBlocking

VARIABLES
  tensors,    \* the program's device memory
  arrays,     \* the copies the solution called holds, by tensor: <<real part, imaginary part>>
  program,    \* what is still to be called
  call,       \* the call being made
  pc,         \* "idle", "arguments", "workspace", "run" or "reset"
  status,     \* what the call will return
  output,     \* what a contraction last wrote to E
  reply       \* the last call that returned, its status, and E then

vars == <<queue, tensors, arrays, program, call, pc, status, output, reply>>

-----------------------------------------------------------------------------
\* Complex numbers.
Times(x, y) == <<x[1] * y[1] - x[2] * y[2], x[1] * y[2] + x[2] * y[1]>>
Plus(x, y) == <<x[1] + y[1], x[2] + y[2]>>

Real == 1
Imag == 2

\* D may be E.
Buffer(c, part) == IF part = "D" /\ c.inPlace THEN "E" ELSE part

-----------------------------------------------------------------------------
\* The work launched.

\* The program's own: it fills A, B and D.
Produce(c) == <<[stream |-> c.stream, work |-> "produce", call |-> c]>>

\* A tensor's parts are copied.
Unpack(c, part) == [stream |-> NullStream, work |-> "unpack", part |-> part, from |-> Buffer(c, part)]

\* The real contractions: a part of E is the product of parts of A and B, or
\* more of it is added.
ScaleDecompOp(e, a, b) == [e |-> e, a |-> a, b |-> b, scale |-> 1, onto |-> FALSE]
BilinearDecompOp(e, a, b, alpha) == [e |-> e, a |-> a, b |-> b, scale |-> alpha, onto |-> TRUE]

ScaleArgs == <<ScaleDecompOp(Real, Real, Real), ScaleDecompOp(Imag, Real, Imag)>>

BilinearArgs == <<BilinearDecompOp(Real, Imag, Imag, -1), BilinearDecompOp(Imag, Imag, Real, 1)>>

\* What Argument's constructor copies and prepares.
BilinearComplexArgument(c) ==
  [unpack   |-> <<Unpack(c, "A"), Unpack(c, "B"), Unpack(c, "D"), Unpack(c, "E")>>,
   contract |-> ScaleArgs \o BilinearArgs]
ScaleComplexArgument(c) ==
  [unpack   |-> <<Unpack(c, "A"), Unpack(c, "B"), Unpack(c, "E")>>,
   contract |-> ScaleArgs \o BilinearArgs]

Argument(c) == IF c.kind = "bilinear" THEN BilinearComplexArgument(c) ELSE ScaleComplexArgument(c)

\* The tensors copied.
Parts(c) == LET unpack == Argument(c).unpack IN {unpack[i].part : i \in DOMAIN unpack}

Pack(c, kernel) == [stream |-> NullStream, work |-> kernel, call |-> c]
OnStream(stream, contract) ==
  [i \in DOMAIN contract |-> [stream |-> stream, work |-> "contract", op |-> contract[i]]]

\* Mutant: the products that are added go first.
BilinearComplexRunAddsFirst(c) ==
  OnStream(c.stream, BilinearArgs \o ScaleArgs) \o <<Pack(c, "mfma")>>

\* Run: the four contractions on the caller's stream, the packing on none.
BilinearComplexRun(c) == OnStream(c.stream, Argument(c).contract) \o <<Pack(c, "mfma")>>
ScaleComplexRun(c) == OnStream(c.stream, Argument(c).contract) \o <<Pack(c, "multiply")>>

-----------------------------------------------------------------------------
\* The host.

Init ==
  /\ queue = <<>>
  /\ tensors = [t \in {"A", "B", "D", "E"} |-> Garbage]
  /\ arrays = <<>>
  /\ program \in Programs
  /\ call = None /\ pc = "idle" /\ status = None
  /\ output = None /\ reply = None

\* The program launches what fills its tensors and, without waiting, calls.
Begin ==
  /\ pc = "idle" /\ program # <<>>
  /\ call' = Head(program) /\ program' = Tail(program)
  /\ Launch(Produce(Head(program)))
  /\ pc' = "arguments" /\ status' = None
  /\ UNCHANGED <<tensors, arrays, output, reply>>

\* initArgs: the copies are allocated and unpacked to, then CK says whether it
\* supports all four contractions.
InitArgs ==
  /\ pc = "arguments"
  /\ arrays' = [part \in Parts(call) |-> Garbage]
  /\ Launch(Argument(call).unpack)
  /\ \/ pc' = "workspace" /\ status' = status
     \/ pc' = "reset" /\ status' = "INTERNAL_ERROR"
  /\ UNCHANGED <<tensors, program, call, output, reply>>

CheckWorkspace ==
  /\ pc = "workspace"
  /\ IF call.workspace THEN pc' = "run" /\ status' = status
                       ELSE pc' = "reset" /\ status' = "INSUFFICIENT_WORKSPACE"
  /\ UNCHANGED <<queue, tensors, arrays, program, call, output, reply>>

Run ==
  /\ pc = "run"
  /\ Launch(IF call.kind = "bilinear" THEN BilinearComplexRun(call) ELSE ScaleComplexRun(call))
  /\ pc' = "reset" /\ status' = "SUCCESS"
  /\ UNCHANGED <<tensors, arrays, program, call, output, reply>>

Return ==
  /\ reply' = [call |-> call, status |-> status, e |-> tensors'["E"]]
  /\ pc' = "idle" /\ call' = None

\* Mutant: the copies are given back to the device in stream order.
ResetArgsAtOnce ==
  /\ pc = "reset"
  /\ arrays' = <<>>
  /\ UNCHANGED <<queue, tensors, program, status, output>>
  /\ Return

\* Mutant: a call that does not run leaves its arguments.
ResetArgsWhenRun ==
  /\ pc = "reset" /\ Idle
  /\ arrays' = IF status = "SUCCESS" THEN <<>> ELSE arrays
  /\ UNCHANGED <<queue, tensors, program, status, output>>
  /\ Return

\* resetArgs or resetInvokerArgs: every copy is hipFree'd.
ResetArgs ==
  /\ pc = "reset" /\ Idle
  /\ arrays' = <<>>
  /\ UNCHANGED <<queue, tensors, program, status, output>>
  /\ Return

-----------------------------------------------------------------------------
\* The device.

DoProduce(i) ==
  /\ queue[i].work = "produce"
  /\ tensors' = LET c == queue[i].call IN
       [tensors EXCEPT !["A"] = c.A, !["B"] = c.B, ![Buffer(c, "D")] = c.D]
  /\ UNCHANGED <<arrays, output>>

DoUnpack(i) ==
  /\ queue[i].work = "unpack"
  /\ arrays' = [arrays EXCEPT ![queue[i].part] = tensors[queue[i].from]]
  /\ UNCHANGED <<tensors, output>>

\* A real contraction (CK).
DoContract(i) ==
  /\ queue[i].work = "contract"
  /\ LET op == queue[i].op IN
     arrays' = [arrays EXCEPT !["E"][op.e] =
                  op.scale * arrays["A"][op.a] * arrays["B"][op.b] + (IF op.onto THEN @ ELSE 0)]
  /\ UNCHANGED <<tensors, output>>

WriteE(e) == tensors' = [tensors EXCEPT !["E"] = e] /\ output' = e /\ UNCHANGED arrays

\* Mutant: the sum forgets alpha.
MfmaNoAlpha(i) ==
  /\ queue[i].work = "mfma"
  /\ WriteE(Plus(arrays["E"], Times(queue[i].call.beta, arrays["D"])))

Mfma(i) ==
  /\ queue[i].work = "mfma"
  /\ WriteE(Plus(Times(queue[i].call.alpha, arrays["E"]), Times(queue[i].call.beta, arrays["D"])))

Multiply(i) ==
  /\ queue[i].work = "multiply"
  /\ WriteE(Times(queue[i].call.alpha, arrays["E"]))

Execute ==
  \E i \in 1..Len(queue):
    /\ Ready(i)
    /\ Finish(i)
    /\ DoProduce(i) \/ DoUnpack(i) \/ DoContract(i) \/ Mfma(i) \/ Multiply(i)
    /\ UNCHANGED <<program, call, pc, status, reply>>

HostStep == InitArgs \/ CheckWorkspace \/ Run \/ ResetArgs

\* The program is over.
Terminated == pc = "idle" /\ program = <<>> /\ Idle /\ UNCHANGED vars

Next == Begin \/ HostStep \/ Execute \/ Terminated

Spec == Init /\ [][Next]_vars

-----------------------------------------------------------------------------
\* No work that is still to run names a copy that was freed.
NoUseAfterFree ==
  \A i \in DOMAIN queue:
    CASE queue[i].work = "unpack"   -> queue[i].part \in DOMAIN arrays
      [] queue[i].work = "contract" -> {"A", "B", "E"} \subseteq DOMAIN arrays
      [] queue[i].work = "produce"  -> TRUE
      [] OTHER                      -> Parts(queue[i].call) \subseteq DOMAIN arrays

\* The copies, as large as the tensors, outlive no call, however it ends.
NothingHeld == call = None => arrays = <<>>

\* E = alpha A B + beta D of complex numbers.
Contracted(c) ==
  LET product == Times(c.alpha, Times(c.A, c.B))
  IN IF c.kind = "bilinear" THEN Plus(product, Times(c.beta, c.D)) ELSE product

\* The call has written E, or never will.
Written == pc = "reset" /\ status = "SUCCESS" /\ \A i \in DOMAIN queue: queue[i].work \notin {"mfma", "multiply"}

Operation == INSTANCE TensorOperation WITH
  Threads <- {Host},
  Result  <- Contracted,
  asked   <- [t \in {Host} |-> IF Written THEN None ELSE call]

\* Each call is refused and E stays, or E becomes at once the complex
\* contraction, of the tensors as the program filled them on its stream: the
\* parts are unpacked, combined and packed in an order that gives it.
ImplementsOperation == Operation!Spec

\* "stream HIP stream to perform all operations": when a call has succeeded E
\* is the contraction, whatever stream the program chose.
ResultOnReturn ==
  reply # None /\ reply.status = "SUCCESS" => reply.e = Contracted(reply.call)
=============================================================================

----------------------- MODULE ComplexContractionProofs -----------------------
(***************************************************************************)
(* Proofs about ComplexContraction.tla.  The copies of the parts live as      *)
(* long as the call that made them, whatever its stream; and on a stream that *)
(* waits for the null stream the kernels run in launch order and compute the  *)
(* complex contraction, for all integers.                                    *)
(***************************************************************************)
EXTENDS ComplexContraction, SequenceTheorems, TLAPS

\* Everything a call launches.
RunWork(c) == IF c.kind = "bilinear" THEN BilinearComplexRun(c) ELSE ScaleComplexRun(c)

\* A real contraction as it is launched.
Contract(c, op) == [stream |-> c.stream, work |-> "contract", op |-> op]

Ops == {ScaleDecompOp(Real, Real, Real), ScaleDecompOp(Imag, Real, Imag),
        BilinearDecompOp(Real, Imag, Imag, -1), BilinearDecompOp(Imag, Imag, Real, 1)}

ContractWork(c) == {Contract(c, op) : op \in Ops}

WorkOf(c) ==
  {[stream |-> c.stream, work |-> "produce", call |-> c]}
    \cup {Unpack(c, part) : part \in Parts(c)}
    \cup ContractWork(c)
    \cup {Pack(c, "mfma"), Pack(c, "multiply")}

\* The copies exist from initArgs to the reset, and what is still to run is
\* work of the call being made.
HoldInv ==
  /\ pc \in {"idle", "arguments", "workspace", "run", "reset"}
  /\ program \in Seq(Calls)
  /\ IF pc = "idle" THEN call = None /\ queue = <<>>
                    ELSE call \in Calls /\ queue \in Seq(WorkOf(call))
  /\ pc = "arguments" => \A i \in DOMAIN queue: queue[i].work = "produce"
  /\ IF pc \in {"idle", "arguments"} THEN arrays = <<>>
                                     ELSE DOMAIN arrays = Parts(call)

-----------------------------------------------------------------------------
\* What Argument's constructor of each kernel copies.
LEMMA PartsOf ==
  ASSUME NEW c
  PROVE  Parts(c) = IF c.kind = "bilinear" THEN {"A", "B", "D", "E"} ELSE {"A", "B", "E"}
BY DEF Parts, Argument, BilinearComplexArgument, ScaleComplexArgument, Unpack

LEMMA UnpackWork ==
  ASSUME NEW c
  PROVE  /\ Argument(c).unpack \in Seq(WorkOf(c))
         /\ Argument(c).unpack[1] = Unpack(c, "A")
         /\ Argument(c).unpack[2] = Unpack(c, "B")
         /\ c.kind = "bilinear" =>
              /\ Len(Argument(c).unpack) = 4
              /\ Argument(c).unpack[3] = Unpack(c, "D")
              /\ Argument(c).unpack[4] = Unpack(c, "E")
         /\ c.kind # "bilinear" =>
              Len(Argument(c).unpack) = 3 /\ Argument(c).unpack[3] = Unpack(c, "E")
<1>1. \A part \in Parts(c): Unpack(c, part) \in WorkOf(c)
  BY DEF WorkOf
<1>2. CASE c.kind = "bilinear"
  <2>1. Argument(c).unpack = <<Unpack(c, "A"), Unpack(c, "B"), Unpack(c, "D"), Unpack(c, "E")>>
    BY <1>2 DEF Argument, BilinearComplexArgument
  <2>2. \A part \in {"A", "B", "D", "E"}: Unpack(c, part) \in WorkOf(c)
    BY <1>1, <1>2, PartsOf
  <2> QED BY <1>2, <2>1, <2>2
<1>3. CASE c.kind # "bilinear"
  <2>1. Argument(c).unpack = <<Unpack(c, "A"), Unpack(c, "B"), Unpack(c, "E")>>
    BY <1>3 DEF Argument, ScaleComplexArgument
  <2>2. \A part \in {"A", "B", "E"}: Unpack(c, part) \in WorkOf(c)
    BY <1>1, <1>3, PartsOf
  <2> QED BY <1>3, <2>1, <2>2
<1> QED BY <1>2, <1>3

LEMMA RunWorkShape ==
  ASSUME NEW c
  PROVE  /\ RunWork(c) \in Seq(WorkOf(c))
         /\ Len(RunWork(c)) = 5
         /\ RunWork(c)[1] = Contract(c, ScaleDecompOp(Real, Real, Real))
         /\ RunWork(c)[2] = Contract(c, ScaleDecompOp(Imag, Real, Imag))
         /\ RunWork(c)[3] = Contract(c, BilinearDecompOp(Real, Imag, Imag, -1))
         /\ RunWork(c)[4] = Contract(c, BilinearDecompOp(Imag, Imag, Real, 1))
         /\ RunWork(c)[5] = Pack(c, IF c.kind = "bilinear" THEN "mfma" ELSE "multiply")
<1> DEFINE C1 == ScaleDecompOp(Real, Real, Real)
           C2 == ScaleDecompOp(Imag, Real, Imag)
           C3 == BilinearDecompOp(Real, Imag, Imag, -1)
           C4 == BilinearDecompOp(Imag, Imag, Real, 1)
           contract == Argument(c).contract
           launched == OnStream(c.stream, contract)
           pack == Pack(c, IF c.kind = "bilinear" THEN "mfma" ELSE "multiply")
<1>1. contract = <<C1, C2>> \o <<C3, C4>>
  BY DEF Argument, BilinearComplexArgument, ScaleComplexArgument, ScaleArgs, BilinearArgs
<1>2. RunWork(c) = launched \o <<pack>>
  BY DEF RunWork, BilinearComplexRun, ScaleComplexRun
<1>3. /\ \A op \in {C1, C2, C3, C4}: Contract(c, op) \in WorkOf(c)
      /\ pack \in WorkOf(c)
  <2>1. {C1, C2, C3, C4} = Ops
    BY DEF Ops
  <2>2. pack \in {Pack(c, "mfma"), Pack(c, "multiply")}
    OBVIOUS
  <2> HIDE DEF C1, C2, C3, C4, pack
  <2> QED BY <2>1, <2>2 DEF WorkOf, ContractWork
<1> HIDE DEF C1, C2, C3, C4, contract, pack
<1>4. /\ contract \in Seq({C1, C2, C3, C4})
      /\ Len(contract) = 4
      /\ contract[1] = C1 /\ contract[2] = C2 /\ contract[3] = C3 /\ contract[4] = C4
  <2>1. <<C1, C2>> \in Seq({C1, C2, C3, C4}) /\ <<C3, C4>> \in Seq({C1, C2, C3, C4})
    OBVIOUS
  <2> QED BY <1>1, <2>1, ConcatProperties
<1>5. /\ launched \in Seq(WorkOf(c))
      /\ Len(launched) = 4
      /\ \A i \in 1..4: launched[i] = Contract(c, contract[i])
  <2>1. launched = [i \in 1..4 |-> Contract(c, contract[i])]
    BY <1>4 DEF OnStream, Contract
  <2>2. \A i \in 1..4: Contract(c, contract[i]) \in WorkOf(c)
    BY <1>3, <1>4
  <2> HIDE DEF launched
  <2> QED BY <2>1, <2>2
<1> HIDE DEF launched
<1> DEFINE last == <<pack>>
<1>6. last \in Seq(WorkOf(c)) /\ Len(last) = 1 /\ last[1] = pack
  BY <1>3
<1>7. /\ RunWork(c) \in Seq(WorkOf(c))
      /\ Len(RunWork(c)) = 5
      /\ \A i \in 1..4: RunWork(c)[i] = launched[i]
      /\ RunWork(c)[5] = pack
  <2>1. RunWork(c) = launched \o last
    BY <1>2
  <2> HIDE DEF last
  <2>2. /\ launched \o last \in Seq(WorkOf(c))
        /\ Len(launched \o last) = Len(launched) + Len(last)
        /\ \A i \in 1..Len(launched) + Len(last):
             (launched \o last)[i] = IF i <= Len(launched) THEN launched[i]
                                     ELSE last[i - Len(launched)]
    BY <1>5, <1>6, ConcatProperties
  <2> QED BY <1>5, <1>6, <2>1, <2>2
<1> QED BY <1>4, <1>5, <1>7 DEF C1, C2, C3, C4, pack
LEMMA LaunchSeq ==
  ASSUME NEW S, queue \in Seq(S), NEW work \in Seq(S), Launch(work)
  PROVE  /\ queue' \in Seq(S)
         /\ Len(queue') = Len(queue) + Len(work)
         /\ \A i \in 1..Len(queue) + Len(work):
              queue'[i] = IF i <= Len(queue) THEN queue[i] ELSE work[i - Len(queue)]
BY ConcatProperties DEF Launch

LEMMA FinishSeq ==
  ASSUME NEW S, queue \in Seq(S), NEW i \in 1..Len(queue), Finish(i)
  PROVE  /\ queue' \in Seq(S)
         /\ Len(queue') = Len(queue) - 1
         /\ \A j \in 1..Len(queue) - 1: queue'[j] = queue[IF j < i THEN j ELSE j + 1]
         /\ \A j \in DOMAIN queue': \E k \in DOMAIN queue: queue'[j] = queue[k]
<1>1. /\ queue' \in Seq(S)
      /\ Len(queue') = Len(queue) - 1
      /\ \A j \in 1..Len(queue) - 1: queue'[j] = queue[IF j < i THEN j ELSE j + 1]
  BY DEF Finish
<1>2. ASSUME NEW j \in DOMAIN queue'
      PROVE  \E k \in DOMAIN queue: queue'[j] = queue[k]
  <2>1. j \in 1..Len(queue) - 1 /\ DOMAIN queue = 1..Len(queue) /\ Len(queue) \in Nat
    BY <1>1, <1>2
  <2> DEFINE k == IF j < i THEN j ELSE j + 1
  <2>2. k \in 1..Len(queue) /\ queue'[j] = queue[k]
    BY <1>1, <2>1
  <2> QED BY <2>1, <2>2
<1> QED BY <1>1, <1>2

-----------------------------------------------------------------------------
LEMMA HoldInit == Init => HoldInv
BY ConstantsAssumption DEF Init, HoldInv

LEMMA HoldStep == HoldInv /\ [Next]_vars => HoldInv'
<1> SUFFICES ASSUME HoldInv, [Next]_vars PROVE HoldInv'
  OBVIOUS
<1> USE ConstantsAssumption DEF HoldInv
<1>1. CASE Begin
  <2>1. /\ call' \in Calls /\ program' \in Seq(Calls)
        /\ pc' = "arguments" /\ arrays' = <<>>
    BY <1>1, HeadTailProperties DEF Begin
  <2> DEFINE item == [stream |-> call'.stream, work |-> "produce", call |-> call']
  <2>2. queue' = <<>> \o <<item>>
    BY <1>1 DEF Begin, Launch, Produce
  <2>3. queue' = <<item>>
    <3> HIDE DEF item
    <3>1. <<item>> \in Seq({item})
      OBVIOUS
    <3> QED BY <2>2, <3>1, ConcatEmptySeq
  <2>4. item \in WorkOf(call') /\ item.work = "produce"
    BY DEF WorkOf
  <2> HIDE DEF item
  <2> QED BY <2>1, <2>3, <2>4
<1>2. CASE InitArgs
  <2>1. /\ pc' \in {"workspace", "reset"} /\ UNCHANGED <<call, program>>
        /\ call \in Calls /\ queue \in Seq(WorkOf(call))
        /\ DOMAIN arrays' = Parts(call)
    BY <1>2 DEF InitArgs
  <2>2. queue' \in Seq(WorkOf(call))
    BY <1>2, <2>1, UnpackWork, LaunchSeq DEF InitArgs
  <2> QED BY <2>1, <2>2
<1>3. CASE CheckWorkspace
  BY <1>3 DEF CheckWorkspace
<1>4. CASE Run
  <2>1. /\ pc = "run" /\ pc' = "reset" /\ UNCHANGED <<call, program, arrays>>
        /\ call \in Calls /\ queue \in Seq(WorkOf(call))
        /\ DOMAIN arrays = Parts(call)
    BY <1>4 DEF Run
  <2>2. queue' \in Seq(WorkOf(call))
    <3>1. Launch(RunWork(call)) /\ RunWork(call) \in Seq(WorkOf(call))
      BY <1>4, RunWorkShape DEF Run, RunWork
    <3> QED BY <2>1, <3>1, LaunchSeq
  <2> QED BY <2>1, <2>2
<1>5. CASE ResetArgs
  BY <1>5 DEF ResetArgs, Return, Idle
<1>6. CASE Execute
  <2>1. PICK i \in 1..Len(queue):
          /\ Finish(i)
          /\ DoProduce(i) \/ DoUnpack(i) \/ DoContract(i) \/ Mfma(i) \/ Multiply(i)
          /\ UNCHANGED <<program, call, pc, status, reply>>
    BY <1>6 DEF Execute
  <2>2. pc # "idle" /\ queue \in Seq(WorkOf(call))
    <3>1. queue # <<>>
      BY <2>1
    <3> QED BY <3>1
  <2>3. queue' \in Seq(WorkOf(call)) /\ Len(queue') = Len(queue) - 1
    BY <2>1, <2>2, FinishSeq
  <2>4. \A j \in DOMAIN queue': \E k \in DOMAIN queue: queue'[j] = queue[k]
    BY <2>1, <2>2, FinishSeq
  <2>5. pc = "arguments" => UNCHANGED arrays
    BY <2>1, <2>2 DEF DoProduce, DoUnpack, DoContract, Mfma, Multiply
  <2>6. DOMAIN arrays' = DOMAIN arrays
    BY <2>1 DEF DoProduce, DoUnpack, DoContract, Mfma, Multiply, WriteE
  <2>7. pc = "arguments" => \A j \in DOMAIN queue': queue'[j].work = "produce"
    BY <2>4
  <2> QED BY <2>1, <2>2, <2>3, <2>5, <2>6, <2>7
<1>7. CASE UNCHANGED vars
  BY <1>7 DEF vars
<1> QED
  BY <1>1, <1>2, <1>3, <1>4, <1>5, <1>6, <1>7 DEF Next, HostStep, Terminated

LEMMA Hold == Spec => []HoldInv
BY HoldInit, HoldStep, PTL DEF Spec

\* Every copy of a part is freed by the reset that ends operator(), whether the
\* kernels ran, CK refused them or the workspace was too small.
THEOREM ComplexNothingHeld == Spec => []NothingHeld
<1>1. HoldInv => NothingHeld
  BY ConstantsAssumption DEF HoldInv, NothingHeld
<1> QED BY <1>1, Hold, PTL

\* No unpack, contraction or packing kernel still queued reads a copy that was
\* freed, also on a stream that does not wait for the null stream: hipFree does.
THEOREM ComplexNoUseAfterFree == Spec => []NoUseAfterFree
<1>1. HoldInv => NoUseAfterFree
  <2> SUFFICES ASSUME HoldInv, NEW i \in DOMAIN queue
               PROVE  CASE queue[i].work = "unpack"   -> queue[i].part \in DOMAIN arrays
                        [] queue[i].work = "contract" -> {"A", "B", "E"} \subseteq DOMAIN arrays
                        [] queue[i].work = "produce"  -> TRUE
                        [] OTHER -> Parts(queue[i].call) \subseteq DOMAIN arrays
    BY DEF NoUseAfterFree
  <2>1. pc # "idle" /\ queue[i] \in WorkOf(call)
    BY DEF HoldInv
  <2>2. CASE pc = "arguments"
    BY <2>2 DEF HoldInv
  <2>3. CASE pc # "arguments"
    <3>1. DOMAIN arrays = Parts(call) /\ {"A", "B", "E"} \subseteq Parts(call)
      BY <2>1, <2>3, PartsOf DEF HoldInv
    <3> QED BY <2>1, <3>1 DEF WorkOf, ContractWork, Contract, Unpack, Pack
  <2> QED BY <2>2, <2>3
<1> QED BY <1>1, Hold, PTL
-----------------------------------------------------------------------------
\* From here on every stream a program uses waits for the null stream.
Blocking == \A c \in Calls: c.stream \notin NonBlocking

\* How many parts are unpacked; everything a call that runs does, in order.
Unpacks(c) == IF c.kind = "bilinear" THEN 4 ELSE 3

Work(c) ==
  [n \in 1..6 + Unpacks(c) |->
     IF n = 1 THEN [stream |-> c.stream, work |-> "produce", call |-> c]
     ELSE IF n <= 1 + Unpacks(c) THEN Argument(c).unpack[n - 1]
     ELSE RunWork(c)[n - 1 - Unpacks(c)]]

\* How much of it the host has launched, and the device has done.
Sent ==
  IF pc = "idle" THEN 0
  ELSE IF pc = "arguments" THEN 1
  ELSE IF pc = "reset" /\ status = "SUCCESS" THEN 6 + Unpacks(call)
  ELSE 1 + Unpacks(call)

Done == Sent - Len(queue)

\* The queue is the work between the two.
OrderInv ==
  pc # "idle" =>
    /\ Done \in 0..Sent
    /\ \A i \in 1..Len(queue): queue[i] = Work(call)[Done + i]

\* What the first n works leave behind.
TensorsAfter(n) ==
  n \in 1..5 + Unpacks(call) =>
    /\ tensors["A"] = call.A /\ tensors["B"] = call.B
    /\ tensors[Buffer(call, "D")] = call.D

CopiesAfter(n) ==
  /\ n >= 2 => arrays["A"] = call.A
  /\ n >= 3 => arrays["B"] = call.B
  /\ n >= 4 /\ call.kind = "bilinear" => arrays["D"] = call.D
  /\ n >= 1 + Unpacks(call) => arrays["E"] \in Int \X Int

ProductAfter(n) ==
  LET A == call.A
      B == call.B
      E == arrays["E"]
      u == Unpacks(call)
  IN /\ n \in u + 2..u + 3 => E[Real] = A[Real] * B[Real]
     /\ n >= u + 4 => E[Real] = A[Real] * B[Real] - A[Imag] * B[Imag]
     /\ n \in u + 3..u + 4 => E[Imag] = A[Real] * B[Imag]
     /\ n >= u + 5 => E[Imag] = A[Real] * B[Imag] + A[Imag] * B[Real]

ResultAfter(n) ==
  n = 6 + Unpacks(call) => tensors["E"] = Contracted(call)

After(n) == TensorsAfter(n) /\ CopiesAfter(n) /\ ProductAfter(n) /\ ResultAfter(n)

DataInv ==
  /\ tensors \in [{"A", "B", "D", "E"} -> Int \X Int]
  /\ pc # "idle" => After(Done)

-----------------------------------------------------------------------------
LEMMA WorkShape ==
  ASSUME NEW c
  PROVE  /\ Unpacks(c) \in {3, 4}
         /\ Work(c)[1] = [stream |-> c.stream, work |-> "produce", call |-> c]
         /\ Work(c)[2] = Unpack(c, "A")
         /\ Work(c)[3] = Unpack(c, "B")
         /\ c.kind = "bilinear" => Unpacks(c) = 4 /\ Work(c)[4] = Unpack(c, "D")
         /\ c.kind # "bilinear" => Unpacks(c) = 3
         /\ Work(c)[Unpacks(c) + 1] = Unpack(c, "E")
         /\ Work(c)[Unpacks(c) + 2] = Contract(c, ScaleDecompOp(Real, Real, Real))
         /\ Work(c)[Unpacks(c) + 3] = Contract(c, ScaleDecompOp(Imag, Real, Imag))
         /\ Work(c)[Unpacks(c) + 4] = Contract(c, BilinearDecompOp(Real, Imag, Imag, -1))
         /\ Work(c)[Unpacks(c) + 5] = Contract(c, BilinearDecompOp(Imag, Imag, Real, 1))
         /\ Work(c)[Unpacks(c) + 6] = Pack(c, IF c.kind = "bilinear" THEN "mfma" ELSE "multiply")
<1>1. CASE c.kind = "bilinear"
  <2>1. Unpacks(c) = 4
    BY <1>1 DEF Unpacks
  <2>2. /\ Work(c)[1] = [stream |-> c.stream, work |-> "produce", call |-> c]
        /\ Work(c)[2] = Argument(c).unpack[1] /\ Work(c)[3] = Argument(c).unpack[2]
        /\ Work(c)[4] = Argument(c).unpack[3] /\ Work(c)[5] = Argument(c).unpack[4]
        /\ Work(c)[6] = RunWork(c)[1] /\ Work(c)[7] = RunWork(c)[2]
        /\ Work(c)[8] = RunWork(c)[3] /\ Work(c)[9] = RunWork(c)[4]
        /\ Work(c)[10] = RunWork(c)[5]
    BY <2>1 DEF Work
  <2>3. /\ Unpacks(c) + 1 = 5 /\ Unpacks(c) + 2 = 6 /\ Unpacks(c) + 3 = 7
        /\ Unpacks(c) + 4 = 8 /\ Unpacks(c) + 5 = 9 /\ Unpacks(c) + 6 = 10
    BY <2>1
  <2> QED BY <1>1, <2>1, <2>2, <2>3, UnpackWork, RunWorkShape
<1>2. CASE c.kind # "bilinear"
  <2>1. Unpacks(c) = 3
    BY <1>2 DEF Unpacks
  <2>2. /\ Work(c)[1] = [stream |-> c.stream, work |-> "produce", call |-> c]
        /\ Work(c)[2] = Argument(c).unpack[1] /\ Work(c)[3] = Argument(c).unpack[2]
        /\ Work(c)[4] = Argument(c).unpack[3]
        /\ Work(c)[5] = RunWork(c)[1] /\ Work(c)[6] = RunWork(c)[2]
        /\ Work(c)[7] = RunWork(c)[3] /\ Work(c)[8] = RunWork(c)[4]
        /\ Work(c)[9] = RunWork(c)[5]
    BY <2>1 DEF Work
  <2>3. /\ Unpacks(c) + 1 = 4 /\ Unpacks(c) + 2 = 5 /\ Unpacks(c) + 3 = 6
        /\ Unpacks(c) + 4 = 7 /\ Unpacks(c) + 5 = 8 /\ Unpacks(c) + 6 = 9
    BY <2>1
  <2> QED BY <1>2, <2>1, <2>2, <2>3, UnpackWork, RunWorkShape
<1> QED BY <1>1, <1>2

LEMMA UnpackLength ==
  ASSUME NEW c
  PROVE  Len(Argument(c).unpack) = Unpacks(c) /\ Unpacks(c) \in {3, 4}
BY UnpackWork DEF Unpacks

\* Works of one call are ordered: the null stream and the call's wait for each
\* other.
LEMMA WorkOrdered ==
  ASSUME Blocking, NEW c \in Calls, NEW v \in WorkOf(c), NEW w \in WorkOf(c)
  PROVE  Ordered(v.stream, w.stream)
<1>1. \A x \in WorkOf(c): x.stream \in {c.stream, NullStream}
  BY DEF WorkOf, ContractWork, Contract, Unpack, Pack
<1>2. c.stream \notin NonBlocking /\ NullStream \notin NonBlocking
  BY ConstantsAssumption DEF Blocking
<1> QED BY <1>1, <1>2 DEF Ordered

LEMMA FirstOnly ==
  ASSUME Blocking, HoldInv, NEW i \in 1..Len(queue), Ready(i)
  PROVE  i = 1 /\ pc # "idle"
<1>1. pc # "idle" /\ call \in Calls /\ queue \in Seq(WorkOf(call))
  BY DEF HoldInv
<1>2. ASSUME i # 1 PROVE FALSE
  <2>1. 1 \in 1..i - 1 /\ 1 \in 1..Len(queue)
    BY <1>1, <1>2
  <2>2. Ordered(queue[1].stream, queue[i].stream)
    BY <1>1, <2>1, WorkOrdered
  <2> QED BY <2>1, <2>2 DEF Ready
<1> QED BY <1>1, <1>2
-----------------------------------------------------------------------------
LEMMA WorkUnpack ==
  ASSUME NEW c, NEW n \in 2..1 + Unpacks(c)
  PROVE  Work(c)[n] = Argument(c).unpack[n - 1]
BY UnpackLength DEF Work

LEMMA WorkRun ==
  ASSUME NEW c, NEW n \in 2 + Unpacks(c)..6 + Unpacks(c)
  PROVE  Work(c)[n] = RunWork(c)[n - 1 - Unpacks(c)]
<1>1. Unpacks(c) \in {3, 4} /\ n # 1 /\ ~(n <= 1 + Unpacks(c))
  BY UnpackLength
<1> QED BY <1>1 DEF Work

LEMMA OrderBegin ==
  ASSUME HoldInv, Begin
  PROVE  OrderInv' /\ pc' # "idle" /\ Done' = 0
<1>1. queue = <<>> /\ pc' = "arguments" /\ call' = Head(program)
  BY DEF HoldInv, Begin
<1> DEFINE item == [stream |-> call'.stream, work |-> "produce", call |-> call']
<1>2. queue' = <<item>>
  <2>1. queue' = <<>> \o <<item>>
    BY <1>1 DEF Begin, Launch, Produce
  <2> HIDE DEF item
  <2>2. <<item>> \in Seq({item})
    OBVIOUS
  <2> QED BY <2>1, <2>2, ConcatEmptySeq
<1>3. Len(queue') = 1 /\ queue'[1] = Work(call')[1]
  BY <1>2, WorkShape
<1> QED BY <1>1, <1>3 DEF OrderInv, Done, Sent

LEMMA OrderInitArgs ==
  ASSUME HoldInv, OrderInv, InitArgs
  PROVE  OrderInv' /\ Done' = Done /\ Done \in 0..1
<1> DEFINE u == Unpacks(call)
           unpack == Argument(call).unpack
<1>1. /\ pc = "arguments" /\ call' = call
      /\ queue \in Seq(WorkOf(call)) /\ unpack \in Seq(WorkOf(call))
      /\ Len(unpack) = u /\ u \in {3, 4}
      /\ Sent = 1 /\ Sent' = 1 + u
  BY UnpackWork, UnpackLength DEF HoldInv, InitArgs, Sent
<1>2. /\ Len(queue') = Len(queue) + u
      /\ \A i \in 1..Len(queue) + u:
           queue'[i] = IF i <= Len(queue) THEN queue[i] ELSE unpack[i - Len(queue)]
  BY <1>1, LaunchSeq DEF InitArgs
<1>3. Len(queue) \in {0, 1} /\ Done = 1 - Len(queue)
  BY <1>1 DEF OrderInv, Done
<1>4. Done' = Done
  BY <1>1, <1>2, <1>3 DEF Done
<1>5. ASSUME NEW i \in 1..Len(queue')
      PROVE  queue'[i] = Work(call)[Done + i]
  <2>1. CASE i <= Len(queue)
    BY <1>1, <1>2, <1>3, <1>5, <2>1 DEF OrderInv
  <2>2. CASE i > Len(queue)
    <3>1. /\ Done + i \in 2..1 + u
          /\ Done + i - 1 = i - Len(queue)
      BY <1>1, <1>2, <1>3, <1>5, <2>2
    <3>2. Work(call)[Done + i] = unpack[Done + i - 1]
      BY <1>3, <1>5, <3>1, WorkUnpack
    <3>3. queue'[i] = unpack[i - Len(queue)]
      BY <1>1, <1>2, <1>3, <1>5, <2>2
    <3> QED BY <3>1, <3>2, <3>3
  <2> QED BY <1>1, <1>2, <1>3, <1>5, <2>1, <2>2
<1> QED BY <1>1, <1>2, <1>3, <1>4, <1>5 DEF OrderInv

LEMMA OrderRun ==
  ASSUME HoldInv, OrderInv, Run
  PROVE  OrderInv' /\ Done' = Done
<1> DEFINE u == Unpacks(call)
           work == RunWork(call)
           q == Len(queue)
<1>1. /\ pc = "run" /\ call' = call
      /\ queue \in Seq(WorkOf(call)) /\ work \in Seq(WorkOf(call))
      /\ Len(work) = 5 /\ u \in {3, 4}
      /\ Sent = 1 + u /\ Sent' = 6 + u
  BY RunWorkShape, UnpackLength DEF HoldInv, Run, Sent
<1>2. /\ Len(queue') = q + 5
      /\ \A i \in 1..q + 5: queue'[i] = IF i <= q THEN queue[i] ELSE work[i - q]
  BY <1>1, LaunchSeq DEF Run, RunWork
<1>3. q \in 0..1 + u /\ Done = 1 + u - q
  BY <1>1 DEF OrderInv, Done
<1>4. Done' = Done
  BY <1>1, <1>2, <1>3 DEF Done
<1>5. ASSUME NEW i \in 1..Len(queue')
      PROVE  queue'[i] = Work(call)[Done + i]
  <2>1. CASE i <= q
    <3>1. i \in 1..q /\ queue'[i] = queue[i]
      BY <1>1, <1>2, <1>3, <1>5, <2>1
    <3> QED BY <1>1, <3>1 DEF OrderInv
  <2>2. CASE i > q
    <3>1. /\ Done + i \in 2 + u..6 + u
          /\ Done + i - 1 - u = i - q
      BY <1>1, <1>2, <1>3, <1>5, <2>2
    <3>2. Work(call)[Done + i] = work[Done + i - 1 - u]
      <4>1. \A n \in 2 + u..6 + u: Work(call)[n] = work[n - 1 - u]
        BY WorkRun
      <4> HIDE DEF u, work
      <4> QED BY <1>1, <1>3, <1>5, <3>1, <4>1
    <3>3. queue'[i] = work[i - q]
      BY <1>1, <1>2, <1>3, <1>5, <2>2
    <3> QED BY <3>1, <3>2, <3>3
  <2> QED BY <1>1, <1>2, <1>3, <1>5, <2>1, <2>2
<1> QED BY <1>1, <1>2, <1>3, <1>4, <1>5 DEF OrderInv

\* The device does the works of a call one after the other.
LEMMA OrderExecute ==
  ASSUME Blocking, HoldInv, OrderInv, Execute
  PROVE  /\ OrderInv' /\ Done' = Done + 1 /\ Done + 1 \in 1..Sent
         /\ pc # "idle" /\ call \in Calls
         /\ queue # <<>> /\ queue[1] = Work(call)[Done + 1]
         /\ DoProduce(1) \/ DoUnpack(1) \/ DoContract(1) \/ Mfma(1) \/ Multiply(1)
         /\ UNCHANGED <<program, call, pc, status, reply>>
<1>1. PICK i \in 1..Len(queue):
        /\ Ready(i) /\ Finish(i)
        /\ DoProduce(i) \/ DoUnpack(i) \/ DoContract(i) \/ Mfma(i) \/ Multiply(i)
        /\ UNCHANGED <<program, call, pc, status, reply>>
  BY DEF Execute
<1>2. i = 1 /\ pc # "idle"
  BY <1>1, FirstOnly
<1>3. call \in Calls /\ queue \in Seq(WorkOf(call)) /\ Len(queue) >= 1
  BY <1>1, <1>2 DEF HoldInv
<1>4. /\ Len(queue') = Len(queue) - 1
      /\ \A j \in 1..Len(queue) - 1: queue'[j] = queue[j + 1]
  BY <1>1, <1>2, <1>3, FinishSeq
<1>5. Sent' = Sent /\ Sent \in Nat
  BY <1>1, UnpackLength DEF Sent
<1>6. /\ Len(queue) \in Nat /\ Done \in 0..Sent /\ Done = Sent - Len(queue)
      /\ \A j \in 1..Len(queue): queue[j] = Work(call)[Done + j]
  BY <1>2, <1>3 DEF OrderInv, Done
<1>7. Done' = Done + 1 /\ Done + 1 \in 1..Sent
  BY <1>3, <1>4, <1>5, <1>6 DEF Done
<1>8. ASSUME NEW j \in 1..Len(queue')
      PROVE  queue'[j] = Work(call)[Done + 1 + j]
  <2>1. j + 1 \in 1..Len(queue) /\ queue'[j] = queue[j + 1] /\ Done + (j + 1) = Done + 1 + j
    BY <1>4, <1>6, <1>8
  <2> QED BY <1>6, <2>1
<1>9. OrderInv'
  BY <1>1, <1>5, <1>7, <1>8 DEF OrderInv
<1>10. queue # <<>> /\ queue[1] = Work(call)[Done + 1]
  BY <1>3, <1>6
<1> QED BY <1>1, <1>2, <1>3, <1>7, <1>9, <1>10

LEMMA OrderStep ==
  ASSUME Blocking, HoldInv, OrderInv, [Next]_vars
  PROVE  OrderInv'
<1>1. CASE Begin
  BY <1>1, OrderBegin
<1>2. CASE InitArgs
  BY <1>2, OrderInitArgs
<1>3. CASE CheckWorkspace
  BY <1>3 DEF CheckWorkspace, OrderInv, Done, Sent
<1>4. CASE Run
  BY <1>4, OrderRun
<1>5. CASE ResetArgs
  BY <1>5 DEF ResetArgs, Return, OrderInv
<1>6. CASE Execute
  BY <1>6, OrderExecute
<1>7. CASE UNCHANGED vars
  BY <1>7 DEF vars, OrderInv, Done, Sent
<1> QED
  BY <1>1, <1>2, <1>3, <1>4, <1>5, <1>6, <1>7 DEF Next, HostStep, Terminated
-----------------------------------------------------------------------------
\* What the device does next.
LEMMA WorkNext ==
  ASSUME NEW c, NEW n \in 0..5 + Unpacks(c)
  PROVE  /\ n = 0 => Work(c)[n + 1] = [stream |-> c.stream, work |-> "produce", call |-> c]
         /\ n \in 1..Unpacks(c) =>
              Work(c)[n + 1] = Unpack(c, IF n = 1 THEN "A" ELSE IF n = 2 THEN "B"
                                         ELSE IF n = Unpacks(c) THEN "E" ELSE "D")
         /\ n = Unpacks(c) + 1 => Work(c)[n + 1] = Contract(c, ScaleDecompOp(Real, Real, Real))
         /\ n = Unpacks(c) + 2 => Work(c)[n + 1] = Contract(c, ScaleDecompOp(Imag, Real, Imag))
         /\ n = Unpacks(c) + 3 => Work(c)[n + 1] = Contract(c, BilinearDecompOp(Real, Imag, Imag, -1))
         /\ n = Unpacks(c) + 4 => Work(c)[n + 1] = Contract(c, BilinearDecompOp(Imag, Imag, Real, 1))
         /\ n = Unpacks(c) + 5 =>
              Work(c)[n + 1] = Pack(c, IF c.kind = "bilinear" THEN "mfma" ELSE "multiply")
<1> DEFINE u == Unpacks(c)
           k == n + 1
<1>1. u \in {3, 4} /\ (u = 4 <=> c.kind = "bilinear") /\ k \in 1..6 + u
  BY DEF Unpacks
<1>2. CASE n \in 0..u
  <2>1. /\ k = 1 => Work(c)[k] = [stream |-> c.stream, work |-> "produce", call |-> c]
        /\ k = 2 => Work(c)[k] = Unpack(c, "A")
        /\ k = 3 => Work(c)[k] = Unpack(c, "B")
        /\ k = 4 /\ u = 4 => Work(c)[k] = Unpack(c, "D")
        /\ k = u + 1 => Work(c)[k] = Unpack(c, "E")
    <3> HIDE DEF k
    <3> QED BY <1>1, WorkShape
  <2> QED BY <1>1, <1>2, <2>1
<1>3. CASE n \in u + 1..u + 5
  <2>1. /\ k = u + 2 => Work(c)[k] = Contract(c, ScaleDecompOp(Real, Real, Real))
        /\ k = u + 3 => Work(c)[k] = Contract(c, ScaleDecompOp(Imag, Real, Imag))
        /\ k = u + 4 => Work(c)[k] = Contract(c, BilinearDecompOp(Real, Imag, Imag, -1))
        /\ k = u + 5 => Work(c)[k] = Contract(c, BilinearDecompOp(Imag, Imag, Real, 1))
        /\ k = u + 6 => Work(c)[k] = Pack(c, IF c.kind = "bilinear" THEN "mfma" ELSE "multiply")
    <3> HIDE DEF k
    <3> QED BY <1>1, WorkShape
  <2> QED BY <1>1, <1>3, <2>1
<1> QED BY <1>1, <1>2, <1>3

\* Every work of a call computes its step of the complex contraction.
LEMMA DataExecute ==
  ASSUME Blocking, HoldInv, OrderInv, DataInv, Execute
  PROVE  /\ DataInv'
         /\ output' = IF Done = 5 + Unpacks(call) THEN Contracted(call) ELSE output
<1> DEFINE u == Unpacks(call)
           w == queue[1]
<1>1. /\ Done \in 0..5 + u /\ Done' = Done + 1 /\ call' = call
      /\ pc # "idle" /\ pc' = pc /\ call \in Calls
      /\ w = Work(call)[Done + 1]
      /\ DoProduce(1) \/ DoUnpack(1) \/ DoContract(1) \/ Mfma(1) \/ Multiply(1)
      /\ u \in {3, 4} /\ (u = 4 <=> call.kind = "bilinear")
  <2>1. Sent <= 6 + u /\ Done + 1 \in 1..Sent /\ u \in {3, 4} /\ Sent \in Nat
    BY OrderExecute, UnpackLength DEF Sent
  <2>2. Done \in 0..5 + u
    BY <2>1 DEF OrderInv, Done, HoldInv
  <2> QED BY <2>1, <2>2, OrderExecute DEF Unpacks
<1>2. Done >= 1 => DOMAIN arrays = Parts(call)
  BY OrderExecute, <1>1 DEF Sent, HoldInv
<1>3. /\ call.A \in Int \X Int /\ call.B \in Int \X Int /\ call.D \in Int \X Int
      /\ call.alpha \in Int \X Int /\ call.beta \in Int \X Int
  BY <1>1, ConstantsAssumption
<1>4. tensors \in [{"A", "B", "D", "E"} -> Int \X Int] /\ After(Done)
  BY <1>1 DEF DataInv
<1>5. Buffer(call, "D") \in {"D", "E"} /\ Buffer(call, "A") = "A"
      /\ Buffer(call, "B") = "B" /\ Buffer(call, "E") = "E"
  BY DEF Buffer
<1>6. /\ Done = 0 => w = [stream |-> call.stream, work |-> "produce", call |-> call]
      /\ Done \in 1..u => w = Unpack(call, IF Done = 1 THEN "A" ELSE IF Done = 2 THEN "B"
                                           ELSE IF Done = u THEN "E" ELSE "D")
      /\ Done = u + 1 => w = Contract(call, ScaleDecompOp(Real, Real, Real))
      /\ Done = u + 2 => w = Contract(call, ScaleDecompOp(Imag, Real, Imag))
      /\ Done = u + 3 => w = Contract(call, BilinearDecompOp(Real, Imag, Imag, -1))
      /\ Done = u + 4 => w = Contract(call, BilinearDecompOp(Imag, Imag, Real, 1))
      /\ Done = u + 5 => w = Pack(call, IF call.kind = "bilinear" THEN "mfma" ELSE "multiply")
  <2> DEFINE n == Done
             x == Work(call)[n + 1]
  <2>1. n \in 0..5 + u /\ x = w
    BY <1>1
  <2> HIDE DEF n, w
  <2> QED BY <2>1, WorkNext DEF n
<1>7. CASE Done = 0
  <2>1. w = [stream |-> call.stream, work |-> "produce", call |-> call]
    BY <1>1, <1>7, <1>6
  <2>2. DoProduce(1)
    BY <1>1, <2>1 DEF DoUnpack, DoContract, Mfma, Multiply
  <2>3. tensors' = [tensors EXCEPT !["A"] = call.A, !["B"] = call.B, ![Buffer(call, "D")] = call.D]
    BY <2>1, <2>2 DEF DoProduce
  <2>4. /\ tensors' \in [{"A", "B", "D", "E"} -> Int \X Int]
        /\ tensors'["A"] = call.A /\ tensors'["B"] = call.B
        /\ tensors'[Buffer(call, "D")] = call.D
    BY <1>3, <1>4, <1>5, <2>3
  <2>5. output' = output /\ Done # 5 + u
    BY <1>1, <1>7, <2>2 DEF DoProduce
  <2> QED BY <1>1, <1>7, <2>4, <2>5
          DEF DataInv, After, TensorsAfter, CopiesAfter, ProductAfter, ResultAfter
<1>8. CASE Done \in 1..u
  <2>1. PICK part \in Parts(call): w = Unpack(call, part)
    BY <1>1, <1>8, <1>6, PartsOf
  <2>2. DoUnpack(1)
    BY <1>1, <2>1 DEF DoProduce, DoContract, Mfma, Multiply, Unpack
  <2>3. /\ arrays' = [arrays EXCEPT ![part] = tensors[Buffer(call, part)]]
        /\ tensors' = tensors /\ DOMAIN arrays = Parts(call) /\ output' = output
    BY <1>2, <1>8, <2>1, <2>2 DEF DoUnpack, Unpack
  <2>4. /\ arrays'[part] = tensors[Buffer(call, part)]
        /\ \A p \in Parts(call) \ {part}: arrays'[p] = arrays[p]
    BY <2>3
  <2>5. /\ Done = 1 => part = "A"
        /\ Done = 2 => part = "B"
        /\ Done = 3 /\ u = 4 => part = "D"
        /\ Done = u => part = "E"
    BY <1>1, <1>8, <2>1, <1>6 DEF Unpack
  <2>6. /\ tensors["A"] = call.A /\ tensors["B"] = call.B
        /\ tensors[Buffer(call, "D")] = call.D
        /\ Done >= 2 => arrays["A"] = call.A
        /\ Done >= 3 => arrays["B"] = call.B
        /\ Done >= 4 /\ u = 4 => arrays["D"] = call.D
    BY <1>1, <1>4, <1>8 DEF After, TensorsAfter, CopiesAfter
  <2>7. {"A", "B", "E"} \subseteq Parts(call) /\ (u = 4 => "D" \in Parts(call))
    BY <1>1, PartsOf
  <2>8. /\ Done + 1 >= 2 => arrays'["A"] = call.A
        /\ Done + 1 >= 3 => arrays'["B"] = call.B
        /\ Done + 1 >= 4 /\ u = 4 => arrays'["D"] = call.D
        /\ Done + 1 >= 1 + u => arrays'["E"] \in Int \X Int
    BY <1>1, <1>4, <1>5, <1>8, <2>4, <2>5, <2>6, <2>7
  <2> QED BY <1>1, <1>4, <1>8, <2>3, <2>6, <2>8
          DEF DataInv, After, TensorsAfter, CopiesAfter, ProductAfter, ResultAfter
<1>9. CASE Done \in 1 + u..4 + u
  <2>1. PICK op \in Ops: w = Contract(call, op)
    BY <1>1, <1>9, <1>6 DEF Ops
  <2>2. DoContract(1)
    BY <1>1, <2>1 DEF DoProduce, DoUnpack, Mfma, Multiply, Contract
  <2> DEFINE A == arrays["A"]
             B == arrays["B"]
             E == arrays["E"]
  <2>3. /\ tensors["A"] = call.A /\ tensors["B"] = call.B
        /\ tensors[Buffer(call, "D")] = call.D
        /\ A = call.A /\ B = call.B /\ E \in Int \X Int
        /\ u = 4 => arrays["D"] = call.D
    BY <1>1, <1>4, <1>9 DEF After, TensorsAfter, CopiesAfter
  <2>4. DOMAIN arrays = Parts(call) /\ {"A", "B", "E"} \subseteq Parts(call)
    BY <1>1, <1>2, <1>9, PartsOf
  <2>5. /\ tensors' = tensors /\ output' = output
        /\ arrays' = [arrays EXCEPT !["E"] =
             [E EXCEPT ![op.e] = op.scale * A[op.a] * B[op.b] + (IF op.onto THEN E[op.e] ELSE 0)]]
    BY <2>1, <2>2, <2>4 DEF DoContract, Contract
  <2>6. /\ \A p \in Parts(call) \ {"E"}: arrays'[p] = arrays[p]
        /\ arrays'["E"] =
             [E EXCEPT ![op.e] = op.scale * A[op.a] * B[op.b] + (IF op.onto THEN E[op.e] ELSE 0)]
    BY <2>4, <2>5
  <2>7. /\ A[Real] \in Int /\ A[Imag] \in Int /\ B[Real] \in Int /\ B[Imag] \in Int
        /\ E[Real] \in Int /\ E[Imag] \in Int
    BY <1>3, <2>3 DEF Real, Imag
  <2>8. CASE Done = 1 + u
    <3>1. arrays'["E"] = [E EXCEPT ![Real] = A[Real] * B[Real]]
      BY <1>1, <2>1, <2>6, <2>7, <2>8, <1>6 DEF Contract, ScaleDecompOp
    <3>2. arrays'["E"] \in Int \X Int /\ arrays'["E"][Real] = A[Real] * B[Real]
      BY <2>3, <2>7, <3>1 DEF Real
    <3> QED BY <1>1, <1>4, <2>3, <2>4, <2>5, <2>6, <2>8, <3>2, PartsOf
            DEF DataInv, After, TensorsAfter, CopiesAfter, ProductAfter, ResultAfter
  <2>9. CASE Done = 2 + u
    <3>1. arrays'["E"] = [E EXCEPT ![Imag] = A[Real] * B[Imag]]
      BY <1>1, <2>1, <2>6, <2>7, <2>9, <1>6 DEF Contract, ScaleDecompOp
    <3>2. E[Real] = A[Real] * B[Real]
      BY <1>1, <1>4, <2>3, <2>9 DEF After, ProductAfter
    <3>3. /\ arrays'["E"] \in Int \X Int
          /\ arrays'["E"][Real] = A[Real] * B[Real]
          /\ arrays'["E"][Imag] = A[Real] * B[Imag]
      BY <2>3, <2>7, <3>1, <3>2 DEF Real, Imag
    <3> QED BY <1>1, <1>4, <2>3, <2>4, <2>5, <2>6, <2>9, <3>3, PartsOf
            DEF DataInv, After, TensorsAfter, CopiesAfter, ProductAfter, ResultAfter
  <2>10. CASE Done = 3 + u
    <3>1. arrays'["E"] = [E EXCEPT ![Real] = -1 * A[Imag] * B[Imag] + E[Real]]
      BY <1>1, <2>1, <2>6, <2>7, <2>10, <1>6 DEF Contract, BilinearDecompOp
    <3>2. E[Real] = A[Real] * B[Real] /\ E[Imag] = A[Real] * B[Imag]
      BY <1>1, <1>4, <2>3, <2>10 DEF After, ProductAfter
    <3>3. /\ arrays'["E"] \in Int \X Int
          /\ arrays'["E"][Real] = A[Real] * B[Real] - A[Imag] * B[Imag]
          /\ arrays'["E"][Imag] = A[Real] * B[Imag]
      BY <2>3, <2>7, <3>1, <3>2 DEF Real, Imag
    <3> QED BY <1>1, <1>4, <2>3, <2>4, <2>5, <2>6, <2>10, <3>3, PartsOf
            DEF DataInv, After, TensorsAfter, CopiesAfter, ProductAfter, ResultAfter
  <2>11. CASE Done = 4 + u
    <3>1. arrays'["E"] = [E EXCEPT ![Imag] = 1 * A[Imag] * B[Real] + E[Imag]]
      BY <1>1, <2>1, <2>6, <2>7, <2>11, <1>6 DEF Contract, BilinearDecompOp
    <3>2. E[Real] = A[Real] * B[Real] - A[Imag] * B[Imag] /\ E[Imag] = A[Real] * B[Imag]
      BY <1>1, <1>4, <2>3, <2>11 DEF After, ProductAfter
    <3>3. /\ arrays'["E"] \in Int \X Int
          /\ arrays'["E"][Real] = A[Real] * B[Real] - A[Imag] * B[Imag]
          /\ arrays'["E"][Imag] = A[Real] * B[Imag] + A[Imag] * B[Real]
      BY <2>3, <2>7, <3>1, <3>2 DEF Real, Imag
    <3> QED BY <1>1, <1>4, <2>3, <2>4, <2>5, <2>6, <2>11, <3>3, PartsOf
            DEF DataInv, After, TensorsAfter, CopiesAfter, ProductAfter, ResultAfter
  <2> QED BY <1>1, <1>9, <2>8, <2>9, <2>10, <2>11
<1>10. CASE Done = 5 + u
  <2> DEFINE E == arrays["E"]
  <2>1. /\ w = Pack(call, IF call.kind = "bilinear" THEN "mfma" ELSE "multiply")
        /\ w.work \in {"mfma", "multiply"} /\ w.call = call
        /\ w.work = "mfma" <=> call.kind = "bilinear"
    BY <1>1, <1>10, <1>6 DEF Pack
  <2>2. /\ tensors["A"] = call.A /\ tensors["B"] = call.B
        /\ arrays["A"] = call.A /\ arrays["B"] = call.B /\ E \in Int \X Int
        /\ call.kind = "bilinear" => arrays["D"] = call.D
        /\ E[Real] = arrays["A"][Real] * arrays["B"][Real] - arrays["A"][Imag] * arrays["B"][Imag]
        /\ E[Imag] = arrays["A"][Real] * arrays["B"][Imag] + arrays["A"][Imag] * arrays["B"][Real]
    BY <1>1, <1>4, <1>10 DEF After, TensorsAfter, CopiesAfter, ProductAfter
  <2>3. E = Times(call.A, call.B)
    BY <1>3, <2>2 DEF Times, Real, Imag
  <2>4. WriteE(Contracted(call))
    <3>1. CASE call.kind = "bilinear"
      BY <1>1, <2>1, <2>2, <2>3, <3>1
         DEF DoProduce, DoUnpack, DoContract, Mfma, Multiply, Contracted
    <3>2. CASE call.kind # "bilinear"
      BY <1>1, <2>1, <2>2, <2>3, <3>2
         DEF DoProduce, DoUnpack, DoContract, Mfma, Multiply, Contracted
    <3> QED BY <3>1, <3>2
  <2>5. Contracted(call) \in Int \X Int
    <3>1. \A x \in Int \X Int, y \in Int \X Int: Times(x, y) \in Int \X Int /\ Plus(x, y) \in Int \X Int
      BY DEF Times, Plus
    <3> QED BY <1>3, <3>1 DEF Contracted
  <2>6. /\ tensors' \in [{"A", "B", "D", "E"} -> Int \X Int]
        /\ tensors'["E"] = Contracted(call) /\ arrays' = arrays /\ output' = Contracted(call)
    BY <1>4, <2>4, <2>5 DEF WriteE
  <2>7. Contracted(call)' = Contracted(call)
    BY <1>1
  <2> QED BY <1>1, <1>10, <2>2, <2>6, <2>7
          DEF DataInv, After, TensorsAfter, CopiesAfter, ProductAfter, ResultAfter
<1> QED BY <1>1, <1>7, <1>8, <1>9, <1>10

LEMMA DataStep ==
  ASSUME Blocking, HoldInv, OrderInv, DataInv, [Next]_vars
  PROVE  DataInv'
<1> USE DEF DataInv, After, TensorsAfter, CopiesAfter, ProductAfter, ResultAfter
<1>1. CASE Begin
  <2>1. Unpacks(call') \in {3, 4}
    BY UnpackLength
  <2> QED BY <1>1, <2>1, OrderBegin DEF Begin
<1>2. CASE InitArgs
  <2>1. Unpacks(call) \in {3, 4}
    BY UnpackLength
  <2> QED BY <1>2, <2>1, OrderInitArgs DEF InitArgs
<1>3. CASE CheckWorkspace
  BY <1>3 DEF CheckWorkspace, Done, Sent
<1>4. CASE Run
  BY <1>4, OrderRun DEF Run
<1>5. CASE ResetArgs
  BY <1>5 DEF ResetArgs, Return
<1>6. CASE Execute
  BY <1>6, DataExecute
<1>7. CASE UNCHANGED vars
  BY <1>7 DEF vars, Done, Sent
<1> QED
  BY <1>1, <1>2, <1>3, <1>4, <1>5, <1>6, <1>7 DEF Next, HostStep, Terminated

\* The invariant of the programs whose streams wait for the null stream.
ComplexInv == HoldInv /\ OrderInv /\ DataInv

LEMMA ComplexHold ==
  ASSUME Blocking
  PROVE  Spec => []ComplexInv
<1>1. Init => OrderInv /\ DataInv
  BY ConstantsAssumption DEF Init, OrderInv, DataInv
<1>2. OrderInv /\ DataInv /\ HoldInv /\ [Next]_vars => OrderInv' /\ DataInv'
  BY OrderStep, DataStep
<1> QED BY <1>1, <1>2, Hold, PTL DEF Spec, ComplexInv

\* A reset that finds the device idle after SUCCESS finds the whole of the
\* call's work done.
LEMMA ResetAfterResult ==
  ASSUME ComplexInv, pc = "reset", status = "SUCCESS", queue = <<>>
  PROVE  tensors["E"] = Contracted(call)
<1>1. Done = 6 + Unpacks(call)
  BY UnpackLength DEF ComplexInv, Done, Sent
<1> QED BY <1>1 DEF ComplexInv, DataInv, After, ResultAfter

\* A program whose streams wait for the null stream finds alpha A B + beta D, of
\* complex numbers, in E when operator() returns HIPTENSOR_STATUS_SUCCESS,
\* whatever integers the tensors hold and whatever its earlier calls left.
THEOREM ComplexResultOnReturn ==
  ASSUME Blocking
  PROVE  Spec => []ResultOnReturn
<1>1. Init => ResultOnReturn
  BY DEF Init, ResultOnReturn
<1>2. ASSUME ComplexInv, ResultOnReturn, [Next]_vars
      PROVE  ResultOnReturn'
  <2>1. CASE ResetArgs
    <3>1. /\ queue = <<>> /\ pc = "reset"
          /\ reply' = [call |-> call, status |-> status, e |-> tensors["E"]]
      BY <2>1 DEF ResetArgs, Return, Idle
    <3> QED BY <1>2, <3>1, ResetAfterResult DEF ResultOnReturn
  <2>2. CASE UNCHANGED reply
    BY <1>2, <2>2 DEF ResultOnReturn
  <2> QED BY <1>2, <2>1, <2>2
          DEF Next, HostStep, Begin, InitArgs, CheckWorkspace, Run, Execute, Terminated, vars
<1> QED BY <1>1, <1>2, ComplexHold, PTL DEF Spec
-----------------------------------------------------------------------------
\* E is written when the last of a call's work, the packing, is done.
WrittenInv == Written <=> pc = "reset" /\ status = "SUCCESS" /\ queue = <<>>

LEMMA WrittenLast == ComplexInv => WrittenInv
<1> SUFFICES ASSUME ComplexInv, pc = "reset", status = "SUCCESS", queue # <<>>
             PROVE  \E i \in DOMAIN queue: queue[i].work \in {"mfma", "multiply"}
  BY DEF Written, WrittenInv, ComplexInv
<1> DEFINE last == Len(queue)
<1>1. queue \in Seq(WorkOf(call)) /\ last \in 1..last /\ DOMAIN queue = 1..last
  BY DEF ComplexInv, HoldInv
<1>2. queue[last] = Work(call)[Unpacks(call) + 6]
  BY <1>1, UnpackLength DEF ComplexInv, OrderInv, Done, Sent
<1>3. queue[last].work \in {"mfma", "multiply"}
  <2>1. Work(call)[Unpacks(call) + 6] = Pack(call, IF call.kind = "bilinear" THEN "mfma" ELSE "multiply")
    BY WorkShape
  <2> QED BY <1>2, <2>1 DEF Pack
<1> QED BY <1>1, <1>3

\* A program whose streams wait for the null stream sees each complex
\* contraction be refused with E as it was, or E become at once the contraction
\* of the tensors its own earlier work leaves.
THEOREM ComplexImplementsOperation ==
  ASSUME Blocking
  PROVE  Spec => ImplementsOperation
<1>1. Init => Operation!Init
  BY DEF Init, Operation!Init, Written
<1>2. ComplexInv /\ WrittenInv /\ WrittenInv' /\ [Next]_vars
        => [Operation!Next]_<<[t \in {Host} |-> IF Written THEN None ELSE call], output>>
  <2> SUFFICES ASSUME ComplexInv, WrittenInv, WrittenInv', [Next]_vars
               PROVE  \/ Operation!Next
                      \/ UNCHANGED <<[t \in {Host} |-> IF Written THEN None ELSE call], output>>
    OBVIOUS
  <2> DEFINE asking == IF Written THEN None ELSE call
  <2>1. CASE Begin
    <3>1. ~Written /\ ~Written' /\ call = None /\ call' \in Calls /\ output' = output
      BY <2>1, HeadTailProperties DEF Begin, ComplexInv, HoldInv, WrittenInv
    <3>2. Operation!Ask(Host)
      BY <3>1 DEF Operation!Ask
    <3> QED BY <3>2 DEF Operation!Next
  <2>2. CASE InitArgs \/ CheckWorkspace
    <3>1. ~Written /\ ~Written' /\ call' = call /\ output' = output
      BY <2>2 DEF InitArgs, CheckWorkspace, WrittenInv
    <3> QED BY <3>1
  <2>3. CASE Run
    <3>1. Len(queue') > 0
      <4>1. queue \in Seq(WorkOf(call)) /\ Launch(RunWork(call))
        BY <2>3 DEF Run, RunWork, ComplexInv, HoldInv
      <4> QED BY <4>1, RunWorkShape, LaunchSeq
    <3>2. ~Written /\ ~Written' /\ call' = call /\ output' = output
      BY <2>3, <3>1 DEF Run, WrittenInv
    <3> QED BY <3>2
  <2>4. CASE ResetArgs
    <3>1. call \in Calls /\ call' = None /\ ~Written' /\ output' = output
      BY <2>4 DEF ResetArgs, Return, WrittenInv, ComplexInv, HoldInv
    <3>2. CASE Written
      BY <3>1, <3>2
    <3>3. CASE ~Written
      <4>1. Operation!Refuse(Host)
        BY <3>1, <3>3, ConstantsAssumption DEF Operation!Refuse
      <4> QED BY <4>1 DEF Operation!Next
    <3> QED BY <3>2, <3>3
  <2>5. CASE Execute
    <3>1. /\ OrderInv' /\ Done' = Done + 1 /\ Done + 1 \in 1..Sent /\ Sent' = Sent
          /\ call \in Calls /\ queue # <<>> /\ UNCHANGED <<call, pc, status>>
      BY <2>5, OrderExecute DEF ComplexInv, Sent
    <3>2. output' = IF Done = 5 + Unpacks(call) THEN Contracted(call) ELSE output
      BY <2>5, DataExecute DEF ComplexInv
    <3>3. ~Written
      BY <3>1 DEF WrittenInv
    <3>4. CASE Done = 5 + Unpacks(call)
      <4>1. pc = "reset" /\ status = "SUCCESS" /\ Sent = 6 + Unpacks(call)
        BY <3>1, <3>4, UnpackLength DEF Sent
      <4>2. queue' = <<>>
        <5>1. queue' \in Seq(WorkOf(call)) /\ Len(queue') = 0
          BY <2>5, <3>1, <3>4, <4>1, UnpackLength, HoldStep DEF ComplexInv, HoldInv, Done, Next
        <5> QED BY <5>1
      <4>3. Written'
        BY <3>1, <4>1, <4>2 DEF WrittenInv
      <4>4. Operation!Perform(Host)
        BY <3>1, <3>2, <3>3, <3>4, <4>3, ConstantsAssumption DEF Operation!Perform
      <4> QED BY <4>4 DEF Operation!Next
    <3>5. CASE Done # 5 + Unpacks(call)
      <4>1. ~Written'
        BY <3>1, <3>5, UnpackLength DEF WrittenInv, Done, Sent
      <4> QED BY <3>1, <3>2, <3>3, <3>5, <4>1
    <3> QED BY <3>4, <3>5
  <2>6. CASE UNCHANGED vars
    BY <2>6 DEF vars, Written
  <2> QED
    BY <2>1, <2>2, <2>3, <2>4, <2>5, <2>6 DEF Next, HostStep, Terminated
<1> QED
  BY <1>1, <1>2, ComplexHold, WrittenLast, PTL DEF Spec, ImplementsOperation, Operation!Spec
=============================================================================

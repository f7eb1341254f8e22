------------------------- MODULE MCComplexContraction -------------------------
(* Instances of ComplexContraction for TLC. *)
EXTENDS ComplexContraction

CONSTANTS null, blocking, nonblocking

Call(kind, stream, inPlace, workspace, A) ==
  [kind |-> kind, stream |-> stream, inPlace |-> inPlace, workspace |-> workspace,
   A |-> A, B |-> <<3, -1>>, D |-> <<5, 2>>, alpha |-> <<2, 1>>, beta |-> <<-1, 4>>]

CallsOn(streams) ==
  {Call(kind, stream, inPlace, workspace, A) :
     kind \in {"bilinear", "scale"}, stream \in streams, inPlace \in BOOLEAN,
     workspace \in BOOLEAN, A \in {<<1, 2>>, <<-2, 7>>}}

BlockingCalls == CallsOn({null, blocking})
NonBlockingCalls == CallsOn({nonblocking})

\* Two calls, so that the second meets what the first left.
BlockingPrograms == BlockingCalls \X BlockingCalls
NonBlockingPrograms == {<<c>> : c \in NonBlockingCalls}

NoValue == <<70, 90>>
=============================================================================

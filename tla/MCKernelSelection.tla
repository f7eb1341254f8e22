-------------------------- MODULE MCKernelSelection --------------------------
(* Instances of KernelSelection for TLC: every combination of types a program *)
(* can describe, and A with every number of modes, packed either way, with    *)
(* one mode of length 1 or none.                                              *)
EXTENDS KernelSelection

Computes == {"COMPUTE_16F", "COMPUTE_16BF", "COMPUTE_32F", "COMPUTE_64F",
             "COMPUTE_C32F", "COMPUTE_C64F"}

Request(a, b, c, d, compute, lengths, colMajor, oneInB, past) ==
  [a |-> a, b |-> b, c |-> c, d |-> d, compute |-> compute, lengths |-> lengths,
   strides |-> StridesFromLengths(lengths, colMajor), oneInB |-> oneInB, past |-> past]

\* The types of A, B, C and D differ in one place at most.
TypeRequests ==
  {Request(t[1], t[2], t[3], t[4], compute, <<2, 2>>, FALSE, FALSE, 0) :
     t \in {u \in ScalarTypes \X ScalarTypes \X (ScalarTypes \cup {None}) \X ScalarTypes:
              Cardinality({u[1], u[2], u[4]} \cup ({u[3]} \ {None})) <= 2},
     compute \in Computes}

Shapes ==
  UNION {{[i \in 1..n |-> IF i = one THEN 1 ELSE 2] : one \in {0, 1, n \div 2, n}} : n \in 1..12}

\* The types some branch is for.
TableTypes ==
  {<<t, t, c, t, compute>> : t \in ScalarTypes, c \in ScalarTypes \cup {"NONE"}, compute \in Computes}

\* What a table looks at, for each branch.
ShapeRequests ==
  {Request(t[1], t[2], IF t[3] = "NONE" THEN None ELSE t[3], t[4], t[5],
           lengths, colMajor, oneInB, past) :
     t \in {u \in TableTypes: HasTable(u)}, lengths \in Shapes, colMajor \in BOOLEAN,
     oneInB \in BOOLEAN, past \in {1, 7}}

\* A stride that reads as 1 when it is cut to an int: 3 * 2731 for a limit of 4096.
WideRequests ==
  {Request(t[1], t[2], None, t[4], t[5], <<2, 2, 3, 2731>>, colMajor, FALSE, 7) :
     t \in {u \in TableTypes: u[3] = "NONE" /\ HasTable(u)}, colMajor \in BOOLEAN}

Programs == TypeRequests \cup ShapeRequests \cup WideRequests
=============================================================================

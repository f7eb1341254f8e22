---------------------------- MODULE MCPermutation ----------------------------
(* Instances of Permutation for TLC. *)
EXTENDS Permutation, TLC

CONSTANTS t1, t2

ModeOrders(n) == {p \in [1..n -> 1..n]: Cardinality({p[i] : i \in 1..n}) = n}

Desc(lens, type, op) == InitTensorDescriptor(lens, None, type, op, TRUE)

PermutationCall(lengths, order, typeA, typeB, opA, opB, scalar, base, null) ==
  [a |-> Desc(lengths, typeA, opA),
   b |-> Desc([i \in DOMAIN order |-> lengths[order[i]]], typeB, opB),
   modesA |-> [i \in DOMAIN lengths |-> base * i], modesB |-> [i \in DOMAIN order |-> base * order[i]],
   alpha |-> 2, typeScalar |-> scalar, null |-> null]

Plain(lengths, order, type, opA, opB) ==
  PermutationCall(lengths, order, type, type, opA, opB, "R_32F", 1, FALSE)

Reversed(n) == [i \in 1..n |-> n + 1 - i]
Rotated(n) == [i \in 1..n |-> IF i = n THEN 1 ELSE i + 1]

\* Two and three modes in every order, of lengths that divide into no vector,
\* into the short ones and into the long ones; more modes in a few.
Lengths(n) ==
  IF n = 2 THEN {1, 3, 4, 8} \X {2, 4, 8}
  ELSE IF n = 3 THEN {<<4, 3, 4>>, <<2, 1, 3>>, <<4, 2, 8>>}
  ELSE {[i \in 1..n |-> IF i = 1 THEN 3 ELSE IF i = n THEN 4 ELSE IF i = 2 THEN 1 ELSE 2]}

Orders(n) == IF n <= 3 THEN ModeOrders(n) ELSE {Reversed(n), Rotated(n)}

ServedCalls ==
  UNION {{Plain(lengths, order, type, opA, opB) :
            lengths \in Lengths(n), order \in Orders(n), type \in {"R_16F", "R_32F"},
            opA \in UnaryOps, opB \in UnaryOps} : n \in 2..6}

RefusedCalls ==
  {PermutationCall(<<2, 2>>, <<2, 1>>, typeA, typeB, "IDENTITY", "SQRT", scalar, 1, null) :
     typeA \in {"R_16F", "R_64F"}, typeB \in {"R_16F", "R_32F"},
     scalar \in {"R_16F", "R_64F"}, null \in BOOLEAN}
  \cup {Plain(<<2>>, <<1>>, "R_32F", "IDENTITY", "IDENTITY"),
        Plain([i \in 1..7 |-> 1], Reversed(7), "R_32F", "IDENTITY", "IDENTITY")}

SmallCalls ==
  {Plain(<<4, 4>>, <<2, 1>>, "R_16F", "IDENTITY", "SQRT"),
   Plain(<<2, 3>>, <<2, 1>>, "R_16F", "IDENTITY", "SQRT"),
   PermutationCall(<<2, 3>>, <<2, 1>>, "R_16F", "R_32F", "IDENTITY", "SQRT", "R_16F", 1, FALSE)}

\* One call of every kind, and two threads that make three small ones.
AllCalls == ServedCalls \cup RefusedCalls \cup SmallCalls
SomePrograms ==
  {t1 :> <<c>> @@ t2 :> <<>> : c \in AllCalls}
  \cup {t1 :> <<c, d>> @@ t2 :> <<e>> : c \in SmallCalls, d \in SmallCalls, e \in SmallCalls}

\* What the theorems of PermutationProofs assume of the calls.
ASSUME CallsAssumption == \A c \in Calls: WellFormed(c) /\ SameModes(c)

SmallPrograms == [{t1, t2} -> {<<c>> : c \in SmallCalls}]
=============================================================================

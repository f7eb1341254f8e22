-------------------------- MODULE MCNormalizeModes --------------------------
(* Instances of NormalizeModes for TLC: every order of the modes of          *)
(* contractions with one or two M and N modes and up to two K modes.         *)
EXTENDS NormalizeModes, SequencesExt

\* Modes 1, 2 are M, 3, 4 are N, 5, 6 are K.
Length == <<2, 3, 3, 2, 2, 3>>

\* A stride per position, such that no two elements share an offset.
Tensors(modes, base) ==
  {[i \in DOMAIN order |->
      [mode |-> order[i],
       len |-> Length[order[i]],
       stride |-> base * 4^(i - 1)]] : order \in SetToSeqs(modes)}

Problems(Ms, Ns, Ks) ==
  [a: Tensors(Ms \cup Ks, 1), b: Tensors(Ns \cup Ks, 1), e: Tensors(Ms \cup Ns, 1)]

\* A stride, and a length, that ck::index_t does not hold when its limit is 128.
WideProblems ==
  [a: Tensors({1}, 200), b: Tensors({3}, 1), e: Tensors({1, 3}, 1)]
  \cup {[a |-> <<[mode |-> 7, len |-> 129, stride |-> 1]>>,
         b |-> <<[mode |-> 3, len |-> 3, stride |-> 1]>>,
         e |-> <<[mode |-> 7, len |-> 129, stride |-> 1], [mode |-> 3, len |-> 3, stride |-> 129]>>]}

\* Up to five modes in all.
AllOrders ==
       WideProblems
  \cup Problems({1, 2}, {3, 4}, {5})
  \cup Problems({1, 2}, {3}, {5, 6})
  \cup Problems({1}, {3, 4}, {5, 6})
  \cup Problems({1}, {3}, {})

\* What DimsCountWork is proved under.
ASSUME ApartAssumption == \A p \in Inputs: Apart(p.a) /\ Apart(p.e)
=============================================================================

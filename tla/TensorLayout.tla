---------------------------- MODULE TensorLayout ----------------------------
(***************************************************************************)
(* Tensor descriptors: packed strides (library/src/include/util.hpp) and     *)
(* hiptensorInitTensorDescriptor (library/src/hiptensor.cpp).  Lengths and   *)
(* strides are sequences of naturals; a null pointer is None.                *)
(***************************************************************************)
EXTENDS Integers, Sequences, FiniteSets

CONSTANTS
  None,
  IndexLimit    \* 2^31: one more than the greatest ck::index_t

ASSUME IndexAssumption == IndexLimit \in Nat \ {0, 1}

\* size_t to ck::index_t, or to int: two's complement of the low bits.
Index(n) == ((n + IndexLimit) % (2 * IndexLimit)) - IndexLimit

\* toCKVec and toCKArr: what the library hands to CK.
IndexVector(v) == [i \in DOMAIN v |-> Index(v[i])]

\* The conversion changes nothing.
FitsIndex(v) == \A i \in DOMAIN v: v[i] < IndexLimit

\* The product of the lengths: 1 when there are none.
ElementsFromLengths(lengths) ==
  LET product[n \in 0..Len(lengths)] ==
        IF n = 0 THEN 1 ELSE lengths[n] * product[n - 1]
  IN product[Len(lengths)]

\* The strides of a packed tensor: the last mode is contiguous, or the first.
StridesFromLengths(lengths, colMajor) ==
  [i \in DOMAIN lengths |->
     ElementsFromLengths(IF colMajor THEN SubSeq(lengths, 1, i - 1)
                                     ELSE SubSeq(lengths, i + 1, Len(lengths)))]

ScalarTypes == {"R_16F", "R_16BF", "R_32F", "R_64F", "C_32F", "C_64F"}
UnaryOps == {"IDENTITY", "SQRT"}

\* hiptensorInitTensorDescriptor for lengths of numModes modes: its status and
\* the descriptor it fills in.
InitTensorDescriptor(lens, strides, type, unaryOp, supportsF64) ==
  CASE \/ lens = None /\ strides # None
       \/ type \notin ScalarTypes
       \/ unaryOp \notin UnaryOps          -> [status |-> "INVALID_VALUE"]
    [] type = "R_64F" /\ ~supportsF64      -> [status |-> "ARCH_MISMATCH"]
    [] OTHER ->
         [status |-> "SUCCESS", type |-> type, unaryOp |-> unaryOp,
          lengths |-> IF lens = None THEN <<>> ELSE lens,
          strides |-> CASE strides # None -> strides
                        [] lens = None    -> <<>>
                        [] OTHER          -> StridesFromLengths(lens, FALSE)]

\* The offset of the element with the (0-based) coordinates x.
OffsetOf(x, strides) ==
  LET sum[n \in 0..Len(strides)] ==
        IF n = 0 THEN 0 ELSE x[n] * strides[n] + sum[n - 1]
  IN sum[Len(strides)]

\* The coordinates of a tensor's elements.
Coordinates(lengths) ==
  LET upTo[n \in 0..Len(lengths)] ==
        IF n = 0 THEN {<<>>}
                 ELSE {Append(x, i) : x \in upTo[n - 1], i \in 0..lengths[n] - 1}
  IN upTo[Len(lengths)]
=============================================================================

--------------------------- MODULE TensorOperation ---------------------------
(***************************************************************************)
(* What a tensor operation promises to a program of several threads: a call  *)
(* is refused and the output is as it was, or the output becomes, at once,   *)
(* what the definition of the operation says.  The permutation and the       *)
(* complex contraction are shown to implement it.                            *)
(***************************************************************************)
CONSTANTS
  Threads,
  Calls,       \* what a program can ask for
  None,        \* no call, no output yet
  Result(_)    \* the elements the definition gives for a call

VARIABLES
  asked,       \* the call each thread is in
  output       \* the elements last written

Init ==
  /\ asked = [t \in Threads |-> None]
  /\ output = None

Ask(t) ==
  /\ asked[t] = None
  /\ \E c \in Calls: asked' = [asked EXCEPT ![t] = c]
  /\ UNCHANGED output

Perform(t) ==
  /\ asked[t] # None
  /\ asked' = [asked EXCEPT ![t] = None]
  /\ output' = Result(asked[t])

Refuse(t) ==
  /\ asked[t] # None
  /\ asked' = [asked EXCEPT ![t] = None]
  /\ UNCHANGED output

Next == \E t \in Threads: Ask(t) \/ Perform(t) \/ Refuse(t)

Spec == Init /\ [][Next]_<<asked, output>>
=============================================================================

---------------------------- MODULE DeviceStreams ----------------------------
(***************************************************************************)
(* HIP's streams, as hipTensor uses them: work is launched on a stream and    *)
(* runs later, after the work launched before it on its stream; work on the   *)
(* null stream and work on a blocking stream wait for each other as well.     *)
(* A stream made with hipStreamNonBlocking takes no part in that.             *)
(***************************************************************************)
EXTENDS Naturals, Sequences

CONSTANTS
  NullStream,
  NonBlocking     \* the streams made with hipStreamNonBlocking

VARIABLE queue    \* the work not done yet, a record with a stream each, in launch order

Ordered(s, u) == s = u \/ (NullStream \in {s, u} /\ {s, u} \cap NonBlocking = {})

\* The i-th work in the queue waits for nothing.
Ready(i) == \A j \in 1..i - 1: ~Ordered(queue[j].stream, queue[i].stream)

Launch(work) == queue' = queue \o work

Finish(i) == queue' = [j \in 1..Len(queue) - 1 |-> queue[IF j < i THEN j ELSE j + 1]]

\* hipFree returns when the device is idle.
Idle == queue = <<>>
=============================================================================
